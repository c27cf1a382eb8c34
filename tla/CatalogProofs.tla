----------------------------- MODULE CatalogProofs -----------------------------
(***************************************************************************)
(* Proofs about Catalog, for every set of requests, old rows and values.   *)
(***************************************************************************)
EXTENDS Catalog, TLAPS

\* A row of each table.
LEMMA RowKinds ==
  ASSUME NEW row \in Rows
  PROVE  /\ row.table = "projects" => row \in ProjectRow /\ row.project = None
         /\ row.table = "entries" => row \in EntryRow
         /\ row.table = "reports" => row \in ReportRow
         /\ row.table \in {"projects", "entries", "reports"}
         /\ row.project \in Ids \cup {None}
  BY DEF Rows, ProjectRow, EntryRow, ReportRow

\* An UPDATE leaves a row in its table and its project.
LEMMA WrittenRow ==
  ASSUME NEW row \in Rows, NEW selected, NEW entity \in Rows,
         entity.table = row.table, entity.project = row.project
  PROVE  /\ Written(row, selected, entity) \in Rows
         /\ Written(row, selected, entity).table = row.table
         /\ Written(row, selected, entity).project = row.project
<1>1. CASE row.table = "projects"
  <2>1. row \in ProjectRow /\ entity \in ProjectRow
    BY <1>1, RowKinds
  <2>. QED BY <2>1 DEF Written, ProjectRow, Rows
<1>2. CASE row.table = "entries"
  <2>1. row \in EntryRow /\ entity \in EntryRow
    BY <1>2, RowKinds
  <2>. QED BY <2>1 DEF Written, EntryRow, Rows
<1>3. CASE row.table = "reports"
  <2>1. row \in ReportRow /\ entity \in ReportRow
    BY <1>3, RowKinds
  <2>. QED BY <2>1 DEF Written, ReportRow, Rows
<1>. QED BY <1>1, <1>2, <1>3, RowKinds

\* So does a PATCH, when it assigns what it was given.
LEMMA AssignedProject ==
  ASSUME NEW row \in ProjectRow, NEW change \in Change
  PROVE  Assigned(row, change, None) \in ProjectRow
  BY DEF Assigned, ProjectRow, Change

LEMMA AssignedEntry ==
  ASSUME NEW row \in EntryRow, NEW change \in EntryChange
  PROVE  /\ Assigned(row, change, None) \in EntryRow
         /\ Assigned(row, change, None).project = row.project
  BY DEF Assigned, EntryRow, EntryChange

LEMMA DecidedRow ==
  ASSUME NEW row \in ReportRow, NEW f \in Feedback
  PROVE  /\ Decided(row, f) \in ReportRow
         /\ Decided(row, f).project = row.project
  BY DEF Decided, ReportRow, Feedback

\* Having the same key is symmetric and transitive.
LEMMA SameKeySymmetric ==
  \A a, b : SameKey(a, b) => SameKey(b, a)
  BY DEF SameKey

LEMMA SameKeyTransitive ==
  \A a, b, c : SameKey(a, b) /\ SameKey(b, c) => SameKey(a, c)
  BY DEF SameKey

\* The committed rows, one by one.
LEMMA PresentRow ==
  ASSUME TypeOK, NEW id \in Present
  PROVE  id \in Ids /\ table[id] \in Rows /\ table[id] # None
  BY DEF Present, TypeOK

\* What a request that writes or has selected its row leaves there.
LEMMA StoredRow ==
  ASSUME TypeOK, ArgsOK, UpdatesHoldTheirRow, NEW q \in Requests,
         Writing(q), args[q].op # "delete"
  PROVE  /\ Stored(q) \in Rows /\ Stored(q).table = args[q].on
         /\ args[q].op = "create" => Stored(q) = args[q].entity
         /\ args[q].op = "update" =>
              args[q].id \in Present /\ Stored(q).project = table[args[q].id].project
<1>1. InHand(q)
  BY DEF ArgsOK, Busy
<1>2. CASE args[q].op = "create"
  <2>1. Stored(q) = args[q].entity
    BY <1>2 DEF Stored
  <2>. QED BY <1>1, <1>2, <2>1 DEF InHand
<1>3. CASE args[q].op = "update"
  <2>1. args[q].id \in Present
    BY <1>3 DEF UpdatesHoldTheirRow
  <2>2. Stored(q) = Written(table[args[q].id], args[q].selected, args[q].entity)
    BY <1>3 DEF Stored
  <2>3. /\ table[args[q].id] \in Rows /\ args[q].entity \in Rows
        /\ args[q].entity.table = table[args[q].id].table
        /\ args[q].entity.project = table[args[q].id].project
        /\ table[args[q].id].table = args[q].on
    BY <1>1, <1>3, <2>1, PresentRow DEF InHand
  <2>. QED BY <1>3, <2>1, <2>2, <2>3, WrittenRow
<1>. QED BY <1>1, <1>2, <1>3 DEF InHand, Operations

-------------------------------------------------------------------------------
(* What a step of a request does to the rows and to what the requests hold. *)

Others(q) ==
  /\ pc[q] # "done"
  /\ \A r \in Requests \ {q} : pc'[r] = pc[r] /\ args'[r] = args[r]

Keeps(q) == UNCHANGED table /\ args'[q] = args[q]

\* q holds nothing afterwards, and no index knows of it.
Prepares(q) ==
  /\ UNCHANGED table
  /\ \/ ~Writing(q)'
     \/ args'[q].op = "create" /\ pc'[q] = "written"
  /\ Busy(q)' => InHand(q)'

Takes(q) ==
  /\ Keeps(q) /\ pc[q] = "selected" /\ args[q].op # "create" /\ Free(q, args[q].id)
  /\ args[q].op = "update" => args[q].id \in Present
  /\ \/ pc'[q] = "written"
     \/ pc'[q] = "flushed" /\ args[q].on = "reports" /\ args[q].op = "update"
  /\ args[q].op = "delete" /\ args[q].on = "projects" => ~ChildPending(args[q].id)

Cascades(q) ==
  /\ Keeps(q) /\ args[q].op = "delete" /\ pc[q] = "written" /\ pc'[q] = "flushed"
  /\ args[q].on = "projects" => \A id \in Children(args[q].id) : Free(q, id)

Enters(q) ==
  /\ Keeps(q) /\ args[q].op # "delete" /\ pc[q] = "written" /\ pc'[q] = "flushed"
  /\ ~Taken(q) /\ \A r \in Requests : ~WaitsFor(q, r)
  /\ args[q].op = "create" => ScopeExists(q) /\ ~ScopeHeld(q)

Answers(q) == Keeps(q) /\ pc[q] = "flushed" /\ pc'[q] = "answered"

Commits(q) ==
  /\ pc[q] = "answered" /\ pc'[q] = "done"
  /\ table' = [id \in Ids |->
                 IF id = args[q].id THEN Stored(q)
                 ELSE IF id \in Held(q) THEN None ELSE table[id]]

RequestKind(q) ==
  /\ Others(q)
  /\ \/ Prepares(q) \/ Takes(q) \/ Cascades(q)
     \/ Enters(q) \/ Answers(q) \/ Commits(q)

LEMMA GotoKind ==
  ASSUME TypeOK, NEW q \in Requests, NEW from, NEW to, Goto(q, from, to)
  PROVE  /\ pc[q] = from /\ pc'[q] = to
         /\ \A r \in Requests \ {q} : pc'[r] = pc[r]
  BY DEF TypeOK, Goto

LEMMA EndKind ==
  ASSUME TypeOK, NEW q \in Requests, NEW o, End(q, o), pc[q] # "done", UNCHANGED table
  PROVE  RequestKind(q)
<1>1. Others(q) /\ pc'[q] = "done"
  BY DEF TypeOK, End, Others
<1>2. ~Busy(q)' /\ ~Writing(q)'
  BY <1>1 DEF Busy, Writing
<1>. QED
  BY <1>1, <1>2 DEF RequestKind, Prepares

LEMMA InsertKind ==
  ASSUME TypeOK, NEW q \in Requests, NEW row \in Rows, Insert(q, row)
  PROVE  RequestKind(q)
<1>. DEFINE a == [NoArgs EXCEPT !.op = "create", !.on = row.table, !.id = q, !.entity = row]
<1>1. Goto(q, "new", "written") /\ args' = [args EXCEPT ![q] = a] /\ UNCHANGED table
  BY DEF Insert
<1>2. a.op = "create" /\ a.on = row.table /\ a.id = q /\ a.entity = row
  BY DEF NoArgs
<1>. HIDE DEF a
<1>3. pc[q] = "new" /\ pc'[q] = "written" /\ args'[q] = a /\ Others(q)
  BY <1>1, GotoKind DEF TypeOK, Others
<1>4. InHand(q)'
  BY <1>2, <1>3 DEF InHand, Operations, Writing, Ids
<1>. QED
  BY <1>1, <1>2, <1>3, <1>4 DEF RequestKind, Prepares

LEMMA FindKind ==
  ASSUME TypeOK, RowsAreSettled, NEW q \in Requests, NEW op \in {"update", "delete"},
         NEW name, NEW id \in Ids, NEW entity, NEW missing,
         op = "update" /\ id \in RowsOf(name) =>
           /\ entity \in Rows /\ entity.table = name
           /\ entity.project = table[id].project,
         Find(q, op, name, id, entity, missing)
  PROVE  RequestKind(q)
<1>1. CASE id \in RowsOf(name)
  <2>. DEFINE a == [NoArgs EXCEPT !.op = op, !.on = name, !.id = id, !.entity = entity]
  <2>1. Goto(q, "new", "read") /\ args' = [args EXCEPT ![q] = a] /\ UNCHANGED table
    BY <1>1 DEF Find
  <2>2. a.op = op /\ a.on = name /\ a.id = id /\ a.entity = entity
    BY DEF NoArgs
  <2>. HIDE DEF a
  <2>3. pc[q] = "new" /\ pc'[q] = "read" /\ args'[q] = a /\ Others(q)
    BY <2>1, GotoKind DEF TypeOK, Others
  <2>4. table[id] # None /\ table[id].table = name
    BY <1>1 DEF RowsOf, Present
  <2>5. id \in Requests => pc'[id] = "done"
    BY <2>3, <2>4 DEF RowsAreSettled, Others
  <2>6. InHand(q)' /\ ~Writing(q)'
    BY <1>1, <2>1, <2>2, <2>3, <2>4, <2>5 DEF InHand, Operations, Writing, Ids
  <2>. QED
    BY <2>1, <2>3, <2>6 DEF RequestKind, Prepares
<1>2. CASE id \notin RowsOf(name)
  BY <1>2, EndKind DEF Find
<1>. QED BY <1>1, <1>2

LEMMA SelectKind ==
  ASSUME TypeOK, ArgsOK, NEW q \in Requests, Select(q)
  PROVE  RequestKind(q)
<1>1. pc[q] = "read" /\ UNCHANGED table
  BY DEF Select
<1>2. CASE args[q].id \in Present /\ Goto(q, "read", "selected")
           /\ args' = [args EXCEPT ![q].selected = table[args[q].id]]
  <2>. DEFINE a == [args[q] EXCEPT !.selected = table[args[q].id]]
  <2>1. args[q] \in Args
    BY DEF TypeOK
  <2>2. a.op = args[q].op /\ a.on = args[q].on /\ a.id = args[q].id /\ a.entity = args[q].entity
    BY <2>1 DEF Args
  <2>3. args' = [args EXCEPT ![q] = a]
    BY <1>2
  <2>. HIDE DEF a
  <2>4. pc'[q] = "selected" /\ args'[q] = a /\ Others(q)
    BY <1>1, <1>2, <2>3, GotoKind DEF TypeOK, Others
  <2>5. InHand(q) /\ args[q].op # "create"
    BY <1>1 DEF ArgsOK, Busy, InHand, Writing
  <2>6. InHand(q)' /\ ~Writing(q)'
    BY <1>1, <2>2, <2>4, <2>5 DEF InHand, Writing, Others, Present
  <2>. QED
    BY <1>1, <2>4, <2>6 DEF RequestKind, Prepares
<1>3. CASE End(q, "Failure")
  BY <1>1, <1>3, EndKind
<1>. QED
  BY <1>2, <1>3 DEF Select

LEMMA UpdateKind ==
  ASSUME TypeOK, ArgsOK, NEW q \in Requests, NEW to \in {"written", "flushed"},
         to = "flushed" => args[q].on = "reports", Update(q, to)
  PROVE  RequestKind(q)
<1>1. pc[q] = "selected" /\ args[q].op = "update" /\ UNCHANGED table
      /\ Free(q, args[q].id)
  BY DEF Update
<1>2. CASE args[q].id \in Present /\ Goto(q, "selected", to) /\ UNCHANGED args
  <2>1. pc'[q] = to /\ Others(q)
    BY <1>1, <1>2, GotoKind DEF Others
  <2>. QED
    BY <1>1, <1>2, <2>1 DEF RequestKind, Takes, Keeps
<1>3. CASE End(q, "Failure")
  BY <1>1, <1>3, EndKind
<1>. QED
  BY <1>2, <1>3 DEF Update

LEMMA DeleteKind ==
  ASSUME TypeOK, NEW q \in Requests, Delete(q),
         args[q].on = "projects" => ~ChildPending(args[q].id)
  PROVE  RequestKind(q)
<1>1. pc[q] = "selected" /\ pc'[q] = "written" /\ Others(q)
  BY GotoKind DEF Delete, Others
<1>. QED
  BY <1>1 DEF Delete, RequestKind, Takes, Keeps

LEMMA EnterKind ==
  ASSUME TypeOK, NEW q \in Requests, NEW taken, Enter(q, taken),
         args[q].op = "create" => ScopeExists(q) /\ ~ScopeHeld(q)
  PROVE  RequestKind(q)
<1>1. pc[q] = "written" /\ args[q].op # "delete" /\ UNCHANGED table
      /\ \A r \in Requests : ~WaitsFor(q, r)
  BY DEF Enter, Indexing
<1>2. CASE ~Taken(q) /\ Goto(q, "written", "flushed") /\ UNCHANGED args
  <2>1. pc'[q] = "flushed" /\ Others(q)
    BY <1>1, <1>2, GotoKind DEF Others
  <2>. QED
    BY <1>1, <1>2, <2>1 DEF RequestKind, Enters, Keeps
<1>3. CASE End(q, taken)
  BY <1>1, <1>3, EndKind
<1>. QED
  BY <1>2, <1>3 DEF Enter

LEMMA CascadeKind ==
  ASSUME TypeOK, NEW q \in Requests, args[q].op = "delete",
         Goto(q, "written", "flushed"), UNCHANGED <<table, args>>,
         args[q].on = "projects" => \A id \in Children(args[q].id) : Free(q, id)
  PROVE  RequestKind(q)
<1>1. pc[q] = "written" /\ pc'[q] = "flushed" /\ Others(q)
  BY GotoKind DEF Others
<1>. QED
  BY <1>1 DEF RequestKind, Cascades, Keeps

\* "No value" is the id of no row.
LEMMA HeldIds ==
  \A q \in Requests : Held(q) \subseteq Present /\ None \notin Held(q)
  BY IdsAssumption DEF Held, Present, Children, Ids

\* A project is in no project.
LEMMA ProjectScope ==
  ASSUME TypeOK, ArgsOK, NEW q \in Requests,
         pc[q] = "written", args[q].op = "create", args[q].on = "projects"
  PROVE  ScopeExists(q) /\ ~ScopeHeld(q)
<1>1. InHand(q)
  BY DEF ArgsOK, Busy, Writing
<1>2. args[q].entity.project = None
  BY <1>1, RowKinds DEF InHand
<1>3. Stored(q).project = None
  BY <1>2 DEF Stored
<1>. QED
  BY <1>3, HeldIds DEF ScopeExists, ScopeHeld

LEMMA FeedbackFindKind ==
  ASSUME TypeOK, RowsAreSettled, NEW q \in Requests, FeedbackFind(q)
  PROVE  RequestKind(q)
<1>1. pc[q] = "new" /\ UNCHANGED table
  BY DEF FeedbackFind
<1>2. PICK f \in Feedback :
        \/ /\ f.id \in RowsOf("reports")
           /\ Goto(q, "new", "read")
           /\ args' = [args EXCEPT ![q] = [NoArgs EXCEPT
                         !.op = "update", !.on = "reports", !.id = f.id, !.asked = f,
                         !.entity = Decided(table[f.id], f)]]
        \/ pc' = [pc EXCEPT ![q] = "done"] /\ args' = [args EXCEPT ![q].asked = f]
        \/ End(q, "ReportNotFound")
  BY DEF FeedbackFind
<1>3. CASE f.id \in RowsOf("reports") /\ Goto(q, "new", "read")
           /\ args' = [args EXCEPT ![q] = [NoArgs EXCEPT
                         !.op = "update", !.on = "reports", !.id = f.id, !.asked = f,
                         !.entity = Decided(table[f.id], f)]]
  <2>. DEFINE a == [NoArgs EXCEPT !.op = "update", !.on = "reports", !.id = f.id,
                                  !.asked = f, !.entity = Decided(table[f.id], f)]
  <2>1. a.op = "update" /\ a.on = "reports" /\ a.id = f.id /\ a.entity = Decided(table[f.id], f)
    BY DEF NoArgs
  <2>2. args' = [args EXCEPT ![q] = a]
    BY <1>3
  <2>. HIDE DEF a
  <2>3. pc'[q] = "read" /\ args'[q] = a /\ Others(q)
    BY <1>1, <1>3, <2>2, GotoKind DEF TypeOK, Others
  <2>4. f.id \in Present /\ table[f.id].table = "reports"
    BY <1>3 DEF RowsOf
  <2>5. table[f.id] \in ReportRow /\ table[f.id] # None
    BY <2>4, PresentRow, RowKinds
  <2>6. a.entity \in ReportRow /\ a.entity.project = table[f.id].project
    BY <2>1, <2>5, DecidedRow
  <2>7. f.id \in Requests => pc'[f.id] = "done"
    BY <1>1, <2>3, <2>5 DEF RowsAreSettled, Others
  <2>8. a.entity \in Rows /\ a.entity.table = "reports"
    BY <2>6 DEF Rows, ReportRow
  <2>9. InHand(q)' /\ ~Writing(q)'
    BY <1>1, <2>1, <2>3, <2>4, <2>6, <2>7, <2>8 DEF InHand, Operations, Writing, Present
  <2>. QED
    BY <1>1, <2>3, <2>9 DEF RequestKind, Prepares
<1>4. CASE pc' = [pc EXCEPT ![q] = "done"] /\ args' = [args EXCEPT ![q].asked = f]
  <2>1. pc'[q] = "done" /\ Others(q)
    BY <1>1, <1>4 DEF TypeOK, Others
  <2>2. ~Busy(q)' /\ ~Writing(q)'
    BY <2>1 DEF Busy, Writing
  <2>. QED
    BY <1>1, <2>1, <2>2 DEF RequestKind, Prepares
<1>5. CASE End(q, "ReportNotFound")
  BY <1>1, <1>5, EndKind
<1>. QED
  BY <1>2, <1>3, <1>4, <1>5

\* Every step of a request is of one of the kinds.
LEMMA ProjectKind ==
  ASSUME TypeOK, ArgsOK, RowsAreSettled, NEW q \in Requests, ProjectStep(q)
  PROVE  RequestKind(q)
<1>1. ASSUME NEW name \in Names, NEW text \in Texts, Insert(q, NewProject(name, text))
      PROVE  RequestKind(q)
  <2>1. NewProject(name, text) \in Rows
    BY DEF NewProject, Rows, ProjectRow
  <2>. QED BY <1>1, <2>1, InsertKind
<1>2. ASSUME NEW id \in Ids, NEW change \in Change,
             Find(q, "update", "projects", id, Assigned(table[id], change, None),
                  "ProjectNotFound")
      PROVE  RequestKind(q)
  <2>. DEFINE e == Assigned(table[id], change, None)
  <2>1. ASSUME id \in RowsOf("projects")
        PROVE  e \in Rows /\ e.table = "projects" /\ e.project = table[id].project
    <3>1. table[id] \in ProjectRow
      BY <2>1, PresentRow, RowKinds DEF RowsOf
    <3>2. e \in ProjectRow
      BY <3>1, AssignedProject
    <3>. QED BY <3>1, <3>2 DEF Rows, ProjectRow
  <2>. HIDE DEF e
  <2>2. Find(q, "update", "projects", id, e, "ProjectNotFound")
    BY <1>2 DEF e
  <2>. QED BY <2>1, <2>2, FindKind
<1>3. ASSUME NEW id \in Ids, Find(q, "delete", "projects", id, None, "ProjectNotFound")
      PROVE  RequestKind(q)
  BY <1>3, FindKind
<1>4. CASE ProjectSelect(q)
  BY <1>4, SelectKind DEF ProjectSelect
<1>5. CASE ProjectUpdate(q)
  BY <1>5, UpdateKind DEF ProjectUpdate
<1>6. CASE ProjectEnter(q)
  BY <1>6, EnterKind, ProjectScope DEF ProjectEnter, On, Enter, Indexing
<1>7. CASE ProjectDelete(q)
  BY <1>7, DeleteKind DEF ProjectDelete
<1>8. CASE ProjectCascade(q)
  BY <1>8, CascadeKind DEF ProjectCascade
<1>. QED
  BY <1>1, <1>2, <1>3, <1>4, <1>5, <1>6, <1>7, <1>8
  DEF ProjectStep, ProjectCreate, ProjectFindToUpdate, ProjectFindToDelete

LEMMA EntryKind ==
  ASSUME TypeOK, ArgsOK, RowsAreSettled, NEW q \in Requests, EntryStep(q)
  PROVE  RequestKind(q)
<1>1. ASSUME NEW p \in Ids \cup {None}, NEW kind \in Kinds, NEW name \in Names,
             NEW text \in Texts, Insert(q, NewEntry(p, kind, name, text))
      PROVE  RequestKind(q)
  <2>1. NewEntry(p, kind, name, text) \in Rows
    BY DEF NewEntry, Rows, EntryRow
  <2>. QED BY <1>1, <2>1, InsertKind
<1>2. ASSUME NEW id \in Ids, NEW change \in EntryChange,
             Find(q, "update", "entries", id, Assigned(table[id], change, None),
                  "EntryNotFound")
      PROVE  RequestKind(q)
  <2>. DEFINE e == Assigned(table[id], change, None)
  <2>1. ASSUME id \in RowsOf("entries")
        PROVE  e \in Rows /\ e.table = "entries" /\ e.project = table[id].project
    <3>1. table[id] \in EntryRow
      BY <2>1, PresentRow, RowKinds DEF RowsOf
    <3>2. e \in EntryRow /\ e.project = table[id].project
      BY <3>1, AssignedEntry
    <3>. QED BY <3>2 DEF Rows, EntryRow
  <2>. HIDE DEF e
  <2>2. Find(q, "update", "entries", id, e, "EntryNotFound")
    BY <1>2 DEF e
  <2>. QED BY <2>1, <2>2, FindKind
<1>3. ASSUME NEW id \in Ids, Find(q, "delete", "entries", id, None, "EntryNotFound")
      PROVE  RequestKind(q)
  BY <1>3, FindKind
<1>4. CASE EntrySelect(q)
  BY <1>4, SelectKind DEF EntrySelect
<1>5. CASE EntryUpdate(q)
  BY <1>5, UpdateKind DEF EntryUpdate
<1>6. CASE EntryEnter(q)
  <2>1. CASE Enter(q, "NameAlreadyExists")
             /\ (args[q].op = "create" => ScopeExists(q) /\ ~ScopeHeld(q))
    BY <2>1, EnterKind
  <2>2. CASE pc[q] = "written" /\ End(q, "NameAlreadyExists") /\ UNCHANGED table
    BY <2>2, EndKind
  <2>. QED BY <1>6, <2>1, <2>2 DEF EntryEnter
<1>7. CASE EntryDelete(q)
  BY <1>7, DeleteKind DEF EntryDelete, On
<1>8. CASE EntryDeleted(q)
  BY <1>8, CascadeKind DEF EntryDeleted, On
<1>. QED
  BY <1>1, <1>2, <1>3, <1>4, <1>5, <1>6, <1>7, <1>8
  DEF EntryStep, GlobalEntryCreate, ProjectEntryCreate, EntryFindToUpdate, EntryFindToDelete

LEMMA KindStep ==
  ASSUME TypeOK, ArgsOK, RowsAreSettled, NEW q \in Requests,
         Advance(q) \/ RequestFails(q) \/ CommitFails(q)
  PROVE  RequestKind(q)
<1>1. CASE FeedbackStep(q)
  BY <1>1, FeedbackFindKind, SelectKind, UpdateKind
  DEF FeedbackStep, FeedbackSelect, FeedbackUpdate, On
<1>2. CASE Answer(q)
  <2>1. pc[q] = "flushed" /\ pc'[q] = "answered" /\ Others(q)
    BY <1>2, GotoKind DEF Answer, Others
  <2>. QED
    BY <1>2, <2>1 DEF Answer, RequestKind, Answers, Keeps
<1>3. CASE Commit(q)
  <2>1. pc[q] = "answered" /\ pc'[q] = "done" /\ Others(q)
    BY <1>3 DEF Commit, End, TypeOK, Others
  <2>. QED
    BY <1>3, <2>1 DEF Commit, RequestKind, Commits
<1>4. CASE Deadlocks(q)
  <2>1. pc[q] = "written"
    BY <1>4 DEF Deadlocks, WaitsFor, Indexing
  <2>. QED
    BY <1>4, <2>1, EndKind DEF Deadlocks
<1>5. CASE RequestFails(q)
  BY <1>5, EndKind DEF RequestFails
<1>6. CASE CommitFails(q)
  BY <1>6, EndKind DEF CommitFails
<1>. QED
  BY <1>1, <1>2, <1>3, <1>4, <1>5, <1>6, ProjectKind, EntryKind DEF Advance

LEMMA NextKinds ==
  ASSUME TypeOK, ArgsOK, RowsAreSettled, [Next]_vars
  PROVE  (\E q \in Requests : RequestKind(q)) \/ UNCHANGED vars
  BY KindStep DEF Next

-------------------------------------------------------------------------------
(* What the other requests have in hand while one moves.                   *)

\* A step that changes no row leaves the others as they are.
LEMMA OthersSame ==
  ASSUME NEW q \in Requests, Others(q), UNCHANGED table, NEW r \in Requests \ {q}
  PROVE  /\ Held(r)' = Held(r) /\ Stored(r)' = Stored(r)
         /\ Entered(r)' = Entered(r) /\ Writing(r)' = Writing(r)
  BY DEF Others, Held, Writing, Present, Children, Stored, Entered

\* What a commit leaves: the row it stores, and the rows it does not hold.
LEMMA CommitRows ==
  ASSUME TypeOK, ArgsOK, RowsAreSettled, NEW q \in Requests, Commits(q)
  PROVE  /\ Writing(q) /\ InHand(q) /\ args[q].id \in Ids
         /\ args[q].op = "create" => args[q].id = q /\ q \notin Present
         /\ args[q].op # "create" /\ args[q].id \in Present => args[q].id \in Held(q)
         /\ args[q].op = "delete" => table'[args[q].id] = None
         /\ \A c \in Present : c \notin Held(q) => c # args[q].id /\ table'[c] = table[c]
         /\ \A c \in Present' :
              \/ c \in Present /\ c \notin Held(q) /\ c # args[q].id /\ table'[c] = table[c]
              \/ c = args[q].id /\ args[q].op # "delete" /\ Entered(q) /\ table'[c] = Stored(q)
<1>1. Writing(q) /\ InHand(q) /\ args[q].id \in Ids /\ pc[q] = "answered"
  BY DEF Commits, Writing, ArgsOK, Busy, InHand
<1>2. args[q].op = "create" => args[q].id = q /\ q \notin Present
  BY <1>1 DEF InHand, RowsAreSettled, Present
<1>3. args[q].op # "create" /\ args[q].id \in Present => args[q].id \in Held(q)
  BY <1>1 DEF Held
<1>4. table'[args[q].id] = Stored(q)
  BY <1>1 DEF Commits
<1>5. args[q].op = "delete" => table'[args[q].id] = None
  BY <1>4 DEF Stored
<1>6. ASSUME NEW c \in Present, c \notin Held(q)
      PROVE  c # args[q].id /\ table'[c] = table[c]
  <2>1. c # args[q].id
    BY <1>2, <1>3, <1>6
  <2>. QED
    BY <1>6, <2>1 DEF Commits, Present
<1>7. ASSUME NEW c \in Present'
      PROVE  \/ c \in Present /\ c \notin Held(q) /\ c # args[q].id /\ table'[c] = table[c]
             \/ c = args[q].id /\ args[q].op # "delete" /\ Entered(q) /\ table'[c] = Stored(q)
  <2>1. c \in Ids /\ table'[c] # None
    BY DEF Present, Ids
  <2>2. CASE c = args[q].id
    BY <1>1, <1>4, <1>5, <2>1, <2>2 DEF Entered
  <2>3. CASE c # args[q].id
    <3>1. c \notin Held(q) /\ table'[c] = table[c]
      BY <2>1, <2>3 DEF Commits
    <3>. QED BY <2>1, <2>3, <3>1 DEF Present
  <2>. QED BY <2>2, <2>3
<1>. QED
  BY <1>1, <1>2, <1>3, <1>5, <1>6, <1>7

\* It moves nothing that another request has in hand.
LEMMA CommitOthers ==
  ASSUME TypeOK, ArgsOK, RowsAreSettled, UpdatesHoldTheirRow, LocksAreExclusive,
         ScopesAreHeld, NEW q \in Requests, Others(q), Commits(q),
         NEW r \in Requests \ {q}
  PROVE  /\ Held(r)' = Held(r)
         /\ Entered(r)' = Entered(r) /\ Writing(r)' = Writing(r)
         /\ Entered(r) => Stored(r)' = Stored(r)
<1>. DEFINE i == args[q].id
            j == args[r].id
<1>1. pc'[r] = pc[r] /\ args'[r] = args[r]
  BY DEF Others
<1>2. Entered(r)' = Entered(r) /\ Writing(r)' = Writing(r)
  BY <1>1 DEF Entered, Writing
<1>3. Held(r) \cap Held(q) = {} /\ pc[q] # "done"
  BY DEF LocksAreExclusive, Others
<1>4. CASE Writing(r) /\ args[r].op # "create"
  <2>1. InHand(r) /\ j \in Ids
    BY <1>4 DEF ArgsOK, Busy, InHand
  <2>2. j \in Present => j \in Held(r)
    BY <1>4 DEF Held
  <2>3. j \in Present => j # i /\ j \in Present' /\ table'[j] = table[j]
    BY <1>3, <2>2, CommitRows DEF Present, Ids
  <2>4. j \notin Present => j \notin Present'
    <3>1. j # q
      BY <1>3, <1>4, <2>1 DEF InHand
    <3>. QED
      BY <3>1, CommitRows DEF UpdatesHoldTheirRow, InHand, Operations
  <2>5. ASSUME args[r].op = "delete", pc[r] # "written"
        PROVE  Children(j)' = Children(j)
    <3>1. \A c \in Children(j) : c \in Held(r) /\ c \in Present /\ table[c].project = j
      BY <1>4, <2>5 DEF Held, Children
    <3>2. \A c \in Children(j) : c \in Present' /\ table'[c].project = j
      BY <1>3, <3>1, CommitRows, PresentRow DEF Present
    <3>3. ASSUME NEW c \in Present', table'[c].project = j
          PROVE  c \in Present /\ table[c].project = j
      <4>1. CASE c \in Present /\ table'[c] = table[c]
        BY <3>3, <4>1
      <4>2. CASE c = i /\ args[q].op # "delete" /\ Entered(q) /\ table'[c] = Stored(q)
        <5>1. CASE args[q].op = "create"
          <6>1. Stored(q).project = j /\ ScopeExists(q) /\ ~ScopeHeld(q)
            BY <3>3, <4>2, <5>1 DEF ScopesAreHeld
          <6>2. j \in Present
            BY <2>1, <6>1, IdsAssumption DEF ScopeExists, RowsOf, Ids
          <6>3. ScopeHeld(q)
            BY <2>2, <2>5, <6>1, <6>2 DEF ScopeHeld
          <6>. QED BY <6>1, <6>3
        <5>2. CASE args[q].op = "update"
          BY <3>3, <4>2, <5>2, CommitRows, StoredRow
        <5>. QED BY <4>2, <5>1, <5>2, CommitRows DEF InHand, Operations
      <4>. QED BY <4>1, <4>2, CommitRows
    <3>4. Children(j) = {c \in Present : table[c].project = j}
      BY DEF Children
    <3>5. Children(j)' = {c \in Present' : table'[c].project = j}
      BY <1>1 DEF Children
    <3>. QED BY <3>1, <3>2, <3>3, <3>4, <3>5
  <2>6. Held(r)' = Held(r)
    BY <1>1, <1>2, <1>4, <2>3, <2>4, <2>5 DEF Held
  <2>7. Entered(r) => Stored(r)' = Stored(r)
    <3>1. Entered(r) => j \in Present
      BY <1>4, <2>1 DEF Entered, UpdatesHoldTheirRow, InHand, Operations
    <3>. QED BY <1>1, <2>3, <3>1 DEF Stored, Entered
  <2>. QED BY <1>2, <2>6, <2>7
<1>5. CASE args[r].op = "create"
  BY <1>1, <1>2, <1>5 DEF Held, Stored
<1>6. CASE ~Writing(r)
  BY <1>1, <1>2, <1>6 DEF Held, Entered, Writing
<1>. QED
  BY <1>4, <1>5, <1>6

-------------------------------------------------------------------------------
(* The parts of the invariant, one by one.                                 *)

LEMMA SettledStep ==
  ASSUME TypeOK, ArgsOK, RowsAreSettled, [Next]_vars
  PROVE  RowsAreSettled'
<1>1. CASE UNCHANGED vars
  BY <1>1 DEF vars, RowsAreSettled
<1>2. ASSUME NEW q \in Requests, RequestKind(q), NEW r \in Requests, table'[r] # None
      PROVE  pc'[r] = "done"
  <2>1. Others(q)
    BY <1>2 DEF RequestKind
  <2>2. CASE UNCHANGED table
    BY <1>2, <2>1, <2>2 DEF RowsAreSettled, Others
  <2>3. CASE Commits(q)
    <3>1. r \in Present'
      BY <1>2 DEF Present, Ids
    <3>2. r \in Present \/ (r = args[q].id /\ args[q].op # "delete")
      BY <2>3, <3>1, CommitRows
    <3>3. pc[r] = "done" \/ r = q
      BY <2>3, <3>2, CommitRows DEF RowsAreSettled, Present, InHand
    <3>. QED BY <2>1, <2>3, <3>3 DEF Others, Commits
  <2>. QED
    BY <1>2, <2>2, <2>3 DEF RequestKind, Prepares, Takes, Cascades, Enters, Answers, Keeps
<1>. QED
  BY <1>1, <1>2, NextKinds DEF RowsAreSettled

LEMMA HoldStep ==
  ASSUME TypeOK, ArgsOK, RowsAreSettled, UpdatesHoldTheirRow, LocksAreExclusive,
         ScopesAreHeld, [Next]_vars
  PROVE  UpdatesHoldTheirRow'
<1>1. CASE UNCHANGED vars
  BY <1>1 DEF vars, UpdatesHoldTheirRow, Writing, Present
<1>2. ASSUME NEW q \in Requests, RequestKind(q), NEW r \in Requests,
             Writing(r)', args'[r].op = "update"
      PROVE  args'[r].id \in Present'
  <2>1. Others(q)
    BY <1>2 DEF RequestKind
  <2>2. CASE r = q
    <3>1. CASE Prepares(q)
      BY <1>2, <2>2, <3>1 DEF Prepares, Writing
    <3>2. CASE Takes(q)
      BY <1>2, <2>2, <3>2 DEF Takes, Keeps, Present
    <3>3. CASE Cascades(q)
      BY <1>2, <2>2, <3>3 DEF Cascades, Keeps
    <3>4. CASE Enters(q) \/ Answers(q)
      BY <1>2, <2>2, <3>4 DEF Enters, Answers, Keeps, UpdatesHoldTheirRow, Writing, Present
    <3>5. CASE Commits(q)
      BY <1>2, <2>2, <3>5 DEF Commits, Writing
    <3>. QED BY <1>2, <3>1, <3>2, <3>3, <3>4, <3>5 DEF RequestKind
  <2>3. CASE r # q
    <3>1. Writing(r) /\ args'[r] = args[r] /\ args[r].op = "update"
      BY <1>2, <2>1, <2>3 DEF Others, Writing
    <3>2. args[r].id \in Present /\ args[r].id \in Held(r)
      BY <3>1 DEF UpdatesHoldTheirRow, Held
    <3>3. CASE UNCHANGED table
      BY <3>1, <3>2, <3>3 DEF Present
    <3>4. CASE Commits(q)
      <4>1. args[r].id \in Held(r)'
        BY <2>1, <2>3, <3>2, <3>4, CommitOthers
      <4>2. Held(r)' \subseteq Present'
        BY DEF Held, Present, Children
      <4>. QED BY <3>1, <4>1, <4>2
    <3>. QED
      BY <1>2, <3>3, <3>4 DEF RequestKind, Prepares, Takes, Cascades, Enters, Answers, Keeps
  <2>. QED BY <2>2, <2>3
<1>. QED
  BY <1>1, <1>2, NextKinds DEF UpdatesHoldTheirRow

\* What a row's children are: rows of a project, which is there.
LEMMA ChildrenOfProjects ==
  ASSUME NoOrphans, NEW id \in Ids, NEW c \in Children(id)
  PROVE  id \in Present /\ table[id].table = "projects"
  BY IdsAssumption DEF NoOrphans, Children, RowsOf, Ids

\* What q holds after a step of each kind.
LEMMA HeldNext ==
  ASSUME TypeOK, ArgsOK, NoOrphans, NEW q \in Requests, RequestKind(q)
  PROVE  \/ Held(q)' = {}
         \/ Held(q)' = Held(q)
         \/ Takes(q) /\ Held(q)' \subseteq {args[q].id} /\ args'[q] = args[q]
         \/ Cascades(q) /\ args'[q] = args[q] /\ UNCHANGED table
            /\ Held(q)' \subseteq Held(q) \cup Children(args[q].id)
            /\ \A c \in Children(args[q].id) : Free(q, c)
<1>1. CASE Prepares(q)
  BY <1>1 DEF Prepares, Held, Writing
<1>2. CASE Takes(q)
  <2>1. args'[q] = args[q] /\ args[q].op # "create"
        /\ (args[q].op = "update" \/ pc'[q] = "written")
    BY <1>2 DEF Takes, Keeps
  <2>2. Held(q)' \subseteq {args[q].id}
    BY <2>1 DEF Held
  <2>. QED BY <1>2, <2>1, <2>2
<1>3. CASE Cascades(q)
  <2>1. /\ args'[q] = args[q] /\ UNCHANGED table /\ args[q].op = "delete"
        /\ pc[q] = "written" /\ pc'[q] = "flushed"
    BY <1>3 DEF Cascades, Keeps
  <2>2. Held(q)' \subseteq Held(q) \cup Children(args[q].id)
    BY <2>1 DEF Held, Writing, Present, Children
  <2>3. InHand(q)
    BY <2>1 DEF ArgsOK, Busy, Writing
  <2>4. ASSUME NEW c \in Children(args[q].id)
        PROVE  Free(q, c)
    <3>1. args[q].on = "projects"
      BY <2>1, <2>3, ChildrenOfProjects DEF InHand
    <3>. QED BY <1>3, <3>1 DEF Cascades
  <2>. QED BY <1>3, <2>1, <2>2, <2>4
<1>4. CASE Enters(q)
  <2>1. /\ args'[q] = args[q] /\ UNCHANGED table /\ args[q].op # "delete"
        /\ pc[q] = "written" /\ pc'[q] = "flushed"
    BY <1>4 DEF Enters, Keeps
  <2>. QED BY <2>1 DEF Held, Writing, Present
<1>5. CASE Answers(q)
  <2>1. /\ args'[q] = args[q] /\ UNCHANGED table
        /\ pc[q] = "flushed" /\ pc'[q] = "answered"
    BY <1>5 DEF Answers, Keeps
  <2>. QED BY <2>1 DEF Held, Writing, Present, Children
<1>6. CASE Commits(q)
  BY <1>6 DEF Commits, Held, Writing
<1>. QED
  BY <1>1, <1>2, <1>3, <1>4, <1>5, <1>6 DEF RequestKind

LEMMA LocksStep ==
  ASSUME TypeOK, ArgsOK, RowsAreSettled, UpdatesHoldTheirRow, LocksAreExclusive,
         ScopesAreHeld, NoOrphans, [Next]_vars
  PROVE  LocksAreExclusive'
<1>1. CASE UNCHANGED vars
  BY <1>1 DEF vars, LocksAreExclusive, Held, Writing, Present, Children
<1>2. ASSUME NEW q \in Requests, RequestKind(q)
      PROVE  LocksAreExclusive'
  <2>1. Others(q)
    BY <1>2 DEF RequestKind
  <2>2. ASSUME NEW r \in Requests \ {q}
        PROVE  Held(r)' = Held(r)
    <3>1. CASE UNCHANGED table
      BY <2>1, <3>1, OthersSame
    <3>2. CASE Commits(q)
      BY <2>1, <3>2, CommitOthers
    <3>. QED
      BY <1>2, <3>1, <3>2 DEF RequestKind, Prepares, Takes, Cascades, Enters, Answers, Keeps
  <2>3. ASSUME NEW r \in Requests \ {q}
        PROVE  Held(q)' \cap Held(r) = {}
    <3>1. Held(q) \cap Held(r) = {}
      BY DEF LocksAreExclusive
    <3>2. CASE Takes(q) /\ Held(q)' \subseteq {args[q].id}
      BY <3>2 DEF Takes, Free
    <3>3. CASE /\ Held(q)' \subseteq Held(q) \cup Children(args[q].id)
               /\ \A c \in Children(args[q].id) : Free(q, c)
      BY <3>1, <3>3 DEF Free
    <3>. QED BY <1>2, <3>1, <3>2, <3>3, HeldNext
  <2>4. \A r, s \in Requests \ {q} : r # s => Held(r) \cap Held(s) = {}
    BY DEF LocksAreExclusive
  <2>5. ASSUME NEW r \in Requests, NEW s \in Requests, r # s
        PROVE  Held(r)' \cap Held(s)' = {}
    BY <2>2, <2>3, <2>4, <2>5
  <2>. QED BY <2>5 DEF LocksAreExclusive
<1>. QED
  BY <1>1, <1>2, NextKinds

LEMMA ScopesStep ==
  ASSUME TypeOK, ArgsOK, RowsAreSettled, UpdatesHoldTheirRow, LocksAreExclusive,
         ScopesAreHeld, NoOrphans, [Next]_vars
  PROVE  ScopesAreHeld'
<1>1. CASE UNCHANGED vars
  BY <1>1 DEF vars, ScopesAreHeld, Entered, ScopeExists, ScopeHeld, Stored, RowsOf,
     Held, Writing, Present, Children
<1>2. ASSUME NEW q \in Requests, RequestKind(q), NEW r \in Requests,
             Entered(r)', args'[r].op = "create"
      PROVE  ScopeExists(r)' /\ ~ScopeHeld(r)'
  <2>1. Others(q)
    BY <1>2 DEF RequestKind
  <2>. DEFINE p == Stored(r).project
  <2>2. /\ args[r].op = "create" /\ Stored(r)' = Stored(r)
        /\ ScopeExists(r) /\ ~ScopeHeld(r)
    <3>1. CASE r = q
      <4>1. (Enters(q) \/ Answers(q)) /\ args'[q] = args[q]
        BY <1>2, <3>1 DEF RequestKind, Prepares, Takes, Cascades, Commits, Enters, Answers,
           Keeps, Entered, Writing
      <4>2. ScopeExists(r) /\ ~ScopeHeld(r)
        BY <1>2, <3>1, <4>1 DEF Enters, Answers, ScopesAreHeld, Entered
      <4>. QED BY <1>2, <3>1, <4>1, <4>2 DEF Stored
    <3>2. CASE r # q
      <4>1. args'[r] = args[r] /\ pc'[r] = pc[r]
        BY <2>1, <3>2 DEF Others
      <4>2. Entered(r) /\ args[r].op = "create"
        BY <1>2, <4>1 DEF Entered
      <4>. QED BY <1>2, <4>1, <4>2 DEF Stored, ScopesAreHeld
    <3>. QED BY <3>1, <3>2
  <2>3. p = None \/ (p \in Present /\ table[p].table = "projects")
    BY <2>2 DEF ScopeExists, RowsOf
  <2>4. p \in Present =>
          \A s \in Requests \ {r} : args[s].op = "delete" => p \notin Held(s)
    BY <2>2 DEF ScopeHeld
  <2>5. ASSUME p \in Present
        PROVE  p \in Present' /\ table'[p].table = "projects"
    <3>1. CASE UNCHANGED table
      BY <2>3, <2>5, <3>1, IdsAssumption DEF Present, Ids
    <3>2. CASE Commits(q)
      <4>1. r # q
        BY <1>2, <3>2 DEF Commits, Entered
      <4>2. table[p].table = "projects"
        BY <2>3, <2>5, IdsAssumption DEF Present, Ids
      <4>3. CASE p \notin Held(q)
        BY <2>5, <3>2, <4>2, <4>3, CommitRows DEF Present
      <4>4. CASE p \in Held(q)
        <5>1. args[q].op = "update" /\ p = args[q].id /\ Writing(q)
          BY <2>4, <2>5, <3>2, <4>1, <4>4, CommitRows DEF Held, InHand, Operations
        <5>2. Stored(q) \in Rows /\ Stored(q).table = "projects"
          BY <4>2, <5>1, StoredRow, CommitRows, <3>2 DEF InHand
        <5>3. table'[p] = Stored(q)
          BY <5>1, <3>2, <2>5 DEF Commits, Present
        <5>. QED BY <2>5, <5>2, <5>3, NoneAssumption DEF Present
      <4>. QED BY <4>3, <4>4
    <3>. QED
      BY <1>2, <3>1, <3>2 DEF RequestKind, Prepares, Takes, Cascades, Enters, Answers, Keeps
  <2>6. ScopeExists(r)'
    BY <2>2, <2>3, <2>5 DEF ScopeExists, RowsOf
  <2>7. ASSUME NEW s \in Requests \ {r}, args'[s].op = "delete", p \in Held(s)'
        PROVE  FALSE
    <3>1. p \in Present
      <4>1. p \in Ids
        BY <2>7 DEF Held, Present, Children
      <4>. QED BY <2>3, <4>1, IdsAssumption DEF Ids
    <3>2. table[p].table = "projects" /\ table[p].project = None
      BY <2>3, <3>1, PresentRow, RowKinds, IdsAssumption DEF Ids
    <3>3. CASE s # q
      <4>1. args[s] = args'[s]
        BY <2>1, <3>3 DEF Others
      <4>2. CASE UNCHANGED table
        BY <2>1, <2>4, <2>7, <3>1, <3>3, <4>1, <4>2, OthersSame
      <4>3. CASE Commits(q)
        BY <2>1, <2>4, <2>7, <3>1, <3>3, <4>1, <4>3, CommitOthers
      <4>. QED
        BY <1>2, <4>2, <4>3 DEF RequestKind, Prepares, Takes, Cascades, Enters, Answers, Keeps
    <3>4. CASE s = q /\ Held(q)' = Held(q) /\ args[q].op = "delete"
      BY <2>4, <2>7, <3>1, <3>4
    <3>5. CASE s = q /\ Takes(q) /\ Held(q)' \subseteq {args[q].id} /\ args'[q] = args[q]
      <4>1. p = args[q].id /\ args[q].op = "delete"
        BY <2>7, <3>5
      <4>2. InHand(q)
        BY <3>5 DEF Takes, ArgsOK, Busy
      <4>3. args[q].on = "projects"
        BY <3>1, <3>2, <4>1, <4>2 DEF InHand
      <4>4. Entered(r)
        BY <1>2, <2>1, <3>5 DEF Others, Entered
      <4>5. ChildPending(args[q].id)
        BY <2>2, <4>1, <4>4 DEF ChildPending
      <4>. QED BY <3>5, <4>1, <4>3, <4>5 DEF Takes
    <3>6. CASE s = q /\ Cascades(q) /\ args'[q] = args[q]
               /\ Held(q)' \subseteq Held(q) \cup Children(args[q].id)
      <4>1. InHand(q)
        BY <3>6 DEF Cascades, ArgsOK, Busy, Writing
      <4>2. p \notin Children(args[q].id)
        BY <3>2, <4>1, IdsAssumption DEF Children, InHand, Ids
      <4>. QED BY <2>4, <2>7, <3>1, <3>6, <4>2
    <3>7. CASE s = q /\ Held(q)' = Held(q) /\ args[q].op # "delete"
      <4>1. ~Prepares(q) \/ Held(q)' = {}
        BY DEF Prepares, Held, Writing
      <4>2. CASE Commits(q)
        BY <2>7, <3>7, <4>2 DEF Commits, Held, Writing
      <4>. QED
        BY <1>2, <2>7, <3>7, <4>1, <4>2
        DEF RequestKind, Takes, Cascades, Enters, Answers, Keeps
    <3>. QED BY <1>2, <2>7, <3>3, <3>4, <3>5, <3>6, <3>7, HeldNext
  <2>8. ~ScopeHeld(r)'
    BY <2>2, <2>7 DEF ScopeHeld
  <2>. QED BY <2>6, <2>8
<1>. QED
  BY <1>1, <1>2, NextKinds DEF ScopesAreHeld

\* Reports have no key.
LEMMA ReportsHaveNoKey ==
  \A a, b : a.table = "reports" \/ b.table = "reports" => ~SameKey(a, b)
  BY DEF SameKey

\* The row a feedback leaves is a report.
LEMMA TakenReport ==
  ASSUME TypeOK, ArgsOK, NEW q \in Requests, Takes(q), Entered(q)'
  PROVE  Stored(q)'.table = "reports"
<1>1. /\ args[q].op = "update" /\ args[q].on = "reports" /\ args[q].id \in Present
      /\ args'[q] = args[q] /\ UNCHANGED table /\ InHand(q)
  BY DEF Takes, Keeps, Entered, ArgsOK, Busy
<1>2. /\ table[args[q].id] \in Rows /\ table[args[q].id].table = "reports"
      /\ args[q].entity \in Rows /\ args[q].entity.table = "reports"
      /\ args[q].entity.project = table[args[q].id].project
  BY <1>1, PresentRow DEF InHand
<1>3. Stored(q)' = Written(table[args[q].id], args[q].selected, args[q].entity)
  BY <1>1 DEF Stored
<1>. QED
  BY <1>2, <1>3, WrittenRow

LEMMA IndexStep ==
  ASSUME TypeOK, ArgsOK, RowsAreSettled, UpdatesHoldTheirRow, LocksAreExclusive,
         ScopesAreHeld, IndexOK, [Next]_vars
  PROVE  IndexOK'
<1>1. CASE UNCHANGED vars
  BY <1>1 DEF vars, IndexOK, Entered, Taken, Stored, Present
<1>2. ASSUME NEW q \in Requests, RequestKind(q)
      PROVE  IndexOK'
  <2>1. Others(q)
    BY <1>2 DEF RequestKind
  <2>2. ASSUME NEW r \in Requests \ {q}
        PROVE  /\ args'[r] = args[r] /\ Entered(r)' = Entered(r)
               /\ Entered(r) => Stored(r)' = Stored(r)
    <3>1. CASE UNCHANGED table
      BY <2>1, <3>1, OthersSame DEF Others
    <3>2. CASE Commits(q)
      BY <2>1, <3>2, CommitOthers DEF Others
    <3>. QED
      BY <1>2, <3>1, <3>2 DEF RequestKind, Prepares, Takes, Cascades, Enters, Answers, Keeps
  \* What q has entered, if anything, is nobody else's.
  <2>3. ASSUME Entered(q)'
        PROVE  /\ ~Taken(q)'
               /\ \A r \in Requests \ {q} : Entered(r) => ~SameKey(Stored(q)', Stored(r))
    <3>1. CASE Takes(q)
      <4>1. Stored(q)'.table = "reports"
        BY <2>3, <3>1, TakenReport
      <4>. QED BY <4>1, ReportsHaveNoKey DEF Taken
    <3>2. CASE Enters(q)
      <4>1. args'[q] = args[q] /\ UNCHANGED table /\ ~Taken(q)
        BY <3>2 DEF Enters, Keeps
      <4>2. Stored(q)' = Stored(q) /\ ~Taken(q)'
        BY <4>1 DEF Stored, Taken, Present
      <4>3. ASSUME NEW r \in Requests \ {q}, Entered(r)
            PROVE  ~SameKey(Stored(r), Stored(q))
        BY <3>2, <4>3 DEF Enters, WaitsFor, Indexing, HoldsKey
      <4>. QED BY <4>2, <4>3, SameKeySymmetric
    <3>3. CASE Answers(q)
      <4>1. args'[q] = args[q] /\ UNCHANGED table /\ pc[q] = "flushed"
        BY <3>3 DEF Answers, Keeps
      <4>2. Entered(q)
        BY <2>3, <4>1 DEF Entered
      <4>3. Stored(q)' = Stored(q) /\ Taken(q)' = Taken(q)
        BY <4>1 DEF Stored, Taken, Present
      <4>. QED BY <4>2, <4>3 DEF IndexOK
    <3>. QED
      BY <1>2, <2>3, <3>1, <3>2, <3>3
      DEF RequestKind, Prepares, Cascades, Commits, Entered, Writing, Keeps
  <2>4. ASSUME NEW r \in Requests \ {q}, Entered(r), NEW a \in Present' \ {args[r].id},
               SameKey(table'[a], Stored(r))
        PROVE  FALSE
    <3>1. \A b \in Present \ {args[r].id} : ~SameKey(table[b], Stored(r))
      BY <2>4 DEF IndexOK, Taken
    <3>2. CASE UNCHANGED table
      BY <2>4, <3>1, <3>2 DEF Present
    <3>3. CASE Commits(q)
      <4>1. CASE a \in Present /\ table'[a] = table[a]
        BY <2>4, <3>1, <4>1
      <4>2. CASE Entered(q) /\ table'[a] = Stored(q)
        BY <2>4, <4>2 DEF IndexOK
      <4>. QED BY <3>3, <4>1, <4>2, CommitRows
    <3>. QED
      BY <1>2, <3>2, <3>3 DEF RequestKind, Prepares, Takes, Cascades, Enters, Answers, Keeps
  <2>5. ASSUME NEW r \in Requests, Entered(r)'
        PROVE  ~Taken(r)'
    BY <2>2, <2>3, <2>4, <2>5 DEF Taken
  <2>6. ASSUME NEW r \in Requests, NEW s \in Requests \ {r}, Entered(r)', Entered(s)'
        PROVE  ~SameKey(Stored(r)', Stored(s)')
    <3>1. CASE r = q
      BY <2>2, <2>3, <2>6, <3>1
    <3>2. CASE s = q
      BY <2>2, <2>3, <2>6, <3>2, SameKeySymmetric
    <3>3. CASE r # q /\ s # q
      BY <2>2, <2>6, <3>3 DEF IndexOK
    <3>. QED BY <3>1, <3>2, <3>3
  <2>. QED BY <2>5, <2>6 DEF IndexOK, SameKey
<1>. QED
  BY <1>1, <1>2, NextKinds

LEMMA UniqueStep ==
  ASSUME TypeOK, ArgsOK, RowsAreSettled, IndexOK, KeysAreUnique, [Next]_vars
  PROVE  KeysAreUnique'
<1>1. CASE UNCHANGED table
  BY <1>1 DEF KeysAreUnique, Present, SameKey
<1>2. ASSUME NEW q \in Requests, RequestKind(q), Commits(q),
             NEW a \in Present', NEW b \in Present', a # b
      PROVE  ~SameKey(table'[a], table'[b])
  <2>1. ASSUME NEW c \in Present', NEW d \in Present', c # d, d = args[q].id,
               Entered(q), table'[d] = Stored(q)
        PROVE  ~SameKey(table'[c], table'[d])
    <3>1. c \in Present \ {args[q].id} /\ table'[c] = table[c]
      BY <1>2, <2>1, CommitRows
    <3>. QED BY <2>1, <3>1 DEF IndexOK, Taken
  <2>2. CASE b = args[q].id
    BY <1>2, <2>1, <2>2, CommitRows
  <2>3. CASE a = args[q].id
    BY <1>2, <2>1, <2>3, CommitRows, SameKeySymmetric
  <2>4. CASE a # args[q].id /\ b # args[q].id
    BY <1>2, <2>4, CommitRows DEF KeysAreUnique
  <2>. QED BY <2>2, <2>3, <2>4
<1>3. ASSUME NEW q \in Requests, RequestKind(q)
      PROVE  Commits(q) \/ UNCHANGED table
  BY <1>3 DEF RequestKind, Prepares, Takes, Cascades, Enters, Answers, Keeps
<1>. QED
  BY <1>1, <1>2, <1>3, NextKinds DEF KeysAreUnique, vars, SameKey

LEMMA OrphansStep ==
  ASSUME TypeOK, ArgsOK, RowsAreSettled, UpdatesHoldTheirRow, LocksAreExclusive,
         ScopesAreHeld, NoOrphans, [Next]_vars
  PROVE  NoOrphans'
<1>1. CASE UNCHANGED table
  BY <1>1 DEF NoOrphans, Present, RowsOf
<1>2. ASSUME NEW q \in Requests, RequestKind(q), Commits(q),
             NEW c \in Present', table'[c].project # None
      PROVE  table'[c].project \in RowsOf("projects")'
  <2>. DEFINE i == args[q].id
              p == table'[c].project
  <2>1. /\ p \in Present /\ table[p].table = "projects"
        /\ args[q].op = "delete" => i # p
    <3>1. CASE c \in Present /\ c \notin Held(q) /\ table'[c] = table[c]
      <4>1. p \in Present /\ table[p].table = "projects"
        BY <1>2, <3>1 DEF NoOrphans, RowsOf
      <4>2. ASSUME args[q].op = "delete", i = p
            PROVE  FALSE
        <5>1. c \in Children(i)
          BY <3>1, <4>2 DEF Children
        <5>. QED BY <1>2, <3>1, <4>2, <5>1 DEF Held, Commits, Writing
      <4>. QED BY <4>1, <4>2
    <3>2. CASE c = i /\ args[q].op # "delete" /\ Entered(q) /\ table'[c] = Stored(q)
      <4>1. CASE args[q].op = "create"
        BY <1>2, <3>2, <4>1 DEF ScopesAreHeld, ScopeExists, RowsOf
      <4>2. CASE args[q].op = "update"
        <5>1. i \in Present /\ p = table[i].project
          BY <1>2, <3>2, <4>2, CommitRows, StoredRow
        <5>. QED BY <1>2, <3>2, <5>1 DEF NoOrphans, RowsOf
      <4>. QED BY <1>2, <3>2, <4>1, <4>2, CommitRows DEF InHand, Operations
    <3>. QED BY <1>2, <3>1, <3>2, CommitRows
  <2>2. table[p].project = None
    BY <2>1, PresentRow, RowKinds
  <2>3. p \notin Children(i)
    BY <1>2, <2>2, CommitRows, IdsAssumption DEF Children, Ids
  <2>4. CASE p # i
    <3>1. p \notin Held(q)
      BY <2>3, <2>4 DEF Held
    <3>. QED BY <1>2, <2>1, <3>1, CommitRows DEF RowsOf, Present
  <2>5. CASE p = i
    <3>1. args[q].op = "update" /\ Writing(q) /\ InHand(q)
      BY <1>2, <2>1, <2>5, CommitRows DEF InHand, Operations
    <3>2. Stored(q) \in Rows /\ Stored(q).table = "projects"
      BY <2>1, <2>5, <3>1, StoredRow DEF InHand
    <3>3. table'[p] = Stored(q)
      BY <1>2, <2>1, <2>5 DEF Commits, Present
    <3>. QED BY <2>1, <3>2, <3>3, NoneAssumption DEF RowsOf, Present
  <2>. QED BY <2>4, <2>5
<1>3. ASSUME NEW q \in Requests, RequestKind(q)
      PROVE  Commits(q) \/ UNCHANGED table
  BY <1>3 DEF RequestKind, Prepares, Takes, Cascades, Enters, Answers, Keeps
<1>. QED
  BY <1>1, <1>2, <1>3, NextKinds DEF NoOrphans, vars

LEMMA ArgsStep ==
  ASSUME TypeOK, ArgsOK, RowsAreSettled, UpdatesHoldTheirRow, [Next]_vars
  PROVE  ArgsOK'
<1>1. CASE UNCHANGED vars
  BY <1>1 DEF vars, ArgsOK, Busy, Writing, InHand, Present
<1>2. ASSUME NEW q \in Requests, RequestKind(q), NEW r \in Requests, Busy(r)'
      PROVE  InHand(r)'
  <2>1. Others(q)
    BY <1>2 DEF RequestKind
  <2>. DEFINE j == args[r].id
  <2>2. CASE r = q /\ Prepares(q)
    BY <1>2, <2>2 DEF Prepares
  <2>3. CASE r = q /\ ~Prepares(q)
    <3>1. /\ Keeps(q) /\ pc[q] \in {"selected", "written", "flushed"}
          /\ pc'[q] \in {"written", "flushed", "answered"}
      BY <1>2, <2>3 DEF RequestKind, Takes, Cascades, Enters, Answers, Commits, Busy, Writing
    <3>2. InHand(q) /\ Writing(q)' /\ args'[q] = args[q] /\ UNCHANGED table
      BY <3>1 DEF ArgsOK, Busy, Writing, Keeps
    <3>3. j \in Requests /\ j # q => pc'[j] = pc[j]
      BY <2>1 DEF Others
    <3>4. pc[q] # "done"
      BY <2>1 DEF Others
    <3>. QED BY <2>3, <3>2, <3>3, <3>4 DEF InHand, Present
  <2>4. CASE r # q
    <3>1. args'[r] = args[r] /\ pc'[r] = pc[r]
      BY <2>1, <2>4 DEF Others
    <3>2. InHand(r) /\ Writing(r)' = Writing(r)
      BY <1>2, <3>1 DEF ArgsOK, Busy, Writing
    <3>3. args[r].op # "create" /\ j \in Requests => j # q /\ pc'[j] = "done"
      BY <2>1, <3>2 DEF InHand, Others
    <3>4. ASSUME j \in Present', args[r].op # "create"
          PROVE  /\ j \in Present /\ table'[j].table = table[j].table
                 /\ table'[j].project = table[j].project
      <4>1. CASE UNCHANGED table
        BY <3>4, <4>1 DEF Present
      <4>2. CASE Commits(q)
        <5>1. CASE j \in Present /\ table'[j] = table[j]
          BY <5>1
        <5>2. CASE j = args[q].id /\ args[q].op # "delete" /\ table'[j] = Stored(q)
          <6>1. args[q].op # "create"
            BY <3>3, <3>4, <4>2, <5>2, CommitRows
          <6>2. args[q].op = "update" /\ Writing(q) /\ InHand(q)
            BY <4>2, <5>2, <6>1, CommitRows DEF InHand, Operations
          <6>. QED BY <5>2, <6>2, StoredRow DEF InHand
        <5>. QED BY <3>4, <4>2, <5>1, <5>2, CommitRows
      <4>. QED
        BY <1>2, <4>1, <4>2 DEF RequestKind, Prepares, Takes, Cascades, Enters, Answers, Keeps
    <3>. QED BY <3>1, <3>2, <3>3, <3>4 DEF InHand
  <2>. QED BY <2>2, <2>3, <2>4
<1>. QED
  BY <1>1, <1>2, NextKinds DEF ArgsOK

-------------------------------------------------------------------------------
(* Type correctness.                                                       *)

ReqTypeOK ==
  /\ pc \in [Requests -> Places]
  /\ args \in [Requests -> Args]
  /\ outcome \in [Requests -> Outcomes \cup {None}]

LEMMA EndType ==
  ASSUME TypeOK, NEW q \in Requests, NEW o \in Outcomes, End(q, o)
  PROVE  ReqTypeOK'
<1>. DEFINE a == [NoArgs EXCEPT !.asked = args[q].asked]
<1>1. args[q].asked \in Feedback \cup {None}
  BY DEF TypeOK, Args
<1>2. a \in Args
  BY <1>1 DEF NoArgs, Args
<1>3. args' = [args EXCEPT ![q] = a]
  BY DEF End
<1>. QED
  BY <1>2, <1>3 DEF TypeOK, ReqTypeOK, End, Places

LEMMA GotoType ==
  ASSUME TypeOK, NEW q \in Requests, NEW from, NEW to \in Places, Goto(q, from, to),
         NEW a \in Args, args' = [args EXCEPT ![q] = a],
         NEW o \in Outcomes \cup {None}, outcome' = [outcome EXCEPT ![q] = o]
  PROVE  ReqTypeOK'
  BY DEF TypeOK, ReqTypeOK, Goto

LEMMA GotoKeepsType ==
  ASSUME TypeOK, NEW q \in Requests, NEW from, NEW to \in Places, Goto(q, from, to),
         UNCHANGED <<args, outcome>>
  PROVE  ReqTypeOK'
  BY DEF TypeOK, ReqTypeOK, Goto

LEMMA FindType ==
  ASSUME TypeOK, NEW q \in Requests, NEW op \in {"update", "delete"},
         NEW name \in {"projects", "entries", "reports"}, NEW id \in Ids, NEW entity,
         id \in RowsOf(name) => entity \in Rows \cup {None},
         NEW missing \in Outcomes, Find(q, op, name, id, entity, missing)
  PROVE  ReqTypeOK'
<1>1. CASE id \in RowsOf(name)
  <2>. DEFINE a == [NoArgs EXCEPT !.op = op, !.on = name, !.id = id, !.entity = entity]
  <2>1. a \in Args
    BY <1>1 DEF NoArgs, Args, Operations
  <2>2. args' = [args EXCEPT ![q] = a] /\ Goto(q, "new", "read") /\ UNCHANGED outcome
    BY <1>1 DEF Find
  <2>. HIDE DEF a
  <2>. QED BY <2>1, <2>2 DEF TypeOK, ReqTypeOK, Goto, Places
<1>2. CASE id \notin RowsOf(name)
  BY <1>2, EndType DEF Find
<1>. QED BY <1>1, <1>2

LEMMA InsertType ==
  ASSUME TypeOK, NEW q \in Requests, NEW row \in Rows, row.table # "reports", Insert(q, row)
  PROVE  ReqTypeOK'
<1>. DEFINE a == [NoArgs EXCEPT !.op = "create", !.on = row.table, !.id = q, !.entity = row]
<1>1. row.table \in {"projects", "entries"}
  BY RowKinds
<1>2. a \in Args
  BY <1>1 DEF NoArgs, Args, Operations, Ids
<1>3. args' = [args EXCEPT ![q] = a] /\ Goto(q, "new", "written") /\ UNCHANGED outcome
  BY DEF Insert
<1>. HIDE DEF a
<1>. QED BY <1>2, <1>3 DEF TypeOK, ReqTypeOK, Goto, Places

LEMMA StepTypes ==
  ASSUME TypeOK, NEW q \in Requests
  PROVE  /\ Select(q) => ReqTypeOK'
         /\ \A to \in {"written", "flushed"} : Update(q, to) => ReqTypeOK'
         /\ Delete(q) => ReqTypeOK'
         /\ Enter(q, "NameAlreadyExists") => ReqTypeOK'
<1>1. ASSUME Select(q) PROVE ReqTypeOK'
  <2>1. CASE args[q].id \in Present /\ Goto(q, "read", "selected") /\ UNCHANGED outcome
             /\ args' = [args EXCEPT ![q].selected = table[args[q].id]]
    <3>. DEFINE a == [args[q] EXCEPT !.selected = table[args[q].id]]
    <3>1. args[q] \in Args /\ table[args[q].id] \in Rows
      BY <2>1, PresentRow DEF TypeOK
    <3>2. a \in Args
      BY <3>1 DEF Args
    <3>3. args' = [args EXCEPT ![q] = a]
      BY <2>1
    <3>. HIDE DEF a
    <3>. QED BY <2>1, <3>2, <3>3 DEF TypeOK, ReqTypeOK, Goto, Places
  <2>2. CASE End(q, "Failure")
    BY <2>2, EndType DEF Outcomes
  <2>. QED BY <1>1, <2>1, <2>2 DEF Select
<1>2. ASSUME NEW to \in {"written", "flushed"}, Update(q, to) PROVE ReqTypeOK'
  BY <1>2, EndType, GotoKeepsType DEF Update, Outcomes, Places
<1>3. ASSUME Delete(q) PROVE ReqTypeOK'
  BY <1>3, GotoKeepsType DEF Delete, Places
<1>4. ASSUME Enter(q, "NameAlreadyExists") PROVE ReqTypeOK'
  BY <1>4, EndType, GotoKeepsType DEF Enter, Outcomes, Places
<1>. QED BY <1>1, <1>2, <1>3, <1>4

LEMMA ProjectTypes ==
  ASSUME TypeOK, NEW q \in Requests, ProjectStep(q)
  PROVE  ReqTypeOK'
<1>1. ASSUME NEW name \in Names, NEW text \in Texts, Insert(q, NewProject(name, text))
      PROVE  ReqTypeOK'
  <2>1. NewProject(name, text) \in Rows /\ NewProject(name, text).table # "reports"
    BY DEF NewProject, Rows, ProjectRow
  <2>. QED BY <1>1, <2>1, InsertType
<1>2. ASSUME NEW id \in Ids, NEW change \in Change,
             Find(q, "update", "projects", id, Assigned(table[id], change, None),
                  "ProjectNotFound")
      PROVE  ReqTypeOK'
  <2>. DEFINE e == Assigned(table[id], change, None)
  <2>1. id \in RowsOf("projects") => e \in Rows \cup {None}
    BY PresentRow, RowKinds, AssignedProject DEF RowsOf, Rows
  <2>. HIDE DEF e
  <2>2. Find(q, "update", "projects", id, e, "ProjectNotFound")
    BY <1>2 DEF e
  <2>. QED BY <2>1, <2>2, FindType DEF Outcomes
<1>3. ASSUME NEW id \in Ids, Find(q, "delete", "projects", id, None, "ProjectNotFound")
      PROVE  ReqTypeOK'
  BY <1>3, FindType DEF Outcomes
<1>4. CASE ProjectCascade(q)
  BY <1>4, GotoKeepsType DEF ProjectCascade, Places
<1>. QED
  BY <1>1, <1>2, <1>3, <1>4, StepTypes
  DEF ProjectStep, ProjectCreate, ProjectFindToUpdate, ProjectFindToDelete,
      ProjectSelect, ProjectUpdate, ProjectEnter, ProjectDelete

LEMMA EntryTypes ==
  ASSUME TypeOK, NEW q \in Requests, EntryStep(q)
  PROVE  ReqTypeOK'
<1>1. ASSUME NEW p \in Ids \cup {None}, NEW kind \in Kinds, NEW name \in Names,
             NEW text \in Texts, Insert(q, NewEntry(p, kind, name, text))
      PROVE  ReqTypeOK'
  <2>1. NewEntry(p, kind, name, text) \in Rows
        /\ NewEntry(p, kind, name, text).table # "reports"
    BY DEF NewEntry, Rows, EntryRow
  <2>. QED BY <1>1, <2>1, InsertType
<1>2. ASSUME NEW id \in Ids, NEW change \in EntryChange,
             Find(q, "update", "entries", id, Assigned(table[id], change, None),
                  "EntryNotFound")
      PROVE  ReqTypeOK'
  <2>. DEFINE e == Assigned(table[id], change, None)
  <2>1. id \in RowsOf("entries") => e \in Rows \cup {None}
    BY PresentRow, RowKinds, AssignedEntry DEF RowsOf, Rows
  <2>. HIDE DEF e
  <2>2. Find(q, "update", "entries", id, e, "EntryNotFound")
    BY <1>2 DEF e
  <2>. QED BY <2>1, <2>2, FindType DEF Outcomes
<1>3. ASSUME NEW id \in Ids, Find(q, "delete", "entries", id, None, "EntryNotFound")
      PROVE  ReqTypeOK'
  BY <1>3, FindType DEF Outcomes
<1>4. CASE EntryDeleted(q)
  BY <1>4, GotoKeepsType DEF EntryDeleted, Places
<1>5. CASE EntryEnter(q)
  <2>1. Enter(q, "NameAlreadyExists") \/ End(q, "NameAlreadyExists")
    BY <1>5 DEF EntryEnter
  <2>. QED BY <2>1, StepTypes, EndType DEF Outcomes
<1>. QED
  BY <1>1, <1>2, <1>3, <1>4, <1>5, StepTypes
  DEF EntryStep, GlobalEntryCreate, ProjectEntryCreate, EntryFindToUpdate, EntryFindToDelete,
      EntrySelect, EntryUpdate, EntryDelete

LEMMA FeedbackTypes ==
  ASSUME TypeOK, NEW q \in Requests, FeedbackStep(q)
  PROVE  ReqTypeOK'
<1>1. CASE FeedbackFind(q)
  <2>1. PICK f \in Feedback :
          \/ /\ f.id \in RowsOf("reports")
             /\ Goto(q, "new", "read")
             /\ args' = [args EXCEPT ![q] = [NoArgs EXCEPT
                           !.op = "update", !.on = "reports", !.id = f.id, !.asked = f,
                           !.entity = Decided(table[f.id], f)]]
             /\ UNCHANGED outcome
          \/ /\ pc' = [pc EXCEPT ![q] = "done"]
             /\ outcome' = [outcome EXCEPT ![q] = "InvalidApprovalTransition"]
             /\ args' = [args EXCEPT ![q].asked = f]
          \/ End(q, "ReportNotFound")
    BY <1>1 DEF FeedbackFind
  <2>2. CASE /\ f.id \in RowsOf("reports")
             /\ Goto(q, "new", "read")
             /\ args' = [args EXCEPT ![q] = [NoArgs EXCEPT
                           !.op = "update", !.on = "reports", !.id = f.id, !.asked = f,
                           !.entity = Decided(table[f.id], f)]]
             /\ UNCHANGED outcome
    <3>. DEFINE a == [NoArgs EXCEPT !.op = "update", !.on = "reports", !.id = f.id,
                                    !.asked = f, !.entity = Decided(table[f.id], f)]
    <3>1. Decided(table[f.id], f) \in Rows
      BY <2>2, PresentRow, RowKinds, DecidedRow DEF RowsOf, Rows
    <3>2. f.id \in Ids
      BY DEF Feedback
    <3>3. a \in Args
      BY <3>1, <3>2 DEF NoArgs, Args, Operations
    <3>4. args' = [args EXCEPT ![q] = a]
      BY <2>2
    <3>. HIDE DEF a
    <3>. QED BY <2>2, <3>3, <3>4 DEF TypeOK, ReqTypeOK, Goto, Places
  <2>3. CASE /\ pc' = [pc EXCEPT ![q] = "done"]
             /\ outcome' = [outcome EXCEPT ![q] = "InvalidApprovalTransition"]
             /\ args' = [args EXCEPT ![q].asked = f]
    <3>. DEFINE a == [args[q] EXCEPT !.asked = f]
    <3>1. args[q] \in Args
      BY DEF TypeOK
    <3>2. a \in Args
      BY <3>1 DEF Args
    <3>3. args' = [args EXCEPT ![q] = a]
      BY <2>3
    <3>. HIDE DEF a
    <3>. QED BY <2>3, <3>2, <3>3 DEF TypeOK, ReqTypeOK, Places, Outcomes
  <2>4. CASE End(q, "ReportNotFound")
    BY <2>4, EndType DEF Outcomes
  <2>. QED BY <2>1, <2>2, <2>3, <2>4
<1>2. CASE FeedbackSelect(q) \/ FeedbackUpdate(q)
  BY <1>2, StepTypes DEF FeedbackSelect, FeedbackUpdate
<1>. QED BY <1>1, <1>2 DEF FeedbackStep

LEMMA TypeStep ==
  ASSUME TypeOK, ArgsOK, RowsAreSettled, UpdatesHoldTheirRow, [Next]_vars
  PROVE  TypeOK'
<1>1. CASE UNCHANGED vars
  BY <1>1 DEF vars, TypeOK
<1>2. ASSUME NEW q \in Requests, Advance(q) \/ RequestFails(q) \/ CommitFails(q)
      PROVE  ReqTypeOK'
  <2>1. CASE Answer(q)
    BY <2>1 DEF Answer, Goto, TypeOK, ReqTypeOK, Places, Outcomes
  <2>2. CASE Commit(q) \/ Deadlocks(q) \/ RequestFails(q) \/ CommitFails(q)
    <3>1. End(q, "ok") \/ End(q, "Failure")
      BY <2>2 DEF Commit, Deadlocks, RequestFails, CommitFails
    <3>. QED BY <3>1, EndType DEF Outcomes
  <2>. QED
    BY <1>2, <2>1, <2>2, ProjectTypes, EntryTypes, FeedbackTypes DEF Advance
<1>3. ASSUME NEW q \in Requests, RequestKind(q)
      PROVE  table' \in [Ids -> Rows \cup {None}]
  <2>1. CASE UNCHANGED table
    BY <2>1 DEF TypeOK
  <2>2. CASE Commits(q)
    <3>1. Stored(q) \in Rows \cup {None}
      BY <2>2, CommitRows, StoredRow DEF Stored, InHand, Operations
    <3>. QED BY <2>2, <3>1 DEF Commits, TypeOK
  <2>. QED
    BY <1>3, <2>1, <2>2 DEF RequestKind, Prepares, Takes, Cascades, Enters, Answers, Keeps
<1>4. CASE \E q \in Requests : Advance(q) \/ RequestFails(q) \/ CommitFails(q)
  <2>1. PICK q \in Requests : Advance(q) \/ RequestFails(q) \/ CommitFails(q)
    BY <1>4
  <2>2. RequestKind(q)
    BY <2>1, KindStep
  <2>. QED BY <1>2, <1>3, <2>1, <2>2 DEF TypeOK, ReqTypeOK
<1>. QED
  BY <1>1, <1>4 DEF Next

-------------------------------------------------------------------------------
(* The theorems.                                                           *)

LEMMA InitRowsInv ==
  ASSUME Init
  PROVE  RowsInv
<1>1. PICK t \in Tables : table = [id \in Ids |-> IF id \in Old THEN t[id] ELSE None]
  BY DEF Init
<1>2. /\ t \in [Old -> Rows]
      /\ \A a, b \in Old : a # b => ~SameKey(t[a], t[b])
      /\ \A id \in Old :
           \/ t[id].project = None
           \/ t[id].project \in Old /\ t[t[id].project].table = "projects"
  BY TablesAssumption
<1>3. /\ pc = [q \in Requests |-> "new"] /\ args = [q \in Requests |-> NoArgs]
      /\ outcome = [q \in Requests |-> None]
  BY DEF Init, RowsInit
<1>4. Present = Old /\ \A id \in Old : table[id] = t[id]
  <2>1. \A id \in Old : table[id] = t[id] /\ t[id] # None
    BY <1>1, <1>2, NoneAssumption DEF Ids
  <2>2. \A id \in Ids \ Old : table[id] = None
    BY <1>1
  <2>. QED BY <2>1, <2>2 DEF Present, Ids
<1>5. TypeOK
  <2>1. table \in [Ids -> Rows \cup {None}]
    BY <1>1, <1>2
  <2>2. NoArgs \in Args
    BY DEF NoArgs, Args
  <2>. QED BY <1>3, <2>1, <2>2 DEF TypeOK, Places
<1>6. \A q \in Requests : ~Busy(q) /\ ~Writing(q) /\ ~Entered(q) /\ Held(q) = {}
  BY <1>3 DEF Busy, Writing, Entered, Held
<1>7. ArgsOK /\ UpdatesHoldTheirRow /\ LocksAreExclusive /\ ScopesAreHeld /\ IndexOK
  BY <1>6 DEF ArgsOK, UpdatesHoldTheirRow, LocksAreExclusive, ScopesAreHeld, IndexOK
<1>8. RowsAreSettled
  BY <1>1, IdsAssumption DEF RowsAreSettled, Ids
<1>9. KeysAreUnique
  BY <1>2, <1>4 DEF KeysAreUnique
<1>10. NoOrphans
  BY <1>2, <1>4 DEF NoOrphans, RowsOf
<1>. QED
  BY <1>5, <1>7, <1>8, <1>9, <1>10 DEF RowsInv

LEMMA NextRowsInv ==
  RowsInv /\ [Next]_vars => RowsInv'
<1>. SUFFICES ASSUME RowsInv, [Next]_vars PROVE RowsInv'
  OBVIOUS
<1>. USE DEF RowsInv
<1>1. TypeOK' /\ ArgsOK' /\ RowsAreSettled' /\ UpdatesHoldTheirRow'
  BY TypeStep, ArgsStep, SettledStep, HoldStep
<1>2. LocksAreExclusive' /\ ScopesAreHeld' /\ IndexOK' /\ KeysAreUnique' /\ NoOrphans'
  BY LocksStep, ScopesStep, IndexStep, UniqueStep, OrphansStep
<1>. QED
  BY <1>1, <1>2

\* The rows, keys and locks fit together: in particular row locks exclude each other
\* and no project with a row on its way in is being deleted.
THEOREM SpecRowsInv == Spec => []RowsInv
  BY InitRowsInv, NextRowsInv, PTL DEF Spec

\* No two projects have one name, no two terms of a scope are the same, however
\* many creates and renames run at once.
THEOREM SpecKeysAreUnique == Spec => []KeysAreUnique
<1>1. RowsInv => KeysAreUnique
  BY DEF RowsInv
<1>. QED
  BY <1>1, SpecRowsInv, PTL

\* The cascade of a project's delete misses no row that is created or changed
\* meanwhile.
THEOREM SpecNoOrphans == Spec => []NoOrphans
<1>1. RowsInv => NoOrphans
  BY DEF RowsInv
<1>. QED
  BY <1>1, SpecRowsInv, PTL

\* What was deleted stays so: only the commit of a create adds a row.
THEOREM SpecGoneForGood == Spec => GoneForGood
<1>1. ASSUME RowsInv, [Next]_vars, NEW id \in Ids, table[id] = None, table'[id] # None
      PROVE  id \in Requests /\ pc[id] = "answered"
  <2>. USE DEF RowsInv
  <2>1. PICK q \in Requests : RequestKind(q)
    BY <1>1, NextKinds DEF vars
  <2>2. Commits(q)
    BY <1>1, <2>1 DEF RequestKind, Prepares, Takes, Cascades, Enters, Answers, Keeps
  <2>3. id = args[q].id /\ args[q].op # "delete" /\ id \notin Present
    BY <1>1, <2>2, CommitRows DEF Present
  <2>4. args[q].op = "create"
    BY <1>1, <2>2, <2>3, CommitRows DEF UpdatesHoldTheirRow, InHand, Operations
  <2>. QED
    BY <1>1, <2>2, <2>3, <2>4, CommitRows DEF Commits
<1>2. RowsInv /\ [Next]_vars =>
        [\A id \in Ids :
           table[id] = None /\ table'[id] # None =>
             id \in Requests /\ pc[id] = "answered"]_vars
  BY <1>1
<1>. QED
  BY <1>2, SpecRowsInv, PTL DEF Spec, GoneForGood

\* Two terms of one scope that name the same are one.
LEMMA TermsOfScope ==
  ASSUME TypeOK, KeysAreUnique, NEW s, NEW a \in Scope(s), NEW b \in Scope(s),
         Term(a) = Term(b)
  PROVE  a = b
<1>1. /\ a \in Present /\ table[a].table = "entries" /\ table[a].project = s
      /\ b \in Present /\ table[b].table = "entries" /\ table[b].project = s
  BY DEF Scope, RowsOf
<1>2. table[a] \in EntryRow /\ table[b] \in EntryRow
  BY <1>1, PresentRow, RowKinds
<1>3. table[a].kind = table[b].kind /\ table[a].name = table[b].name
  BY DEF Term
<1>4. SameKey(table[a], table[b])
  BY <1>1, <1>2, <1>3 DEF SameKey, EntryRow
<1>. QED
  BY <1>1, <1>4 DEF KeysAreUnique

\* What a project sees has each term once, and the project's own first.
LEMMA MergedFromKeys ==
  TypeOK /\ KeysAreUnique => MergedIsComplete
<1>. SUFFICES ASSUME TypeOK, KeysAreUnique, NEW p \in RowsOf("projects"),
                     NEW id \in Scope(p) \cup Scope(None)
              PROVE  \E e \in Merged(p) :
                       /\ \A f \in Merged(p) : Term(f) = Term(id) <=> f = e
                       /\ e \in Scope(p) \/ \A f \in Scope(p) : Term(f) # Term(id)
  BY DEF MergedIsComplete
<1>1. \A f \in Merged(p) :
        f \in Scope(p) \/ (f \in Scope(None) /\ \A e \in Scope(p) : Term(e) # Term(f))
  BY DEF Merged
<1>2. CASE \E e \in Scope(p) : Term(e) = Term(id)
  <2>1. PICK e \in Scope(p) : Term(e) = Term(id)
    BY <1>2
  <2>2. e \in Merged(p)
    BY DEF Merged
  <2>3. ASSUME NEW f \in Merged(p), Term(f) = Term(id)
        PROVE  f = e
    <3>1. f \in Scope(p)
      BY <1>1, <2>1, <2>3
    <3>. QED BY <2>1, <2>3, <3>1, TermsOfScope
  <2>. QED BY <2>1, <2>2, <2>3
<1>3. CASE \A e \in Scope(p) : Term(e) # Term(id)
  <2>1. id \in Scope(None) /\ id \in Merged(p)
    BY <1>3 DEF Merged
  <2>2. ASSUME NEW f \in Merged(p), Term(f) = Term(id)
        PROVE  f = id
    <3>1. f \in Scope(None)
      BY <1>1, <1>3, <2>2
    <3>. QED BY <2>1, <2>2, <3>1, TermsOfScope
  <2>. QED BY <1>3, <2>1, <2>2
<1>. QED
  BY <1>2, <1>3

\* The merged dictionary of a project is complete and has no term twice, for
\* every state the requests can bring about (list_merged).
THEOREM SpecMergedIsComplete == Spec => []MergedIsComplete
<1>1. RowsInv => MergedIsComplete
  BY MergedFromKeys DEF RowsInv
<1>. QED
  BY <1>1, SpecRowsInv, PTL

-------------------------------------------------------------------------------
(* The approval of reports: what a refusal rests on, and where a decision  *)
(* comes from.                                                             *)

(* What a step does to the request's answer, and to what it was asked.     *)

\* A request begins; only a feedback takes a report in hand.
Begins(q) ==
  /\ pc[q] = "new" /\ pc'[q] \in {"read", "written"} /\ outcome'[q] = outcome[q]
  /\ args'[q].on = "reports" =>
       /\ pc'[q] = "read" /\ args'[q].op = "update"
       /\ args'[q].asked \in Feedback /\ args'[q].asked.id = args'[q].id
       /\ args'[q].asked.status \in Decisions
       /\ args'[q].entity.status = args'[q].asked.status
       /\ args'[q].entity.reason = args'[q].asked.reason

Continues(q) ==
  /\ Busy(q) /\ pc[q] # "answered" /\ pc'[q] # "done"
  /\ \A f \in {"op", "on", "id", "asked", "entity"} : args'[q][f] = args[q][f]
  /\ \/ pc[q] # "read" /\ args'[q].selected = args[q].selected
     \/ UNCHANGED table /\ args'[q].selected = table[args[q].id]
  /\ IF pc'[q] = "answered" THEN outcome'[q] = "ok" ELSE outcome'[q] = outcome[q]

Ends(q) ==
  /\ pc'[q] = "done" /\ args'[q].asked = args[q].asked
  /\ outcome'[q] # "InvalidApprovalTransition"
  /\ pc[q] = "answered" => outcome'[q] = "ok"

Refuses(q) ==
  /\ pc[q] = "new" /\ pc'[q] = "done"
  /\ args'[q].asked \in Feedback
  /\ args'[q].asked.id \in RowsOf("reports")
  /\ ~Allowed(table[args'[q].asked.id].status, args'[q].asked.status)

AnswerKind(q) ==
  /\ \A r \in Requests \ {q} : outcome'[r] = outcome[r]
  /\ Begins(q) \/ Continues(q) \/ Ends(q) \/ Refuses(q)

LEMMA EndAnswer ==
  ASSUME TypeOK, NEW q \in Requests, NEW o, End(q, o), o # "InvalidApprovalTransition",
         pc[q] = "answered" => o = "ok"
  PROVE  AnswerKind(q)
<1>. DEFINE a == [NoArgs EXCEPT !.asked = args[q].asked]
<1>1. a.asked = args[q].asked
  BY DEF NoArgs
<1>2. args' = [args EXCEPT ![q] = a] /\ pc' = [pc EXCEPT ![q] = "done"]
      /\ outcome' = [outcome EXCEPT ![q] = o]
  BY DEF End
<1>. HIDE DEF a
<1>3. args'[q] = a /\ pc'[q] = "done" /\ outcome'[q] = o
      /\ \A r \in Requests \ {q} : outcome'[r] = outcome[r]
  BY <1>2 DEF TypeOK
<1>. QED
  BY <1>1, <1>3 DEF AnswerKind, Ends

\* A step that goes on with what the request has in hand.
LEMMA GotoAnswer ==
  ASSUME TypeOK, NEW q \in Requests, NEW from, NEW to, Goto(q, from, to),
         from \in {"read", "selected", "written"},
         to \in {"selected", "written", "flushed"},
         UNCHANGED outcome,
         \A f \in {"op", "on", "id", "asked", "entity"} : args'[q][f] = args[q][f],
         \/ from # "read" /\ args'[q].selected = args[q].selected
         \/ UNCHANGED table /\ args'[q].selected = table[args[q].id]
  PROVE  AnswerKind(q)
<1>1. pc[q] = from /\ pc'[q] = to
  BY GotoKind
<1>2. Busy(q) /\ pc[q] # "answered" /\ pc'[q] # "done" /\ pc'[q] # "answered"
  BY <1>1 DEF Busy, Writing
<1>3. \/ pc[q] # "read" /\ args'[q].selected = args[q].selected
      \/ UNCHANGED table /\ args'[q].selected = table[args[q].id]
  BY <1>1
<1>4. outcome' = outcome
  OBVIOUS
<1>5. Continues(q)
  BY <1>2, <1>3, <1>4 DEF Continues
<1>. QED
  BY <1>4, <1>5 DEF AnswerKind

LEMMA InsertAnswer ==
  ASSUME TypeOK, NEW q \in Requests, NEW row, Insert(q, row), row.table # "reports"
  PROVE  AnswerKind(q)
<1>. DEFINE a == [NoArgs EXCEPT !.op = "create", !.on = row.table, !.id = q, !.entity = row]
<1>1. a.on = row.table
  BY DEF NoArgs
<1>2. args' = [args EXCEPT ![q] = a] /\ Goto(q, "new", "written") /\ UNCHANGED outcome
  BY DEF Insert
<1>. HIDE DEF a
<1>3. args'[q] = a /\ pc[q] = "new" /\ pc'[q] = "written"
  BY <1>2, GotoKind DEF TypeOK
<1>. QED
  BY <1>1, <1>2, <1>3 DEF AnswerKind, Begins

LEMMA FindAnswer ==
  ASSUME TypeOK, NEW q \in Requests, NEW op, NEW name, NEW id, NEW entity, NEW missing,
         Find(q, op, name, id, entity, missing), name # "reports",
         missing # "InvalidApprovalTransition"
  PROVE  AnswerKind(q)
<1>1. CASE id \in RowsOf(name)
  <2>. DEFINE a == [NoArgs EXCEPT !.op = op, !.on = name, !.id = id, !.entity = entity]
  <2>1. a.on = name
    BY DEF NoArgs
  <2>2. args' = [args EXCEPT ![q] = a] /\ Goto(q, "new", "read") /\ UNCHANGED outcome
    BY <1>1 DEF Find
  <2>. HIDE DEF a
  <2>3. args'[q] = a /\ pc[q] = "new" /\ pc'[q] = "read"
    BY <2>2, GotoKind DEF TypeOK
  <2>. QED
    BY <2>1, <2>2, <2>3 DEF AnswerKind, Begins
<1>2. CASE id \notin RowsOf(name)
  <2>1. pc[q] = "new" /\ End(q, missing)
    BY <1>2 DEF Find
  <2>. QED
    BY <2>1, EndAnswer
<1>. QED
  BY <1>1, <1>2

LEMMA SelectAnswer ==
  ASSUME TypeOK, NEW q \in Requests, Select(q)
  PROVE  AnswerKind(q)
<1>1. CASE Goto(q, "read", "selected") /\ UNCHANGED outcome
           /\ args' = [args EXCEPT ![q].selected = table[args[q].id]]
           /\ UNCHANGED table
  <2>1. args[q] \in Args
    BY DEF TypeOK
  <2>2. /\ \A f \in {"op", "on", "id", "asked", "entity"} : args'[q][f] = args[q][f]
        /\ args'[q].selected = table[args[q].id]
    BY <1>1, <2>1 DEF TypeOK, Args
  <2>. QED
    BY <1>1, <2>2, GotoAnswer
<1>2. CASE pc[q] = "read" /\ End(q, "Failure")
  BY <1>2, EndAnswer
<1>. QED
  BY <1>1, <1>2 DEF Select

LEMMA UpdateAnswer ==
  ASSUME TypeOK, NEW q \in Requests, NEW to \in {"written", "flushed"}, Update(q, to)
  PROVE  AnswerKind(q)
<1>1. CASE Goto(q, "selected", to) /\ UNCHANGED <<args, outcome>>
  BY <1>1, GotoAnswer
<1>2. CASE pc[q] = "selected" /\ End(q, "Failure")
  BY <1>2, EndAnswer
<1>. QED
  BY <1>1, <1>2 DEF Update

LEMMA EnterAnswer ==
  ASSUME TypeOK, NEW q \in Requests, Enter(q, "NameAlreadyExists")
  PROVE  AnswerKind(q)
<1>1. CASE Goto(q, "written", "flushed") /\ UNCHANGED <<args, outcome>>
  BY <1>1, GotoAnswer
<1>2. CASE pc[q] = "written" /\ End(q, "NameAlreadyExists")
  BY <1>2, EndAnswer
<1>. QED
  BY <1>1, <1>2 DEF Enter, Indexing

LEMMA FeedbackFindAnswer ==
  ASSUME TypeOK, NEW q \in Requests, FeedbackFind(q)
  PROVE  AnswerKind(q)
<1>1. pc[q] = "new"
  BY DEF FeedbackFind
<1>2. PICK f \in Feedback :
       \/ /\ f.id \in RowsOf("reports") /\ Allowed(table[f.id].status, f.status)
          /\ Goto(q, "new", "read")
          /\ args' = [args EXCEPT ![q] = [NoArgs EXCEPT
                        !.op = "update", !.on = "reports", !.id = f.id, !.asked = f,
                        !.entity = Decided(table[f.id], f)]]
          /\ UNCHANGED outcome
       \/ /\ f.id \in RowsOf("reports") /\ ~Allowed(table[f.id].status, f.status)
          /\ pc' = [pc EXCEPT ![q] = "done"]
          /\ outcome' = [outcome EXCEPT ![q] = "InvalidApprovalTransition"]
          /\ args' = [args EXCEPT ![q].asked = f]
       \/ End(q, "ReportNotFound")
  BY DEF FeedbackFind
<1>3. CASE /\ f.id \in RowsOf("reports") /\ Allowed(table[f.id].status, f.status)
           /\ Goto(q, "new", "read")
           /\ args' = [args EXCEPT ![q] = [NoArgs EXCEPT
                         !.op = "update", !.on = "reports", !.id = f.id, !.asked = f,
                         !.entity = Decided(table[f.id], f)]]
           /\ UNCHANGED outcome
  <2>. DEFINE a == [NoArgs EXCEPT !.op = "update", !.on = "reports", !.id = f.id,
                                  !.asked = f, !.entity = Decided(table[f.id], f)]
  <2>1. /\ a.op = "update" /\ a.on = "reports" /\ a.id = f.id /\ a.asked = f
        /\ a.entity = Decided(table[f.id], f)
    BY DEF NoArgs
  <2>2. args' = [args EXCEPT ![q] = a]
    BY <1>3
  <2>. HIDE DEF a
  <2>3. args'[q] = a /\ pc'[q] = "read"
    BY <1>3, <2>2, GotoKind DEF TypeOK
  <2>4. table[f.id] \in ReportRow
    BY <1>3, PresentRow, RowKinds DEF RowsOf
  <2>5. Decided(table[f.id], f).status = f.status /\ Decided(table[f.id], f).reason = f.reason
    BY <2>4 DEF Decided, ReportRow
  <2>6. f.status \in Decisions
    BY <1>3 DEF Allowed
  <2>. QED
    BY <1>1, <1>3, <2>1, <2>3, <2>5, <2>6 DEF AnswerKind, Begins
<1>4. CASE /\ f.id \in RowsOf("reports") /\ ~Allowed(table[f.id].status, f.status)
           /\ pc' = [pc EXCEPT ![q] = "done"]
           /\ outcome' = [outcome EXCEPT ![q] = "InvalidApprovalTransition"]
           /\ args' = [args EXCEPT ![q].asked = f]
  <2>1. args[q] \in Args
    BY DEF TypeOK
  <2>2. args'[q].asked = f /\ pc'[q] = "done"
        /\ \A r \in Requests \ {q} : outcome'[r] = outcome[r]
    BY <1>4, <2>1 DEF TypeOK, Args
  <2>. QED
    BY <1>1, <1>4, <2>2 DEF AnswerKind, Refuses
<1>5. CASE End(q, "ReportNotFound")
  BY <1>1, <1>5, EndAnswer
<1>. QED
  BY <1>2, <1>3, <1>4, <1>5

LEMMA ProjectAnswer ==
  ASSUME TypeOK, NEW q \in Requests, ProjectStep(q)
  PROVE  AnswerKind(q)
<1>1. ASSUME NEW name \in Names, NEW text \in Texts, Insert(q, NewProject(name, text))
      PROVE  AnswerKind(q)
  BY <1>1, InsertAnswer DEF NewProject
<1>2. CASE ProjectFindToUpdate(q)
  BY <1>2, FindAnswer DEF ProjectFindToUpdate
<1>3. CASE ProjectFindToDelete(q)
  BY <1>3, FindAnswer DEF ProjectFindToDelete
<1>4. CASE ProjectSelect(q)
  BY <1>4, SelectAnswer DEF ProjectSelect
<1>5. CASE ProjectUpdate(q)
  BY <1>5, UpdateAnswer DEF ProjectUpdate
<1>6. CASE ProjectEnter(q)
  BY <1>6, EnterAnswer DEF ProjectEnter
<1>7. CASE ProjectDelete(q)
  BY <1>7, GotoAnswer DEF ProjectDelete, Delete
<1>8. CASE ProjectCascade(q)
  BY <1>8, GotoAnswer DEF ProjectCascade
<1>. QED
  BY <1>1, <1>2, <1>3, <1>4, <1>5, <1>6, <1>7, <1>8 DEF ProjectStep, ProjectCreate

LEMMA EntryAnswer ==
  ASSUME TypeOK, NEW q \in Requests, EntryStep(q)
  PROVE  AnswerKind(q)
<1>1. ASSUME NEW p, NEW kind \in Kinds, NEW name \in Names, NEW text \in Texts,
             Insert(q, NewEntry(p, kind, name, text))
      PROVE  AnswerKind(q)
  BY <1>1, InsertAnswer DEF NewEntry
<1>2. CASE EntryFindToUpdate(q)
  BY <1>2, FindAnswer DEF EntryFindToUpdate
<1>3. CASE EntryFindToDelete(q)
  BY <1>3, FindAnswer DEF EntryFindToDelete
<1>4. CASE EntrySelect(q)
  BY <1>4, SelectAnswer DEF EntrySelect
<1>5. CASE EntryUpdate(q)
  BY <1>5, UpdateAnswer DEF EntryUpdate
<1>6. CASE EntryEnter(q)
  <2>1. CASE Enter(q, "NameAlreadyExists")
    BY <2>1, EnterAnswer
  <2>2. CASE pc[q] = "written" /\ End(q, "NameAlreadyExists")
    BY <2>2, EndAnswer
  <2>. QED BY <1>6, <2>1, <2>2 DEF EntryEnter
<1>7. CASE EntryDelete(q)
  BY <1>7, GotoAnswer DEF EntryDelete, Delete
<1>8. CASE EntryDeleted(q)
  BY <1>8, GotoAnswer DEF EntryDeleted
<1>. QED
  BY <1>1, <1>2, <1>3, <1>4, <1>5, <1>6, <1>7, <1>8
  DEF EntryStep, GlobalEntryCreate, ProjectEntryCreate

LEMMA AnswerStep ==
  ASSUME TypeOK, NEW q \in Requests, Advance(q) \/ RequestFails(q) \/ CommitFails(q)
  PROVE  AnswerKind(q)
<1>1. CASE FeedbackStep(q)
  BY <1>1, FeedbackFindAnswer, SelectAnswer, UpdateAnswer
  DEF FeedbackStep, FeedbackSelect, FeedbackUpdate
<1>2. CASE Answer(q)
  <2>1. pc[q] = "flushed" /\ pc'[q] = "answered"
    BY <1>2, GotoKind DEF Answer
  <2>2. Busy(q)
    BY <2>1 DEF Busy, Writing
  <2>3. outcome'[q] = "ok" /\ \A r \in Requests \ {q} : outcome'[r] = outcome[r]
    BY <1>2 DEF Answer, TypeOK
  <2>4. args'[q] = args[q]
    BY <1>2 DEF Answer
  <2>. QED
    BY <2>1, <2>2, <2>3, <2>4 DEF AnswerKind, Continues
<1>3. CASE Commit(q) \/ CommitFails(q)
  BY <1>3, EndAnswer DEF Commit, CommitFails
<1>4. CASE Deadlocks(q)
  <2>1. pc[q] = "written"
    BY <1>4 DEF Deadlocks, WaitsFor, Indexing
  <2>. QED
    BY <1>4, <2>1, EndAnswer DEF Deadlocks
<1>5. CASE RequestFails(q)
  BY <1>5, EndAnswer DEF RequestFails
<1>. QED
  BY <1>1, <1>2, <1>3, <1>4, <1>5, ProjectAnswer, EntryAnswer DEF Advance

\* Every step but a stutter is one request's, in both ways.
LEMMA ApprovalKinds ==
  ASSUME RowsInv, [Next]_vars
  PROVE  (\E q \in Requests : RequestKind(q) /\ AnswerKind(q)) \/ UNCHANGED vars
  BY KindStep, AnswerStep DEF Next, RowsInv

\* The rows change with a commit only.
LEMMA CommitsChangeRows ==
  ASSUME NEW q \in Requests, RequestKind(q)
  PROVE  UNCHANGED table \/ Commits(q)
  BY DEF RequestKind, Prepares, Takes, Cascades, Enters, Answers, Keeps

-------------------------------------------------------------------------------
(* The invariant.                                                          *)

\* What a feedback leaves in each of the two columns is what was there or what it
\* was asked for.
LEMMA StoredDecision ==
  ASSUME RowsInv, FeedbacksInHand, NEW q \in Requests,
         Writing(q), args[q].op = "update", args[q].on = "reports"
  PROVE  /\ AskedFor(q, args[q].id) /\ args[q].asked.status \in Decisions
         /\ Stored(q).table = "reports"
         /\ Stored(q).status \in {table[args[q].id].status, args[q].asked.status}
         /\ Stored(q).reason \in {table[args[q].id].reason, args[q].asked.reason}
<1>. USE DEF RowsInv
<1>1. /\ AskedFor(q, args[q].id) /\ args[q].asked.status \in Decisions
      /\ args[q].entity.status = args[q].asked.status
      /\ args[q].entity.reason = args[q].asked.reason
  BY DEF FeedbacksInHand, Busy
<1>2. InHand(q) /\ args[q].id \in Present
  BY DEF ArgsOK, Busy, UpdatesHoldTheirRow
<1>3. table[args[q].id] \in ReportRow
  BY <1>2, PresentRow, RowKinds DEF InHand
<1>4. Stored(q) = Written(table[args[q].id], args[q].selected, args[q].entity)
  BY DEF Stored
<1>5. /\ Stored(q).status \in {table[args[q].id].status, args[q].entity.status}
      /\ Stored(q).reason \in {table[args[q].id].reason, args[q].entity.reason}
  BY <1>3, <1>4 DEF Written, ReportRow
<1>6. Stored(q).table = "reports"
  BY StoredRow
<1>. QED
  BY <1>1, <1>5, <1>6

\* A report that is there after a commit was there before, and is as it was, or
\* as the committing feedback stores it.
LEMMA CommittedReport ==
  ASSUME RowsInv, NEW q \in Requests, Commits(q), NEW id \in Present \cap Present',
         table[id].table = "reports"
  PROVE  \/ table'[id] = table[id]
         \/ /\ id = args[q].id /\ Writing(q) /\ args[q].op = "update"
            /\ args[q].on = "reports" /\ table'[id] = Stored(q)
<1>. USE DEF RowsInv
<1>1. CASE id = args[q].id /\ args[q].op # "delete" /\ table'[id] = Stored(q)
  <2>1. Writing(q) /\ InHand(q) /\ args[q].op = "update"
    BY <1>1, CommitRows DEF InHand, Operations
  <2>2. args[q].on = "reports"
    BY <1>1, <2>1 DEF InHand
  <2>. QED BY <1>1, <2>1, <2>2
<1>. QED
  BY <1>1, CommitRows

LEMMA FeedbacksStep ==
  ASSUME RowsInv, FeedbacksInHand, [Next]_vars
  PROVE  FeedbacksInHand'
<1>1. CASE UNCHANGED vars
  BY <1>1 DEF vars, FeedbacksInHand, Busy, Writing, AskedFor
<1>2. ASSUME NEW q \in Requests, RequestKind(q), AnswerKind(q), NEW r \in Requests,
             Busy(r)', args'[r].on = "reports"
      PROVE  /\ args'[r].op = "update" /\ AskedFor(r, args[r].id)'
             /\ args'[r].asked.status \in Decisions
             /\ args'[r].entity.status = args'[r].asked.status
             /\ args'[r].entity.reason = args'[r].asked.reason
  <2>1. CASE r # q
    <3>1. pc'[r] = pc[r] /\ args'[r] = args[r]
      BY <1>2, <2>1 DEF RequestKind, Others
    <3>. QED
      BY <1>2, <3>1 DEF FeedbacksInHand, Busy, Writing, AskedFor
  <2>2. CASE r = q /\ Begins(q)
    BY <1>2, <2>2 DEF Begins, AskedFor
  <2>3. CASE r = q /\ Continues(q)
    <3>1. /\ Busy(q) /\ args'[q].op = args[q].op /\ args'[q].on = args[q].on
          /\ args'[q].id = args[q].id /\ args'[q].asked = args[q].asked
          /\ args'[q].entity = args[q].entity
      BY <2>3 DEF Continues
    <3>. QED
      BY <1>2, <2>3, <3>1 DEF FeedbacksInHand, AskedFor
  <2>4. CASE r = q /\ (Ends(q) \/ Refuses(q))
    BY <1>2, <2>4 DEF Ends, Refuses, Busy, Writing
  <2>. QED
    BY <1>2, <2>1, <2>2, <2>3, <2>4 DEF AnswerKind
<1>. QED
  BY <1>1, <1>2, ApprovalKinds DEF FeedbacksInHand

LEMMA AnswersStep ==
  ASSUME RowsInv, AnswersStand, [Next]_vars
  PROVE  AnswersStand'
<1>1. CASE UNCHANGED vars
  BY <1>1 DEF vars, AnswersStand
<1>2. ASSUME NEW q \in Requests, RequestKind(q), AnswerKind(q), NEW r \in Requests
      PROVE  /\ pc'[r] = "answered" => outcome'[r] = "ok"
             /\ outcome'[r] = "InvalidApprovalTransition" => pc'[r] = "done"
  <2>1. CASE r # q
    BY <1>2, <2>1 DEF RequestKind, Others, AnswerKind, AnswersStand
  <2>2. CASE r = q /\ Begins(q)
    BY <2>2 DEF Begins, AnswersStand
  <2>3. CASE r = q /\ Continues(q)
    BY <2>3 DEF Continues, AnswersStand, Busy, Writing
  <2>4. CASE r = q /\ (Ends(q) \/ Refuses(q))
    BY <2>4 DEF Ends, Refuses
  <2>. QED
    BY <1>2, <2>1, <2>2, <2>3, <2>4 DEF AnswerKind
<1>. QED
  BY <1>1, <1>2, ApprovalKinds DEF AnswersStand

\* A refusal finds the report decided: the row it has read is committed.
LEMMA NewRefusal ==
  ASSUME RowsInv, NEW q \in Requests, RequestKind(q), Refuses(q)
  PROVE  Refused(q)'
<1>. USE DEF RowsInv
<1>. PICK id : id = args'[q].asked.id
  OBVIOUS
<1>1. /\ pc[q] = "new" /\ pc'[q] = "done" /\ args'[q].asked \in Feedback
      /\ id \in RowsOf("reports") /\ ~Allowed(table[id].status, args'[q].asked.status)
  BY DEF Refuses
<1>2. UNCHANGED table
  BY <1>1, CommitsChangeRows DEF Commits
<1>3. id \in Present /\ table[id].table = "reports" /\ table[id] \in ReportRow
      /\ id \in Ids /\ table[id] # None
  BY <1>1, PresentRow, RowKinds DEF RowsOf
<1>4. id \in Requests => pc'[id] = "done"
  <2>1. id \in Requests => pc[id] = "done"
    BY <1>3 DEF RowsAreSettled
  <2>. QED
    BY <1>1, <2>1 DEF RequestKind, Others
<1>5. args'[q].asked.status \in Decisions => table'[id].status \in Decisions
  BY <1>1, <1>2, <1>3 DEF Allowed, ReportRow
<1>6. AskedFor(q, id)' /\ args'[q].asked.id = id
  BY <1>1 DEF AskedFor
<1>. QED
  BY <1>1, <1>2, <1>3, <1>4, <1>5, <1>6 DEF Refused

LEMMA RefusalsStep ==
  ASSUME RowsInv, ApprovalInv, [Next]_vars
  PROVE  RefusalsStand'
<1>. USE DEF RowsInv
<1>1. CASE UNCHANGED vars
  BY <1>1 DEF vars, ApprovalInv, RefusalsStand, Refused, AskedFor, Present
<1>2. ASSUME NEW q \in Requests, RequestKind(q), AnswerKind(q), NEW r \in Requests,
             outcome'[r] = "InvalidApprovalTransition"
      PROVE  Refused(r)'
  <2>1. CASE r # q
    <3>. DEFINE id == args[r].asked.id
    <3>1. pc'[r] = pc[r] /\ args'[r] = args[r] /\ outcome'[r] = outcome[r] /\ pc[q] # "done"
          /\ \A s \in Requests \ {q} : pc'[s] = pc[s]
      BY <1>2, <2>1 DEF RequestKind, Others, AnswerKind
    <3>2. Refused(r)
      BY <1>2, <3>1 DEF ApprovalInv, RefusalsStand
    <3>3. AskedFor(r, id)' /\ id \in Ids
      BY <3>1, <3>2 DEF Refused, AskedFor
    <3>4. id # q /\ (id \in Requests => pc'[id] = "done")
      BY <3>1, <3>2 DEF Refused
    <3>5. ASSUME id \in Present'
          PROVE  /\ table'[id].table = "reports"
                 /\ args[r].asked.status \in Decisions => table'[id].status \in Decisions
      <4>1. CASE UNCHANGED table
        BY <3>2, <3>5, <4>1 DEF Refused, Present
      <4>2. CASE Commits(q)
        <5>1. id \in Present /\ table[id].table = "reports"
          BY <3>2, <3>4, <3>5, <4>2, CommitRows
          DEF Refused, UpdatesHoldTheirRow, InHand, Operations
        <5>2. CASE table'[id] = table[id]
          BY <3>2, <5>1, <5>2 DEF Refused
        <5>3. CASE /\ id = args[q].id /\ Writing(q) /\ args[q].op = "update"
                   /\ args[q].on = "reports" /\ table'[id] = Stored(q)
          BY <3>2, <5>1, <5>3, StoredDecision DEF ApprovalInv, Refused
        <5>. QED
          BY <3>5, <4>2, <5>1, <5>2, <5>3, CommittedReport
      <4>. QED
        BY <1>2, <4>1, <4>2, CommitsChangeRows
    <3>. QED
      BY <3>1, <3>3, <3>4, <3>5 DEF Refused
  <2>2. CASE r = q /\ (Begins(q) \/ Continues(q) \/ Ends(q))
    BY <1>2, <2>2 DEF Begins, Continues, Ends, Busy, Writing, ApprovalInv, AnswersStand
  <2>3. CASE r = q /\ Refuses(q)
    BY <1>2, <2>3, NewRefusal
  <2>. QED
    BY <1>2, <2>1, <2>2, <2>3 DEF AnswerKind
<1>. QED
  BY <1>1, <1>2, ApprovalKinds DEF RefusalsStand

\* A feedback that commits on the row it has selected leaves it as it was asked.
LEMMA StoredPair ==
  ASSUME RowsInv, FeedbacksInHand, NEW q \in Requests,
         Writing(q), args[q].op = "update", args[q].on = "reports",
         args[q].selected = table[args[q].id]
  PROVE  Stored(q) = Decided(table[args[q].id], args[q].asked)
<1>. USE DEF RowsInv
<1>. PICK row, entity : row = table[args[q].id] /\ entity = args[q].entity
  OBVIOUS
<1>1. /\ entity.status = args[q].asked.status
      /\ entity.reason = args[q].asked.reason
  BY DEF FeedbacksInHand, Busy
<1>2. InHand(q) /\ args[q].id \in Present
  BY DEF ArgsOK, Busy, UpdatesHoldTheirRow
<1>3. row \in Rows /\ entity \in Rows /\ row.table = "reports" /\ entity.table = "reports"
      /\ entity.project = row.project
  BY <1>2, PresentRow DEF InHand
<1>4. row \in ReportRow /\ entity \in ReportRow
  BY <1>3, RowKinds
<1>5. Stored(q) = Written(row, row, entity)
  BY DEF Stored
<1>6. Written(row, row, entity) = [f \in DOMAIN row |-> entity[f]]
  BY DEF Written
<1>7. [f \in DOMAIN row |-> entity[f]] = entity
  BY <1>4 DEF ReportRow
<1>8. Decided(row, args[q].asked) = entity
  BY <1>1, <1>3, <1>4 DEF Decided, ReportRow
<1>. QED
  BY <1>5, <1>6, <1>7, <1>8

LEMMA PendingStep ==
  ASSUME RowsInv, ApprovalInv, [Next]_vars
  PROVE  PendingAsSelected'
<1>. USE DEF RowsInv
<1>0. PendingAsSelected /\ FeedbacksInHand
  BY DEF ApprovalInv
<1>1. CASE UNCHANGED vars
  BY <1>0, <1>1 DEF vars, PendingAsSelected, Writing, On, Present
<1>2. ASSUME NEW q \in Requests, RequestKind(q), AnswerKind(q), NEW r \in Requests,
             pc'[r] = "selected" \/ Writing(r)', args'[r].on = "reports",
             args'[r].id \in Present', table'[args'[r].id].status = "PENDING"
      PROVE  args'[r].selected = table'[args'[r].id]
  <2>1. CASE r # q
    <3>. PICK id : id = args[r].id
      OBVIOUS
    <3>1. pc'[r] = pc[r] /\ args'[r] = args[r] /\ pc[q] # "done"
      BY <1>2, <2>1 DEF RequestKind, Others
    <3>2. /\ pc[r] = "selected" \/ Writing(r)
          /\ args[r].on = "reports" /\ id \in Present' /\ table'[id].status = "PENDING"
      BY <1>2, <3>1 DEF Writing
    <3>3. id \in Present /\ table[id].status = "PENDING" => args[r].selected = table[id]
      BY <1>0, <3>2 DEF PendingAsSelected, On
    <3>4. CASE UNCHANGED table
      BY <3>1, <3>2, <3>3, <3>4 DEF Present
    <3>5. CASE Commits(q)
      <4>1. InHand(r) /\ args[r].op = "update"
        BY <1>0, <3>2 DEF ArgsOK, FeedbacksInHand, Busy
      <4>2. id # q
        BY <3>1, <4>1 DEF InHand
      <4>3. id \in Present
        BY <3>2, <3>5, <4>2, CommitRows DEF UpdatesHoldTheirRow, InHand, Operations
      <4>4. table[id].table = "reports"
        BY <3>2, <4>1, <4>3 DEF InHand
      <4>5. CASE table'[id] = table[id]
        BY <3>1, <3>2, <3>3, <4>3, <4>5
      <4>6. CASE /\ id = args[q].id /\ Writing(q) /\ args[q].op = "update"
                 /\ args[q].on = "reports" /\ table'[id] = Stored(q)
        <5>1. AskedFor(q, id) /\ args[q].asked.status \in Decisions
              /\ Stored(q).status \in {table[id].status, args[q].asked.status}
          BY <1>0, <4>6, StoredDecision
        <5>2. table[id].status = "PENDING"
          BY <3>2, <4>6, <5>1 DEF Decisions
        <5>3. args[q].selected = table[id]
          BY <1>0, <4>3, <4>6, <5>2 DEF PendingAsSelected, On
        <5>4. Stored(q) = Decided(table[id], args[q].asked)
          BY <1>0, <4>6, <5>3, StoredPair
        <5>5. table[id] \in ReportRow
          BY <4>3, <4>4, PresentRow, RowKinds
        <5>6. Stored(q).status = args[q].asked.status
          BY <5>4, <5>5 DEF Decided, ReportRow
        <5>. QED BY <3>2, <4>6, <5>1, <5>6 DEF Decisions
      <4>. QED
        BY <3>2, <3>5, <4>3, <4>4, <4>5, <4>6, CommittedReport
    <3>. QED
      BY <1>2, <3>4, <3>5, CommitsChangeRows
  <2>2. CASE r = q /\ Begins(q)
    BY <1>2, <2>2 DEF Begins, Writing
  <2>3. CASE r = q /\ Continues(q)
    <3>1. args'[q].on = args[q].on /\ args'[q].id = args[q].id /\ pc[q] # "answered"
      BY <2>3 DEF Continues
    <3>2. UNCHANGED table
      BY <1>2, <3>1, CommitsChangeRows DEF Commits
    <3>3. CASE args'[q].selected = table[args[q].id]
      BY <2>3, <3>1, <3>2, <3>3
    <3>4. CASE pc[q] # "read" /\ args'[q].selected = args[q].selected
      <4>1. pc[q] = "selected" \/ Writing(q)
        BY <2>3, <3>4 DEF Continues, Busy
      <4>. QED
        BY <1>0, <1>2, <2>3, <3>1, <3>2, <3>4, <4>1 DEF PendingAsSelected, On, Present
    <3>. QED
      BY <2>3, <3>3, <3>4 DEF Continues
  <2>4. CASE r = q /\ (Ends(q) \/ Refuses(q))
    BY <1>2, <2>4 DEF Ends, Refuses, Writing
  <2>. QED
    BY <1>2, <2>1, <2>2, <2>3, <2>4 DEF AnswerKind
<1>. QED
  BY <1>1, <1>2, ApprovalKinds DEF PendingAsSelected, On

LEMMA InitApproval ==
  ASSUME Init
  PROVE  ApprovalInv
<1>1. pc = [q \in Requests |-> "new"] /\ outcome = [q \in Requests |-> None]
  BY DEF Init, RowsInit
<1>2. \A q \in Requests : ~Busy(q) /\ pc[q] # "answered" /\ pc[q] # "selected"
                           /\ ~Writing(q) /\ outcome[q] # "InvalidApprovalTransition"
  BY <1>1, NoneAssumption DEF Busy, Writing, Outcomes
<1>. QED
  BY <1>2 DEF ApprovalInv, FeedbacksInHand, AnswersStand, RefusalsStand, PendingAsSelected

-------------------------------------------------------------------------------
(* The theorems.                                                           *)

\* Rows, locks, feedbacks in flight and refusals fit together, in every reachable
\* state: IndInv, which the run catalog_requests checks.
THEOREM SpecIndInv == Spec => []IndInv
<1>1. Init => ApprovalInv
  BY InitApproval
<1>2. RowsInv /\ ApprovalInv /\ [Next]_vars => ApprovalInv'
  BY FeedbacksStep, AnswersStep, RefusalsStep, PendingStep DEF ApprovalInv
<1>3. RowsInv /\ ApprovalInv => IndInv
  BY DEF IndInv
<1>. QED
  BY <1>1, <1>2, <1>3, SpecRowsInv, PTL DEF Spec

\* A feedback that is refused because the report is decided finds it decided for
\* as long as it exists, whatever else overlaps or fails (submit_feedback.py:23).
THEOREM SpecRefusedMeansDecided == Spec => []RefusedMeansDecided
<1>1. IndInv => RefusedMeansDecided
  BY DEF IndInv, ApprovalInv, RefusalsStand, Refused, RefusedMeansDecided, Present
<1>. QED
  BY <1>1, SpecIndInv, PTL

\* The first decision on a report is the whole of one answered feedback, for any
\* number of feedbacks that overlap (submit_feedback.py:25, report_repository.py:62).
THEOREM SpecFirstDecisionIsOne == Spec => FirstDecisionIsOne
<1>1. ASSUME IndInv, [Next]_vars, NEW id \in RowsOf("reports"),
             table'[id] \notin {None, table[id]}, table[id].status = "PENDING"
      PROVE  \E q \in Requests : /\ AskedFor(q, id) /\ outcome[q] = "ok"
                                 /\ table'[id] = Decided(table[id], args[q].asked)
  <2>. USE DEF IndInv, RowsInv
  <2>0. PendingAsSelected /\ FeedbacksInHand /\ AnswersStand
    BY <1>1 DEF ApprovalInv
  <2>1. PICK q \in Requests : Commits(q)
    BY <1>1, ApprovalKinds, CommitsChangeRows DEF vars
  <2>2. id \in Present \cap Present' /\ table[id].table = "reports"
    BY <1>1 DEF RowsOf, Present
  <2>3. /\ id = args[q].id /\ Writing(q) /\ args[q].op = "update"
        /\ args[q].on = "reports" /\ table'[id] = Stored(q)
    BY <1>1, <2>1, <2>2, CommittedReport
  <2>4. args[q].selected = table[id]
    BY <1>1, <2>0, <2>2, <2>3 DEF PendingAsSelected, On
  <2>5. Stored(q) = Decided(table[id], args[q].asked)
    BY <1>1, <2>0, <2>3, <2>4, StoredPair
  <2>6. AskedFor(q, id)
    BY <1>1, <2>0, <2>3, StoredDecision
  <2>7. outcome[q] = "ok"
    BY <2>0, <2>1 DEF Commits, AnswersStand
  <2>. QED
    BY <2>3, <2>5, <2>6, <2>7
<1>2. IndInv /\ [Next]_vars =>
        [\A id \in RowsOf("reports") :
           table'[id] \notin {None, table[id]} /\ table[id].status = "PENDING" =>
             \E q \in Requests :
               /\ AskedFor(q, id) /\ outcome[q] = "ok"
               /\ table'[id] = Decided(table[id], args[q].asked)]_vars
  BY <1>1
<1>. QED
  BY <1>2, SpecIndInv, PTL DEF Spec, FirstDecisionIsOne
=============================================================================
