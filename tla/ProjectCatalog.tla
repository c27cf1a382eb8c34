----------------------------- MODULE ProjectCatalog -----------------------------
(***************************************************************************)
(* The projects of one user: create, PATCH and delete.  Names are unique   *)
(* per user; a delete takes with it what belongs to the project.           *)
(***************************************************************************)
EXTENDS RowRequests

ProjectRow == [table : {"projects"}, project : {None}, kind : {None},
               name : Names, text : Texts]

NewProject(name, text) ==
  [table |-> "projects", project |-> None, kind |-> None,
   name |-> name, text |-> text]

\* A PATCH gives a field a value or leaves it out.
Change == [name : Names \cup {None}, text : Texts \cup {None}]

ProjectCreate(q) == \E name \in Names, text \in Texts : Insert(q, NewProject(name, text))

ProjectFindToUpdate(q) ==
  \E id \in Ids, change \in Change :
    Find(q, "update", "projects", id, Assigned(table[id], change, None),
         "ProjectNotFound")

ProjectFindToDelete(q) ==
  \E id \in Ids : Find(q, "delete", "projects", id, None, "ProjectNotFound")

ProjectSelect(q) == On(q, "projects") /\ Select(q)

ProjectUpdate(q) == On(q, "projects") /\ Update(q, "written")

ProjectEnter(q) == On(q, "projects") /\ Enter(q, "NameAlreadyExists")

\* An uncommitted INSERT of a child locks the project against its delete.
ChildPending(id) ==
  \E r \in Requests : Entered(r) /\ args[r].op = "create" /\ Stored(r).project = id

ProjectDelete(q) ==
  On(q, "projects") /\ ~ChildPending(args[q].id) /\ Delete(q)

\* The cascade waits for the transactions that hold a child.
ProjectCascade(q) ==
  /\ On(q, "projects") /\ args[q].op = "delete"
  /\ \A id \in Children(args[q].id) : Free(q, id)
  /\ Goto(q, "written", "flushed")
  /\ UNCHANGED <<table, args, outcome>>

ProjectStep(q) ==
  \/ ProjectCreate(q) \/ ProjectFindToUpdate(q) \/ ProjectFindToDelete(q)
  \/ ProjectSelect(q) \/ ProjectUpdate(q) \/ ProjectEnter(q)
  \/ ProjectDelete(q) \/ ProjectCascade(q)
=============================================================================
