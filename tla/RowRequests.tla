------------------------------ MODULE RowRequests ------------------------------
(***************************************************************************)
(* Requests that create, change or delete one row each, on tables that     *)
(* share a PostgreSQL database: what the repositories of projects, of the  *)
(* dictionary and of reports have in common.  Every request is a READ      *)
(* COMMITTED transaction that commits after its response (get_db).         *)
(*                                                                         *)
(* A create draws a uuid4() for its row, so the request is the row's id.   *)
(***************************************************************************)
EXTENDS Naturals, RowUpdate

CONSTANTS
  Requests,   \* HTTP requests
  Old,        \* ids of rows created before
  Names,      \* names of projects and of terms
  Texts,      \* what else their rows hold: descriptions, AI contexts, payloads
  None        \* "no value"

ASSUME IdsAssumption == Requests \cap Old = {} /\ None \notin Requests \cup Old

VARIABLES
  table,      \* committed rows: id -> row, or None
  pc,         \* where a request is
  args,       \* what a request was given and has read
  outcome     \* how a request ended

vars == <<table, pc, args, outcome>>

Ids == Requests \cup Old
Present == {id \in Ids : table[id] # None}
RowsOf(name) == {id \in Present : table[id].table = name}

NoArgs == [op |-> None, on |-> None, id |-> None, asked |-> None,
           entity |-> None, selected |-> None]

RowsInit ==
  /\ pc = [q \in Requests |-> "new"]
  /\ args = [q \in Requests |-> NoArgs]
  /\ outcome = [q \in Requests |-> None]

Goto(q, from, to) == pc[q] = from /\ pc' = [pc EXCEPT ![q] = to]

\* What a request was asked is kept, what it has read is dropped.
End(q, o) ==
  /\ pc' = [pc EXCEPT ![q] = "done"]
  /\ outcome' = [outcome EXCEPT ![q] = o]
  /\ args' = [args EXCEPT ![q] = [NoArgs EXCEPT !.asked = args[q].asked]]

-------------------------------------------------------------------------------
(* Row locks and unique indexes.                                           *)

\* Rows of a project go with it (ON DELETE CASCADE).
Children(id) == {c \in Present : table[c].project = id}

\* The transaction of q has written, and not yet committed.
Writing(q) == pc[q] \in {"written", "flushed", "answered"}
Entered(q) == pc[q] \in {"flushed", "answered"} /\ args[q].op # "delete"
On(q, name) == args[q].on = name

\* The rows q has updated or deleted.
Held(q) ==
  IF ~Writing(q) \/ args[q].op = "create" THEN {}
  ELSE ({args[q].id} \cap Present)
       \cup (IF args[q].op = "delete" /\ pc[q] # "written"
             THEN Children(args[q].id) ELSE {})

Free(q, id) == \A r \in Requests \ {q} : id \notin Held(r)

\* The row that q leaves.
Stored(q) ==
  CASE args[q].op = "create" -> args[q].entity
    [] args[q].op = "update" ->
         Written(table[args[q].id], args[q].selected, args[q].entity)
    [] OTHER -> None

\* Two rows that a unique index keeps apart.
SameKey(a, b) ==
  /\ a.table = b.table /\ a.table # "reports"
  /\ [a EXCEPT !.text = None] = [b EXCEPT !.text = None]

\* The transaction of r has put this key into the index or taken it out.
HoldsKey(r, row) ==
  \/ Entered(r) /\ SameKey(Stored(r), row)
  \/ \E id \in Held(r) : SameKey(table[id], row)

Indexing(q) == pc[q] = "written" /\ args[q].op # "delete"
WaitsFor(q, r) == q # r /\ Indexing(q) /\ HoldsKey(r, Stored(q))

Taken(q) ==
  \E id \in Present \ {args[q].id} : SameKey(table[id], Stored(q))

-------------------------------------------------------------------------------
(* The steps of a request; the components say which request takes which.   *)

\* session.add(model); flush() sends the INSERT.
Insert(q, row) ==
  /\ Goto(q, "new", "written")
  /\ args' = [args EXCEPT ![q] = [NoArgs EXCEPT
                !.op = "create", !.on = row.table, !.id = q, !.entity = row]]
  /\ UNCHANGED <<table, outcome>>

\* get_by_id(): the entity as the request wants it, or the refusal.
Find(q, op, name, id, entity, missing) ==
  /\ pc[q] = "new"
  /\ \/ /\ id \in RowsOf(name)
        /\ Goto(q, "new", "read")
        /\ args' = [args EXCEPT ![q] = [NoArgs EXCEPT
                      !.op = op, !.on = name, !.id = id, !.entity = entity]]
        /\ UNCHANGED outcome
     \/ id \notin RowsOf(name) /\ End(q, missing)
  /\ UNCHANGED table

\* update() and delete() select the row again; scalar_one() raises without it.
Select(q) ==
  /\ pc[q] = "read"
  /\ \/ /\ args[q].id \in Present
        /\ Goto(q, "read", "selected")
        /\ args' = [args EXCEPT ![q].selected = table[args[q].id]]
        /\ UNCHANGED outcome
     \/ args[q].id \notin Present /\ End(q, "Failure")
  /\ UNCHANGED table

\* Faulty variant: an update inserts the row when it is gone.
FaultyUpdateMerges(q, to) ==
  /\ Goto(q, "selected", to)
  /\ args[q].op = "update"
  /\ Free(q, args[q].id)
  /\ table' = [table EXCEPT ![args[q].id] = IF @ = None THEN args[q].entity ELSE @]
  /\ UNCHANGED <<args, outcome>>

\* Faulty variant: the UPDATE is committed by itself.
FaultyUpdateAutocommits(q, to) ==
  /\ Goto(q, "selected", to)
  /\ args[q].op = "update" /\ args[q].id \in Present
  /\ Free(q, args[q].id)
  /\ table' = [table EXCEPT ![args[q].id] = Written(@, args[q].selected, args[q].entity)]
  /\ UNCHANGED <<args, outcome>>

\* The UPDATE waits for the row; one that matches no row raises.
Update(q, to) ==
  /\ pc[q] = "selected" /\ args[q].op = "update"
  /\ Free(q, args[q].id)
  /\ \/ /\ args[q].id \in Present
        /\ Goto(q, "selected", to)
        /\ UNCHANGED <<args, outcome>>
     \/ args[q].id \notin Present /\ End(q, "Failure")
  /\ UNCHANGED table

\* The DELETE waits for the row; that it matches none is only a warning.
Delete(q) ==
  /\ args[q].op = "delete"
  /\ Free(q, args[q].id)
  /\ Goto(q, "selected", "written")
  /\ UNCHANGED <<table, args, outcome>>

\* Faulty variant: no unique index.
FaultyNoIndex(q, taken) ==
  /\ Indexing(q)
  /\ Goto(q, "written", "flushed")
  /\ UNCHANGED <<table, args, outcome>>

\* The unique index: wait for those who hold the key, then enter or raise.
Enter(q, taken) ==
  /\ Indexing(q)
  /\ \A r \in Requests : ~WaitsFor(q, r)
  /\ \/ ~Taken(q) /\ Goto(q, "written", "flushed") /\ UNCHANGED <<args, outcome>>
     \/ Taken(q) /\ End(q, taken)
  /\ UNCHANGED table

Answer(q) ==
  /\ Goto(q, "flushed", "answered")
  /\ outcome' = [outcome EXCEPT ![q] = "ok"]
  /\ UNCHANGED <<table, args>>

Commit(q) ==
  /\ pc[q] = "answered"
  /\ table' = [id \in Ids |->
                 IF id = args[q].id THEN Stored(q)
                 ELSE IF id \in Held(q) THEN None ELSE table[id]]
  /\ End(q, "ok")

\* PostgreSQL fails one of the transactions that wait in a circle.
Deadlocks(q) ==
  /\ \E S \in SUBSET Requests :
       /\ q \in S
       /\ \A s \in S : \E t \in S : WaitsFor(s, t)
       /\ \A t \in S : \E s \in S : WaitsFor(s, t)
  /\ End(q, "Failure")
  /\ UNCHANGED table

RequestFails(q) ==
  /\ pc[q] \in {"read", "selected", "written", "flushed"}
  /\ End(q, "Failure")
  /\ UNCHANGED table

\* The commit fails after the response.
CommitFails(q) ==
  /\ pc[q] = "answered"
  /\ End(q, "ok")
  /\ UNCHANGED table
=============================================================================
