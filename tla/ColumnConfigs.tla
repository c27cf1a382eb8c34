----------------------------- MODULE ColumnConfigs -----------------------------
(***************************************************************************)
(* The column configurations of one project: the PUT that replaces the     *)
(* whole list (DELETE of all rows, INSERT of the new ones), the PATCH of   *)
(* one row, and the delete of the project.  Every request is a READ        *)
(* COMMITTED transaction of PostgreSQL that commits after its response.    *)
(*                                                                         *)
(* A PUT draws a uuid4() for each row it inserts, so a row is known by the *)
(* request that inserts it and its column name.                            *)
(***************************************************************************)
EXTENDS Naturals, Sequences, RowUpdate

CONSTANTS
  Requests,   \* HTTP requests, PUT or PATCH
  Columns,    \* column names
  Lists,      \* the lists of column names a PUT may send
  None        \* "no value"

ASSUME ListsAssumption == Lists \subseteq Seq(Columns)
ASSUME NoneAssumption == None \notin BOOLEAN

VARIABLES
  exists,      \* whether the project's row is there
  table,       \* committed rows: request, column name -> fields, or None
  pc,          \* where a request is
  args,        \* what a request was given, has read and has locked
  outcome,     \* how a request ended
  overlapped   \* history: PUTs during which another PUT committed

vars == <<exists, table, pc, args, outcome, overlapped>>

Row == [enabled : BOOLEAN, classify : BOOLEAN]
NewRow == [enabled |-> TRUE, classify |-> FALSE]

ASSUME NoneRowAssumption == None \notin Row

\* A PATCH gives each field a value or leaves it out.
Change == [enabled : BOOLEAN \cup {None}, classify : BOOLEAN \cup {None}]

Ids == Requests \X Columns
Committed(id) == table[id[1]][id[2]]
Present == {id \in Ids : Committed(id) # None}

NoArgs == [list |-> <<>>, next |-> 1, seen |-> {}, doomed |-> {},
           id |-> None, change |-> None, entity |-> None, selected |-> None]

Init ==
  /\ exists = TRUE
  /\ table = [q \in Requests |-> [n \in Columns |-> None]]
  /\ pc = [q \in Requests |-> "new"]
  /\ args = [q \in Requests |-> NoArgs]
  /\ outcome = [q \in Requests |-> None]
  /\ overlapped = [q \in Requests |-> FALSE]

Goto(q, from, to) == pc[q] = from /\ pc' = [pc EXCEPT ![q] = to]

\* What the request was given is kept, what it has read is dropped.
End(q, o) ==
  /\ pc' = [pc EXCEPT ![q] = "done"]
  /\ outcome' = [outcome EXCEPT ![q] = o]
  /\ args' = [args EXCEPT ![q] = [NoArgs EXCEPT !.list = args[q].list]]

-------------------------------------------------------------------------------
(* Locks and the unique index (project_id, column_name).                   *)

Names(list) == {list[i] : i \in DOMAIN list}
Inserting(q) == pc[q] \in {"inserting", "putAnswered"}
Replacing(q) == Inserting(q) \/ pc[q] = "deleting"
Patching(q) == pc[q] \in {"flushed", "patchAnswered"}

\* The names a PUT has put into the index without having committed them.
InsertedNames(q) ==
  IF Inserting(q) THEN {args[q].list[i] : i \in 1 .. args[q].next - 1} ELSE {}

\* The rows a transaction has deleted or updated and not yet committed.
Locked(q) ==
  (IF Inserting(q) THEN args[q].doomed ELSE {})
  \cup (IF Patching(q) THEN {args[q].id} ELSE {})

Free(q, id) == \A r \in Requests \ {q} : id \notin Locked(r)

\* An INSERT of name n waits for r: r has inserted n, or deleted a row named n.
HoldsName(r, n) ==
  \/ n \in InsertedNames(r)
  \/ \E id \in Locked(r) : Inserting(r) /\ id[2] = n /\ id \in Present

Wanted(q) == args[q].list[args[q].next]
HasNext(q) == pc[q] = "inserting" /\ args[q].next <= Len(args[q].list)
WaitsFor(q, r) == q # r /\ HasNext(q) /\ HoldsName(r, Wanted(q))

\* The name is in the index already: committed and not deleted by q, or q's own.
NameTaken(q, n) ==
  \/ n \in InsertedNames(q)
  \/ \E id \in Present \ args[q].doomed : id[2] = n

-------------------------------------------------------------------------------
(* PUT /projects/{p}/columns                                               *)

PutFind(q, list) ==
  /\ pc[q] = "new"
  /\ \/ /\ exists
        /\ Goto(q, "new", "found")
        /\ args' = [args EXCEPT ![q].list = list]
        /\ UNCHANGED outcome
     \/ ~exists /\ End(q, "ProjectNotFound")
  /\ UNCHANGED <<exists, table, overlapped>>

\* Faulty variant: an upsert that removes only the columns it brings itself.
FaultyDeletesOwnNames(q) ==
  /\ Goto(q, "found", "deleting")
  /\ args' = [args EXCEPT
                ![q].seen = {id \in Present : id[2] \in Names(args[q].list)}]
  /\ UNCHANGED <<exists, table, outcome, overlapped>>

\* The DELETE sees the rows committed when it starts...
PutDelete(q) ==
  /\ Goto(q, "found", "deleting")
  /\ args' = [args EXCEPT ![q].seen = Present]
  /\ UNCHANGED <<exists, table, outcome, overlapped>>

\* ...waits for the transactions that hold them, and deletes what is left of
\* them: rows committed meanwhile are not among them.
PutDeleteEnds(q) ==
  /\ \A id \in args[q].seen : Free(q, id)
  /\ Goto(q, "deleting", "inserting")
  /\ args' = [args EXCEPT ![q].doomed = args[q].seen \cap Present,
                          ![q].seen = {}]
  /\ UNCHANGED <<exists, table, outcome, overlapped>>

\* Faulty variant: no unique index.
FaultyNoUniqueIndex(q) ==
  /\ HasNext(q) /\ exists
  /\ args' = [args EXCEPT ![q].next = @ + 1]
  /\ UNCHANGED <<exists, table, pc, outcome, overlapped>>

PutInsert(q) ==
  /\ HasNext(q) /\ exists
  /\ \A r \in Requests : ~WaitsFor(q, r)
  /\ ~NameTaken(q, Wanted(q))
  /\ args' = [args EXCEPT ![q].next = @ + 1]
  /\ UNCHANGED <<exists, table, pc, outcome, overlapped>>

\* Faulty variant: a PUT that conflicts starts over.
FaultyStartsOver(q) ==
  /\ HasNext(q)
  /\ \A r \in Requests : ~WaitsFor(q, r)
  /\ NameTaken(q, Wanted(q)) \/ ~exists
  /\ Goto(q, "inserting", "found")
  /\ args' = [args EXCEPT ![q] = [NoArgs EXCEPT !.list = args[q].list]]
  /\ UNCHANGED <<exists, table, outcome, overlapped>>

\* upsert_all lets the IntegrityError through: the request is a 500.
PutConflicts(q) ==
  /\ HasNext(q)
  /\ \/ /\ exists
        /\ \A r \in Requests : ~WaitsFor(q, r)
        /\ NameTaken(q, Wanted(q))
        /\ End(q, "NameTaken")
     \/ ~exists /\ End(q, "ForeignKey")
  /\ UNCHANGED <<exists, table, overlapped>>

\* PostgreSQL fails one of the transactions that wait in a circle.
PutDeadlocks(q) ==
  /\ \E S \in SUBSET Requests :
       /\ q \in S
       /\ \A s \in S : \E t \in S : WaitsFor(s, t)
       /\ \A t \in S : \E s \in S : WaitsFor(s, t)
  /\ End(q, "Failure")
  /\ UNCHANGED <<exists, table, overlapped>>

PutAnswer(q) ==
  /\ ~HasNext(q)
  /\ Goto(q, "inserting", "putAnswered")
  /\ outcome' = [outcome EXCEPT ![q] = "ok"]
  /\ UNCHANGED <<exists, table, args, overlapped>>

PutCommit(q) ==
  /\ pc[q] = "putAnswered"
  /\ table' = [r \in Requests |-> [n \in Columns |->
                 IF <<r, n>> \in args[q].doomed THEN None
                 ELSE IF r = q /\ n \in Names(args[q].list) THEN NewRow
                 ELSE table[r][n]]]
  /\ overlapped' = [r \in Requests |->
                      overlapped[r] \/ (r # q /\ Replacing(r))]
  /\ End(q, "ok")
  /\ UNCHANGED exists

-------------------------------------------------------------------------------
(* PATCH /projects/{p}/columns/{id}                                        *)

PatchFind(q, id, change) ==
  /\ pc[q] = "new"
  /\ \/ /\ id \in Present
        /\ Goto(q, "new", "read")
        /\ args' = [args EXCEPT
                      ![q].id = id, ![q].change = change,
                      ![q].entity = Assigned(Committed(id), change, None)]
        /\ UNCHANGED outcome
     \/ id \notin Present /\ End(q, "ColumnConfigNotFound")
  /\ UNCHANGED <<exists, table, overlapped>>

\* update() selects the row again; scalar_one() raises when it is gone.
PatchSelect(q) ==
  /\ pc[q] = "read"
  /\ \/ /\ args[q].id \in Present
        /\ Goto(q, "read", "selected")
        /\ args' = [args EXCEPT ![q].selected = Committed(args[q].id)]
        /\ UNCHANGED outcome
     \/ args[q].id \notin Present /\ End(q, "Failure")
  /\ UNCHANGED <<exists, table, overlapped>>

\* Faulty variant: an entity whose row is gone is inserted again.
FaultyMerges(q) ==
  LET id == args[q].id
  IN  /\ Goto(q, "selected", "flushed")
      /\ Free(q, id)
      /\ table' = [table EXCEPT ![id[1]][id[2]] =
                     IF @ = None THEN args[q].entity ELSE @]
      /\ UNCHANGED <<exists, args, outcome, overlapped>>

\* The flush waits for the row; an UPDATE that matches no row raises.
PatchFlush(q) ==
  /\ pc[q] = "selected"
  /\ Free(q, args[q].id)
  /\ \/ /\ args[q].id \in Present
        /\ Goto(q, "selected", "flushed")
        /\ UNCHANGED <<args, outcome>>
     \/ args[q].id \notin Present /\ End(q, "Failure")
  /\ UNCHANGED <<exists, table, overlapped>>

PatchAnswer(q) ==
  /\ Goto(q, "flushed", "patchAnswered")
  /\ outcome' = [outcome EXCEPT ![q] = "ok"]
  /\ UNCHANGED <<exists, table, args, overlapped>>

PatchCommit(q) ==
  LET r == args[q].id[1]
      n == args[q].id[2]
  IN  /\ pc[q] = "patchAnswered"
      /\ table' = [table EXCEPT ![r][n] =
                     Written(@, args[q].selected, args[q].entity)]
      /\ End(q, "ok")
      /\ UNCHANGED <<exists, overlapped>>

-------------------------------------------------------------------------------
(* Failures, and the delete of the project.                                *)

RequestFails(q) ==
  /\ pc[q] \in {"found", "deleting", "inserting", "read", "selected", "flushed"}
  /\ End(q, "Failure")
  /\ UNCHANGED <<exists, table, overlapped>>

\* The commit fails after the response.
CommitFails(q) ==
  /\ pc[q] \in {"putAnswered", "patchAnswered"}
  /\ End(q, "ok")
  /\ UNCHANGED <<exists, table, overlapped>>

\* The cascade waits for every lock on the rows and for the uncommitted
\* inserts, which lock the project's row against it.
ProjectDeleted ==
  /\ exists
  /\ \A q \in Requests : Locked(q) \cap Present = {} /\ InsertedNames(q) = {}
  /\ exists' = FALSE
  /\ table' = [q \in Requests |-> [n \in Columns |-> None]]
  /\ UNCHANGED <<pc, args, outcome, overlapped>>

PutStep(q) ==
  \/ \E list \in Lists : PutFind(q, list)
  \/ PutDelete(q) \/ PutDeleteEnds(q) \/ PutInsert(q) \/ PutConflicts(q)
  \/ PutDeadlocks(q) \/ PutAnswer(q) \/ PutCommit(q)

PatchStep(q) ==
  \/ \E id \in Ids, change \in Change : PatchFind(q, id, change)
  \/ PatchSelect(q) \/ PatchFlush(q) \/ PatchAnswer(q) \/ PatchCommit(q)

RequestStep(q) ==
  PutStep(q) \/ PatchStep(q) \/ RequestFails(q) \/ CommitFails(q)

Next == (\E q \in Requests : RequestStep(q)) \/ ProjectDeleted

Spec == Init /\ [][Next]_vars

\* A request that has started goes on whenever it can, and PostgreSQL resolves
\* deadlocks; no fairness for failures.
Fairness == \A q \in Requests : WF_vars(pc[q] # "new" /\ (PutStep(q) \/ PatchStep(q)))

FairSpec == Spec /\ Fairness
-------------------------------------------------------------------------------
(* Properties                                                              *)

Places == {"new", "found", "deleting", "inserting", "putAnswered", "read",
           "selected", "flushed", "patchAnswered", "done"}
Outcomes == {"ok", "Failure", "ProjectNotFound", "ColumnConfigNotFound",
             "NameTaken", "ForeignKey"}
Args == [list : Seq(Columns), next : Nat \ {0}, seen : SUBSET Ids,
         doomed : SUBSET Ids, id : Ids \cup {None}, change : Change \cup {None},
         entity : Row \cup {None}, selected : Row \cup {None}]

\* Every variable has its type.
TypeOK ==
  /\ exists \in BOOLEAN
  /\ table \in [Requests -> [Columns -> Row \cup {None}]]
  /\ pc \in [Requests -> Places]
  /\ args \in [Requests -> Args]
  /\ outcome \in [Requests -> Outcomes \cup {None}]
  /\ overlapped \in [Requests -> BOOLEAN]

\* An upload that reads the configs finds of every PUT all its columns or none:
\* no other PUT, PATCH, failure or delete removes or keeps a part of it
\* (column_config_repository.py:32, "o PUT em lote e atomico").
PutIsWhole ==
  \A q \in Requests :
    LET stored == {n \in Columns : table[q][n] # None}
    IN  stored = {} \/ stored = Names(args[q].list)

\* No two committed configs of the project have the same column name, although
\* the DELETE and the INSERT of two PUTs interleave (models/column_config.py:29).
NamesAreUnique ==
  \A a, b \in Present : a[2] = b[2] => a = b

\* A PUT during which no other PUT commits leaves its own list and nothing else,
\* whatever PATCHes and failures do meanwhile.
SerialPutReplaces ==
  [][\A q \in Requests :
       PutCommit(q) /\ ~overlapped[q] =>
         \A r \in Requests, n \in Columns :
           table'[r][n] # None <=> r = q /\ n \in Names(args[q].list)]_vars

\* A config that was replaced or deleted never comes back: a PATCH that read it
\* before fails (execution of update() on a row that is gone).
NothingComesBack ==
  [][\A q \in Requests, n \in Columns :
       table[q][n] = None /\ table'[q][n] # None => pc[q] = "putAnswered"]_vars

\* Every request that has started is answered and over in the end, although
\* PUTs wait for each other's names and rows.
EveryRequestEnds ==
  \A q \in Requests : pc[q] # "new" ~> pc[q] = "done"

-------------------------------------------------------------------------------
(* The inductive strengthening of the safety properties.                   *)

\* A row is committed with its request; what a transaction has read or deleted
\* was committed before.
RowsAreCommitted ==
  /\ \A id \in Present : pc[id[1]] = "done"
  /\ \A q \in Requests :
       \A id \in args[q].seen \cup args[q].doomed : pc[id[1]] = "done"

\* What a request has in hand at each place.
ArgsOK ==
  \A q \in Requests :
    /\ pc[q] \in {"read", "selected"} \/ Patching(q) =>
         args[q].id \in Ids /\ args[q].entity # None
    /\ pc[q] = "selected" \/ Patching(q) => args[q].selected # None
    /\ pc[q] \in {"new", "found", "deleting"} => args[q].next = 1
    /\ Inserting(q) => args[q].next <= Len(args[q].list) + 1
    /\ pc[q] = "putAnswered" => args[q].next = Len(args[q].list) + 1

\* A PUT deletes every other PUT wholly or leaves it alone.
RowsOf(q) == {id \in Present : id[1] = q}
TakesAll(S, q) == RowsOf(q) \subseteq S \/ RowsOf(q) \cap S = {}
DeletesWholePuts ==
  \A d, q \in Requests :
    /\ pc[d] = "deleting" => TakesAll(args[d].seen, q)
    /\ Inserting(d) => TakesAll(args[d].doomed, q)

\* A PATCH that has flushed holds a row that is there and nobody deletes.
PatchesHoldTheirRow ==
  \A q \in Requests :
    Patching(q) =>
      /\ args[q].id \in Present
      /\ \A d \in Requests : Inserting(d) => args[q].id \notin args[d].doomed

\* Nothing but what a PUT deletes is there while no other PUT commits.
AloneSeesAll ==
  \A q \in Requests :
    ~overlapped[q] =>
      /\ pc[q] = "deleting" => Present \subseteq args[q].seen
      /\ Inserting(q) => Present \subseteq args[q].doomed

\* The unique index counts uncommitted names.
IndexOK ==
  \A q \in Requests :
    /\ \A id \in Present \ args[q].doomed : id[2] \notin InsertedNames(q)
    /\ \A r \in Requests \ {q} : InsertedNames(q) \cap InsertedNames(r) = {}

IndInv ==
  /\ TypeOK /\ RowsAreCommitted /\ ArgsOK /\ PutIsWhole /\ DeletesWholePuts
  /\ PatchesHoldTheirRow /\ AloneSeesAll /\ IndexOK /\ NamesAreUnique
=============================================================================
