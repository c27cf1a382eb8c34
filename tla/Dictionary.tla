------------------------------ MODULE Dictionary ------------------------------
(***************************************************************************)
(* The dictionary of one user: terms that hold everywhere (no project) and *)
(* terms of one project, which override them.  A term is unique by kind    *)
(* and name within its scope: two partial unique indexes.                  *)
(***************************************************************************)
EXTENDS RowRequests

CONSTANT Kinds

EntryRow == [table : {"entries"}, project : Ids \cup {None}, kind : Kinds,
             name : Names, text : Texts]

NewEntry(scope, kind, name, text) ==
  [table |-> "entries", project |-> scope, kind |-> kind,
   name |-> name, text |-> text]

\* The kind and the scope of an entry are never changed.
EntryChange == [name : Names \cup {None}, text : Texts \cup {None}]

GlobalEntryCreate(q) ==
  \E kind \in Kinds, name \in Names, text \in Texts :
    Insert(q, NewEntry(None, kind, name, text))

\* Nothing asks before for the project of the route.
ProjectEntryCreate(q) ==
  \E p \in Ids, kind \in Kinds, name \in Names, text \in Texts :
    Insert(q, NewEntry(p, kind, name, text))

EntryFindToUpdate(q) ==
  \E id \in Ids, change \in EntryChange :
    Find(q, "update", "entries", id, Assigned(table[id], change, None),
         "EntryNotFound")

EntryFindToDelete(q) ==
  \E id \in Ids : Find(q, "delete", "entries", id, None, "EntryNotFound")

EntrySelect(q) == On(q, "entries") /\ Select(q)

EntryUpdate(q) == On(q, "entries") /\ Update(q, "written")

EntryDelete(q) == On(q, "entries") /\ Delete(q)

EntryDeleted(q) ==
  /\ On(q, "entries") /\ args[q].op = "delete"
  /\ Goto(q, "written", "flushed")
  /\ UNCHANGED <<table, args, outcome>>

\* Faulty variant: no foreign key.
FaultyNoForeignKey(q) == On(q, "entries") /\ Enter(q, "NameAlreadyExists")

\* The project of a new entry is checked and locked with the INSERT; a delete
\* of it that is not committed is waited for.
ScopeHeld(q) ==
  \E r \in Requests \ {q} :
    args[r].op = "delete" /\ Stored(q).project \in Held(r)

ScopeExists(q) == Stored(q).project \in RowsOf("projects") \cup {None}

\* create() takes every IntegrityError for a name in use, the foreign key's too.
EntryEnter(q) ==
  /\ On(q, "entries")
  /\ \/ args[q].op = "update" /\ Enter(q, "NameAlreadyExists")
     \/ /\ args[q].op = "create" /\ ScopeExists(q) /\ ~ScopeHeld(q)
        /\ Enter(q, "NameAlreadyExists")
     \/ /\ args[q].op = "create" /\ ~ScopeExists(q) /\ pc[q] = "written"
        /\ End(q, "NameAlreadyExists")
        /\ UNCHANGED table

EntryStep(q) ==
  \/ GlobalEntryCreate(q) \/ ProjectEntryCreate(q)
  \/ EntryFindToUpdate(q) \/ EntryFindToDelete(q)
  \/ EntrySelect(q) \/ EntryUpdate(q) \/ EntryEnter(q)
  \/ EntryDelete(q) \/ EntryDeleted(q)

-------------------------------------------------------------------------------
(* list_merged(): what a project sees.                                     *)

Scope(p) == {id \in RowsOf("entries") : table[id].project = p}
Term(id) == <<table[id].kind, table[id].name>>

\* Faulty variant: the project hides the global terms all together.
FaultyMerged(p) == IF Scope(p) # {} THEN Scope(p) ELSE Scope(None)

Merged(p) ==
  Scope(p) \cup {id \in Scope(None) : Term(id) \notin {Term(e) : e \in Scope(p)}}
=============================================================================
