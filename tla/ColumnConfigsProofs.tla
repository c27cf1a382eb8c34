-------------------------- MODULE ColumnConfigsProofs --------------------------
(***************************************************************************)
(* Proofs about ColumnConfigs, for every set of requests, columns and      *)
(* lists of columns.                                                       *)
(***************************************************************************)
EXTENDS ColumnConfigs, TLAPS

\* A written or assigned row is a row.
LEMMA WrittenType ==
  ASSUME NEW row \in Row, NEW selected \in Row, NEW entity \in Row
  PROVE  Written(row, selected, entity) \in Row
  BY DEF Written, Row

LEMMA AssignedType ==
  ASSUME NEW row \in Row, NEW change \in Change
  PROVE  Assigned(row, change, None) \in Row
  BY NoneAssumption DEF Assigned, Row, Change

\* "No value" is not a row, so a written row is there.
LEMMA NoneIsNoRow == None \notin Row
  BY NoneRowAssumption

\* The committed rows, one by one.
LEMMA PresentRows ==
  /\ Present \subseteq Ids
  /\ \A q \in Requests, n \in Columns :
       <<q, n>> \in Present <=> table[q][n] # None
  BY DEF Present, Ids, Committed

LEMMA PresentRowsNext ==
  /\ Present' \subseteq Ids
  /\ \A q \in Requests, n \in Columns :
       <<q, n>> \in Present' <=> table'[q][n] # None
  BY DEF Present, Ids, Committed

\* What each commit does to the set of committed rows.
LEMMA PutCommitRows ==
  ASSUME TypeOK, NEW q \in Requests, PutCommit(q)
  PROVE  \A r \in Requests, n \in Columns :
           <<r, n>> \in Present' <=>
             \/ <<r, n>> \in Present /\ <<r, n>> \notin args[q].doomed
             \/ r = q /\ n \in Names(args[q].list) /\ <<r, n>> \notin args[q].doomed
<1>1. NewRow # None
  <2>1. NewRow \in Row
    BY DEF NewRow, Row
  <2>. QED BY <2>1, NoneIsNoRow
<1>2. SUFFICES ASSUME NEW r \in Requests, NEW n \in Columns
      PROVE  <<r, n>> \in Present' <=>
               \/ <<r, n>> \in Present /\ <<r, n>> \notin args[q].doomed
               \/ r = q /\ n \in Names(args[q].list) /\ <<r, n>> \notin args[q].doomed
  OBVIOUS
<1>3. table'[r][n] = IF <<r, n>> \in args[q].doomed THEN None
                     ELSE IF r = q /\ n \in Names(args[q].list) THEN NewRow
                     ELSE table[r][n]
  BY DEF PutCommit
<1>4. (<<r, n>> \in Present <=> table[r][n] # None)
      /\ (<<r, n>> \in Present' <=> table'[r][n] # None)
  BY PresentRows, PresentRowsNext
<1>. QED
  BY <1>1, <1>3, <1>4

LEMMA PatchCommitRows ==
  ASSUME TypeOK, ArgsOK, PatchesHoldTheirRow, NEW q \in Requests, PatchCommit(q)
  PROVE  Present' = Present
<1>. DEFINE r == args[q].id[1]
            n == args[q].id[2]
            row == Written(table[r][n], args[q].selected, args[q].entity)
<1>1. args[q].id \in Present /\ r \in Requests /\ n \in Columns
  BY PresentRows DEF PatchesHoldTheirRow, Patching, PatchCommit, Ids
<1>2. table[r][n] \in Row
  BY <1>1 DEF Present, Committed, TypeOK
<1>3. args[q].selected \in Row /\ args[q].entity \in Row
  BY DEF ArgsOK, Patching, PatchCommit, TypeOK, Args
<1>4. row \in Row
  BY <1>2, <1>3, WrittenType
<1>5. table' = [table EXCEPT ![r][n] = row]
  BY DEF PatchCommit
<1>. HIDE DEF row, r, n
<1>6. ASSUME NEW s \in Requests, NEW m \in Columns
      PROVE  table'[s][m] # None <=> table[s][m] # None
  <2>1. CASE s = r /\ m = n
    BY <1>1, <1>2, <1>4, <1>5, <2>1, NoneIsNoRow DEF TypeOK
  <2>2. CASE ~(s = r /\ m = n)
    BY <1>1, <1>5, <2>2 DEF TypeOK
  <2>. QED BY <2>1, <2>2
<1>7. \A id \in Ids : id \in Present' <=> id \in Present
  BY <1>6, PresentRows, PresentRowsNext DEF Ids
<1>. QED
  BY <1>7, PresentRows, PresentRowsNext

-------------------------------------------------------------------------------
(* Type correctness                                                        *)

\* The types of a request's variables.
ReqTypeOK ==
  /\ pc \in [Requests -> Places]
  /\ args \in [Requests -> Args]
  /\ outcome \in [Requests -> Outcomes \cup {None}]

LEMMA ReqType ==
  /\ TypeOK => ReqTypeOK /\ exists \in BOOLEAN
               /\ table \in [Requests -> [Columns -> Row \cup {None}]]
               /\ overlapped \in [Requests -> BOOLEAN]
  /\ ReqTypeOK' /\ exists' \in BOOLEAN /\ overlapped' \in [Requests -> BOOLEAN]
     /\ table' \in [Requests -> [Columns -> Row \cup {None}]] => TypeOK'
  BY DEF TypeOK, ReqTypeOK

LEMMA EndType ==
  ASSUME ReqTypeOK, NEW q \in Requests, NEW o \in Outcomes, End(q, o)
  PROVE  ReqTypeOK'
<1>. DEFINE a == [NoArgs EXCEPT !.list = args[q].list]
<1>1. args[q].list \in Seq(Columns)
  BY DEF ReqTypeOK, Args
<1>2. a \in Args
  BY <1>1 DEF NoArgs, Args
<1>3. args' = [args EXCEPT ![q] = a]
  BY DEF End
<1>. QED
  BY <1>2, <1>3 DEF ReqTypeOK, End, Places

LEMMA GotoType ==
  ASSUME ReqTypeOK, NEW q \in Requests, NEW a \in Args, NEW from, NEW to \in Places,
         Goto(q, from, to), args' = [args EXCEPT ![q] = a], UNCHANGED outcome
  PROVE  ReqTypeOK'
  BY DEF ReqTypeOK, Goto

\* Every step keeps the types.
LEMMA TypeStep ==
  ASSUME TypeOK, ArgsOK, PatchesHoldTheirRow, [Next]_vars
  PROVE  TypeOK'
<1>1. ASSUME NEW q \in Requests, NEW list \in Lists,
             PutFind(q, list)
      PROVE  TypeOK'
  <2>1. CASE exists
    <3>. DEFINE a == [args[q] EXCEPT !.list = list]
    <3>0. args[q] \in Args
      BY ReqType DEF ReqTypeOK
    <3>1. a \in Args
      BY <3>0, ListsAssumption DEF Args
    <3>2. Goto(q, "new", "found") /\ args' = [args EXCEPT ![q] = a] /\ UNCHANGED outcome
      BY <1>1, <2>1 DEF PutFind
    <3>. HIDE DEF a
    <3>. QED
      BY <1>1, <3>1, <3>2, GotoType, ReqType DEF PutFind, Places
  <2>2. CASE ~exists
    <3>1. End(q, "ProjectNotFound")
      BY <1>1, <2>2 DEF PutFind
    <3>. QED
      BY <1>1, <3>1, EndType, ReqType DEF PutFind, Outcomes
  <2>. QED BY <2>1, <2>2
<1>2. ASSUME NEW q \in Requests, PutDelete(q) PROVE TypeOK'
  <2>. DEFINE a == [args[q] EXCEPT !.seen = Present]
  <2>0. args[q] \in Args
    BY ReqType DEF ReqTypeOK
  <2>1. a \in Args
    BY <2>0, PresentRows DEF Args
  <2>2. Goto(q, "found", "deleting") /\ args' = [args EXCEPT ![q] = a] /\ UNCHANGED outcome
    BY <1>2 DEF PutDelete
  <2>. HIDE DEF a
  <2>. QED
    BY <1>2, <2>1, <2>2, GotoType, ReqType DEF PutDelete, Places
<1>3. ASSUME NEW q \in Requests, PutDeleteEnds(q) PROVE TypeOK'
  <2>. DEFINE s == args[q].seen \cap Present
  <2>3. s \subseteq Ids
    BY PresentRows
  <2>. HIDE DEF s
  <2>. DEFINE a == [args[q] EXCEPT !.doomed = s, !.seen = {}]
  <2>0. args[q] \in Args
    BY ReqType DEF ReqTypeOK
  <2>1. a \in Args
    BY <2>0, <2>3 DEF Args
  <2>2. Goto(q, "deleting", "inserting") /\ args' = [args EXCEPT ![q] = a] /\ UNCHANGED outcome
    BY <1>3 DEF PutDeleteEnds, s
  <2>. HIDE DEF a
  <2>. QED
    BY <1>3, <2>1, <2>2, GotoType, ReqType DEF PutDeleteEnds, Places
<1>4. ASSUME NEW q \in Requests, PutInsert(q) PROVE TypeOK'
  <2>. DEFINE a == [args[q] EXCEPT !.next = @ + 1]
  <2>0. args[q] \in Args /\ args[q].next + 1 \in Nat \ {0}
    BY ReqType DEF ReqTypeOK, Args
  <2>1. a \in Args
    BY <2>0 DEF Args
  <2>2. args' = [args EXCEPT ![q] = a]
    BY <1>4 DEF PutInsert
  <2>. HIDE DEF a
  <2>3. ReqTypeOK'
    BY <1>4, <2>1, <2>2, ReqType DEF PutInsert, ReqTypeOK
  <2>. QED
    BY <1>4, <2>3, ReqType DEF PutInsert
<1>5. ASSUME NEW q \in Requests, PutConflicts(q) PROVE TypeOK'
  <2>1. End(q, "NameTaken") \/ End(q, "ForeignKey")
    BY <1>5 DEF PutConflicts
  <2>. QED
    BY <1>5, <2>1, EndType, ReqType DEF PutConflicts, Outcomes
<1>6. ASSUME NEW q \in Requests, PutDeadlocks(q) PROVE TypeOK'
  <2>1. End(q, "Failure")
    BY <1>6 DEF PutDeadlocks
  <2>. QED
    BY <1>6, <2>1, EndType, ReqType DEF PutDeadlocks, Outcomes
<1>7. ASSUME NEW q \in Requests, PutAnswer(q) PROVE TypeOK'
  <2>1. ReqTypeOK'
    BY <1>7, ReqType DEF PutAnswer, ReqTypeOK, Goto, Places, Outcomes
  <2>. QED
    BY <1>7, <2>1, ReqType DEF PutAnswer
<1>8. ASSUME NEW q \in Requests, PutCommit(q) PROVE TypeOK'
  <2>1. table' \in [Requests -> [Columns -> Row \cup {None}]]
    BY <1>8, ReqType DEF PutCommit, NewRow, Row
  <2>2. overlapped' \in [Requests -> BOOLEAN]
    BY <1>8, ReqType DEF PutCommit, Replacing, Inserting
  <2>3. End(q, "ok") /\ UNCHANGED exists
    BY <1>8 DEF PutCommit
  <2>. QED
    BY <2>1, <2>2, <2>3, EndType, ReqType DEF Outcomes
<1>9. ASSUME NEW q \in Requests, NEW id \in Ids, NEW change \in Change,
             PatchFind(q, id, change)
      PROVE  TypeOK'
  <2>1. CASE id \in Present
    <3>0. Committed(id) \in Row
      BY <2>1, <1>9, ReqType DEF Present, Committed, Ids
    <3>. DEFINE e == Assigned(Committed(id), change, None)
    <3>3. e \in Row
      BY <3>0, AssignedType
    <3>. DEFINE a == [args[q] EXCEPT !.id = id, !.change = change, !.entity = e]
    <3>1. a \in Args
      BY <3>3, ReqType DEF ReqTypeOK, Args
    <3>2. Goto(q, "new", "read") /\ args' = [args EXCEPT ![q] = a] /\ UNCHANGED outcome
      BY <1>9, <2>1 DEF PatchFind
    <3>. HIDE DEF a
    <3>. QED
      BY <1>9, <3>1, <3>2, GotoType, ReqType DEF PatchFind, Places
  <2>2. CASE id \notin Present
    <3>1. End(q, "ColumnConfigNotFound")
      BY <1>9, <2>2 DEF PatchFind
    <3>. QED
      BY <1>9, <3>1, EndType, ReqType DEF PatchFind, Outcomes
  <2>. QED BY <2>1, <2>2
<1>10. ASSUME NEW q \in Requests, PatchSelect(q) PROVE TypeOK'
  <2>1. CASE args[q].id \in Present
    <3>3. Committed(args[q].id) \in Row
      BY <2>1, ReqType DEF Present, Committed, Ids
    <3>. DEFINE a == [args[q] EXCEPT !.selected = Committed(args[q].id)]
    <3>0. args[q] \in Args
      BY ReqType DEF ReqTypeOK
    <3>1. a \in Args
      BY <3>0, <3>3 DEF Args
    <3>2. Goto(q, "read", "selected") /\ args' = [args EXCEPT ![q] = a] /\ UNCHANGED outcome
      BY <1>10, <2>1 DEF PatchSelect
    <3>. HIDE DEF a
    <3>. QED
      BY <1>10, <3>1, <3>2, GotoType, ReqType DEF PatchSelect, Places
  <2>2. CASE args[q].id \notin Present
    <3>1. End(q, "Failure")
      BY <1>10, <2>2 DEF PatchSelect
    <3>. QED
      BY <1>10, <3>1, EndType, ReqType DEF PatchSelect, Outcomes
  <2>. QED BY <2>1, <2>2
<1>11. ASSUME NEW q \in Requests, PatchFlush(q) PROVE TypeOK'
  <2>1. CASE args[q].id \in Present
    <3>1. ReqTypeOK'
      BY <1>11, <2>1, ReqType DEF PatchFlush, ReqTypeOK, Goto, Places
    <3>. QED
      BY <1>11, <3>1, ReqType DEF PatchFlush
  <2>2. CASE args[q].id \notin Present
    <3>1. End(q, "Failure")
      BY <1>11, <2>2 DEF PatchFlush
    <3>. QED
      BY <1>11, <3>1, EndType, ReqType DEF PatchFlush, Outcomes
  <2>. QED BY <2>1, <2>2
<1>12. ASSUME NEW q \in Requests, PatchAnswer(q) PROVE TypeOK'
  <2>1. ReqTypeOK'
    BY <1>12, ReqType DEF PatchAnswer, ReqTypeOK, Goto, Places, Outcomes
  <2>. QED
    BY <1>12, <2>1, ReqType DEF PatchAnswer
<1>13. ASSUME NEW q \in Requests, PatchCommit(q) PROVE TypeOK'
  <2>. DEFINE r == args[q].id[1]
              n == args[q].id[2]
  <2>1. args[q].id \in Present /\ r \in Requests /\ n \in Columns
    BY <1>13, PresentRows DEF PatchesHoldTheirRow, Patching, PatchCommit, Ids
  <2>2. table[r][n] \in Row
    BY <2>1, ReqType DEF Present, Committed
  <2>3. args[q].selected \in Row /\ args[q].entity \in Row
    BY <1>13, ReqType DEF ArgsOK, Patching, PatchCommit, ReqTypeOK, Args
  <2>4. Written(table[r][n], args[q].selected, args[q].entity) \in Row
    BY <2>2, <2>3, WrittenType
  <2>5. table' \in [Requests -> [Columns -> Row \cup {None}]]
    BY <1>13, <2>1, <2>4, ReqType DEF PatchCommit
  <2>6. End(q, "ok") /\ UNCHANGED <<exists, overlapped>>
    BY <1>13 DEF PatchCommit
  <2>. QED
    BY <2>5, <2>6, EndType, ReqType DEF Outcomes
<1>14. ASSUME NEW q \in Requests, RequestFails(q) PROVE TypeOK'
  <2>1. End(q, "Failure")
    BY <1>14 DEF RequestFails
  <2>. QED
    BY <1>14, <2>1, EndType, ReqType DEF RequestFails, Outcomes
<1>15. ASSUME NEW q \in Requests, CommitFails(q) PROVE TypeOK'
  <2>1. End(q, "ok")
    BY <1>15 DEF CommitFails
  <2>. QED
    BY <1>15, <2>1, EndType, ReqType DEF CommitFails, Outcomes
<1>16. ASSUME ProjectDeleted PROVE TypeOK'
  BY <1>16 DEF ProjectDeleted, TypeOK
<1>17. CASE UNCHANGED vars
  BY <1>17 DEF TypeOK, vars
<1>. QED
  BY <1>1, <1>2, <1>3, <1>4, <1>5, <1>6, <1>7, <1>8, <1>9,
     <1>10, <1>11, <1>12, <1>13, <1>14, <1>15, <1>16, <1>17
  DEF Next, RequestStep, PutStep, PatchStep

-------------------------------------------------------------------------------
(* Kinds of steps: what a request's step does to the committed rows and to *)
(* what it has in hand.                                                    *)

Others(q) == \A r \in Requests \ {q} : pc'[r] = pc[r] /\ args'[r] = args[r]

Early == {"new", "found", "read", "selected"}

\* Nothing is held before or after.
Prepares(q) ==
  /\ pc[q] \in Early /\ pc'[q] \in Early
  /\ args'[q].seen = args[q].seen
  /\ args'[q].doomed = args[q].doomed

Answers(q) ==
  /\ \/ pc[q] = "inserting" /\ pc'[q] = "putAnswered"
     \/ pc[q] = "flushed" /\ pc'[q] = "patchAnswered"
  /\ args'[q] = args[q]

Ends(q) ==
  /\ pc'[q] = "done"
  /\ args'[q] = [NoArgs EXCEPT !.list = args[q].list]

Deletes(q) ==
  /\ pc[q] = "found" /\ pc'[q] = "deleting"
  /\ args'[q] = [args[q] EXCEPT !.seen = Present]

Dooms(q) ==
  /\ pc[q] = "deleting" /\ pc'[q] = "inserting"
  /\ \A id \in args[q].seen : Free(q, id)
  /\ args'[q] = [args[q] EXCEPT !.doomed = args[q].seen \cap Present, !.seen = {}]

Inserts(q) ==
  /\ pc[q] = "inserting" /\ pc'[q] = "inserting"
  /\ HasNext(q)
  /\ \A r \in Requests : ~WaitsFor(q, r)
  /\ ~NameTaken(q, Wanted(q))
  /\ args'[q] = [args[q] EXCEPT !.next = args[q].next + 1]

Flushes(q) ==
  /\ pc[q] = "selected" /\ pc'[q] = "flushed"
  /\ args[q].id \in Present /\ Free(q, args[q].id)
  /\ args'[q] = args[q]

Quiet(q) ==
  \/ Prepares(q) \/ Answers(q) \/ Ends(q) \/ Deletes(q) \/ Dooms(q)
  \/ Inserts(q) \/ Flushes(q)

\* The committed rows change by a PUT's commit and by the delete of the project.
Commits(q) ==
  /\ pc[q] = "putAnswered" /\ Ends(q)
  /\ \A r \in Requests, n \in Columns :
       <<r, n>> \in Present' <=>
         \/ <<r, n>> \in Present /\ <<r, n>> \notin args[q].doomed
         \/ r = q /\ n \in Names(args[q].list) /\ <<r, n>> \notin args[q].doomed

RequestKind(q) ==
  /\ pc[q] # "done"
  /\ Others(q)
  /\ pc[q] # "new" => args'[q].list = args[q].list
  /\ \/ Present' = Present /\ Quiet(q) /\ overlapped' = overlapped
     \/ Commits(q) /\ overlapped' = [r \in Requests |->
                                      overlapped[r] \/ (r # q /\ Replacing(r))]

\* A step that ends a request.
LEMMA EndKind ==
  ASSUME TypeOK, NEW q \in Requests, NEW o, End(q, o)
  PROVE  Others(q) /\ Ends(q) /\ args'[q].list = args[q].list
<1>. DEFINE a == [NoArgs EXCEPT !.list = args[q].list]
<1>1. args' = [args EXCEPT ![q] = a] /\ pc' = [pc EXCEPT ![q] = "done"]
  BY DEF End
<1>2. a.list = args[q].list
  BY DEF NoArgs
<1>. QED
  BY <1>1, <1>2 DEF TypeOK, Others, Ends

\* A step that goes on.
LEMMA GotoKind ==
  ASSUME TypeOK, NEW q \in Requests, NEW from, NEW to, Goto(q, from, to),
         NEW a, args' = [args EXCEPT ![q] = a]
  PROVE  Others(q) /\ pc[q] = from /\ pc'[q] = to /\ args'[q] = a
  BY DEF TypeOK, Goto, Others

LEMMA SameRows ==
  ASSUME UNCHANGED table PROVE Present' = Present
  BY DEF Present, Committed

\* Every step of a request is of one of these kinds.
LEMMA KindStep ==
  ASSUME TypeOK, ArgsOK, PatchesHoldTheirRow, NEW q \in Requests, RequestStep(q)
  PROVE  RequestKind(q)
<1>1. ASSUME NEW list \in Lists, PutFind(q, list)
      PROVE  RequestKind(q)
  <2>1. CASE exists
    <3>. DEFINE a == [args[q] EXCEPT !.list = list]
    <3>1. Goto(q, "new", "found") /\ args' = [args EXCEPT ![q] = a]
      BY <1>1, <2>1 DEF PutFind
    <3>. HIDE DEF a
    <3>2. Others(q) /\ pc[q] = "new" /\ pc'[q] = "found" /\ args'[q] = a
      BY <3>1, GotoKind
    <3>3. args[q] \in Args /\ UNCHANGED <<table, overlapped>>
      BY <1>1 DEF TypeOK, PutFind
    <3>. QED
      BY <1>1, <3>2, <3>3, SameRows DEF a, PutFind, RequestKind, Quiet, Prepares, Early, Args
  <2>2. CASE ~exists
    <3>1. End(q, "ProjectNotFound") /\ UNCHANGED <<table, overlapped>>
      BY <1>1, <2>2 DEF PutFind
    <3>2. pc[q] # "done"
      BY <1>1, <2>2 DEF PutFind
    <3>. QED
      BY <3>1, <3>2, EndKind, SameRows DEF RequestKind, Quiet
  <2>. QED BY <2>1, <2>2
<1>2. CASE PutDelete(q)
  <2>. DEFINE a == [args[q] EXCEPT !.seen = Present]
  <2>1. Goto(q, "found", "deleting") /\ args' = [args EXCEPT ![q] = a]
    BY <1>2 DEF PutDelete
  <2>. HIDE DEF a
  <2>2. Others(q) /\ pc[q] = "found" /\ pc'[q] = "deleting" /\ args'[q] = a
    BY <2>1, GotoKind
  <2>3. args[q] \in Args /\ UNCHANGED <<table, overlapped>>
    BY <1>2 DEF TypeOK, PutDelete
  <2>. QED
    BY <1>2, <2>2, <2>3, SameRows DEF a, PutDelete, RequestKind, Quiet, Deletes, Early, Args
<1>3. CASE PutDeleteEnds(q)
  <2>. DEFINE a == [args[q] EXCEPT !.doomed = args[q].seen \cap Present, !.seen = {}]
  <2>1. Goto(q, "deleting", "inserting") /\ args' = [args EXCEPT ![q] = a]
    BY <1>3 DEF PutDeleteEnds
  <2>. HIDE DEF a
  <2>2. Others(q) /\ pc[q] = "deleting" /\ pc'[q] = "inserting" /\ args'[q] = a
    BY <2>1, GotoKind
  <2>3. args[q] \in Args /\ UNCHANGED <<table, overlapped>>
    BY <1>3 DEF TypeOK, PutDeleteEnds
  <2>4. Dooms(q)
    BY <1>3, <2>2 DEF a, PutDeleteEnds, Dooms
  <2>5. args'[q].list = args[q].list
    BY <2>2, <2>3 DEF a, Args
  <2>. QED
    BY <2>2, <2>3, <2>4, <2>5, SameRows DEF RequestKind, Quiet
<1>4. CASE PutInsert(q)
  <2>. DEFINE a == [args[q] EXCEPT !.next = args[q].next + 1]
  <2>1. pc[q] = "inserting" /\ UNCHANGED <<pc, table, overlapped>> /\ args' = [args EXCEPT ![q] = a]
    BY <1>4 DEF PutInsert, HasNext
  <2>2. Others(q) /\ args'[q] = a
    BY <2>1 DEF TypeOK, Others
  <2>3. args[q] \in Args
    BY DEF TypeOK
  <2>. QED
    BY <1>4, <2>1, <2>2, <2>3, SameRows DEF PutInsert, RequestKind, Quiet, Inserts, Args
<1>5. CASE PutConflicts(q)
  <2>1. PICK o \in Outcomes : End(q, o)
    BY <1>5 DEF PutConflicts, Outcomes
  <2>2. pc[q] # "done" /\ UNCHANGED <<table, overlapped>>
    BY <1>5 DEF PutConflicts, HasNext
  <2>. QED
    BY <2>1, <2>2, EndKind, SameRows DEF RequestKind, Quiet
<1>6. CASE PutDeadlocks(q)
  <2>1. End(q, "Failure") /\ UNCHANGED <<table, overlapped>>
    BY <1>6 DEF PutDeadlocks
  <2>2. pc[q] # "done"
    BY <1>6 DEF PutDeadlocks, WaitsFor, HasNext
  <2>. QED
    BY <2>1, <2>2, EndKind, SameRows DEF RequestKind, Quiet
<1>7. CASE PutAnswer(q)
  <2>1. Others(q) /\ pc[q] = "inserting" /\ pc'[q] = "putAnswered" /\ args'[q] = args[q]
    BY <1>7 DEF PutAnswer, Goto, TypeOK, Others
  <2>2. UNCHANGED <<table, overlapped>>
    BY <1>7 DEF PutAnswer
  <2>. QED
    BY <1>7, <2>1, <2>2, SameRows DEF PutAnswer, RequestKind, Quiet, Answers, Early
<1>8. CASE PutCommit(q)
  <2>1. End(q, "ok") /\ pc[q] = "putAnswered"
    BY <1>8 DEF PutCommit
  <2>2. Others(q) /\ Ends(q) /\ args'[q].list = args[q].list
    BY <2>1, EndKind
  <2>3. Commits(q)
    BY <1>8, <2>1, <2>2, PutCommitRows DEF Commits
  <2>. QED
    BY <1>8, <2>1, <2>2, <2>3 DEF RequestKind, PutCommit
<1>9. ASSUME NEW id \in Ids, NEW change \in Change, PatchFind(q, id, change)
      PROVE  RequestKind(q)
  <2>1. CASE id \in Present
    <3>. DEFINE a == [args[q] EXCEPT !.id = id, !.change = change,
                                   !.entity = Assigned(Committed(id), change, None)]
    <3>1. Goto(q, "new", "read") /\ args' = [args EXCEPT ![q] = a]
      BY <1>9, <2>1 DEF PatchFind
    <3>. HIDE DEF a
    <3>2. Others(q) /\ pc[q] = "new" /\ pc'[q] = "read" /\ args'[q] = a
      BY <3>1, GotoKind
    <3>3. args[q] \in Args /\ UNCHANGED <<table, overlapped>>
      BY <1>9 DEF TypeOK, PatchFind
    <3>. QED
      BY <1>9, <3>2, <3>3, SameRows DEF a, PatchFind, RequestKind, Quiet, Prepares, Early, Args
  <2>2. CASE id \notin Present
    <3>1. End(q, "ColumnConfigNotFound") /\ UNCHANGED <<table, overlapped>>
      BY <1>9, <2>2 DEF PatchFind
    <3>2. pc[q] # "done"
      BY <1>9, <2>2 DEF PatchFind
    <3>. QED
      BY <3>1, <3>2, EndKind, SameRows DEF RequestKind, Quiet
  <2>. QED BY <2>1, <2>2
<1>10. CASE PatchSelect(q)
  <2>1. CASE args[q].id \in Present
    <3>. DEFINE a == [args[q] EXCEPT !.selected = Committed(args[q].id)]
    <3>1. Goto(q, "read", "selected") /\ args' = [args EXCEPT ![q] = a]
      BY <1>10, <2>1 DEF PatchSelect
    <3>. HIDE DEF a
    <3>2. Others(q) /\ pc[q] = "read" /\ pc'[q] = "selected" /\ args'[q] = a
      BY <3>1, GotoKind
    <3>3. args[q] \in Args /\ UNCHANGED <<table, overlapped>>
      BY <1>10 DEF TypeOK, PatchSelect
    <3>. QED
      BY <1>10, <3>2, <3>3, SameRows DEF a, PatchSelect, RequestKind, Quiet, Prepares, Early, Args
  <2>2. CASE args[q].id \notin Present
    <3>1. End(q, "Failure") /\ UNCHANGED <<table, overlapped>>
      BY <1>10, <2>2 DEF PatchSelect
    <3>2. pc[q] # "done"
      BY <1>10, <2>2 DEF PatchSelect
    <3>. QED
      BY <3>1, <3>2, EndKind, SameRows DEF RequestKind, Quiet
  <2>. QED BY <2>1, <2>2
<1>11. CASE PatchFlush(q)
  <2>1. CASE args[q].id \in Present
    <3>1. Others(q) /\ pc[q] = "selected" /\ pc'[q] = "flushed" /\ args'[q] = args[q]
      BY <1>11, <2>1 DEF PatchFlush, Goto, TypeOK, Others
    <3>2. UNCHANGED <<table, overlapped>>
      BY <1>11 DEF PatchFlush
    <3>. QED
      BY <1>11, <3>1, <3>2, SameRows, <2>1 DEF PatchFlush, RequestKind, Quiet, Flushes, Early
  <2>2. CASE args[q].id \notin Present
    <3>1. End(q, "Failure") /\ UNCHANGED <<table, overlapped>>
      BY <1>11, <2>2 DEF PatchFlush
    <3>2. pc[q] # "done"
      BY <1>11, <2>2 DEF PatchFlush
    <3>. QED
      BY <3>1, <3>2, EndKind, SameRows DEF RequestKind, Quiet
  <2>. QED BY <2>1, <2>2
<1>12. CASE PatchAnswer(q)
  <2>1. Others(q) /\ pc[q] = "flushed" /\ pc'[q] = "patchAnswered" /\ args'[q] = args[q]
    BY <1>12 DEF PatchAnswer, Goto, TypeOK, Others
  <2>2. UNCHANGED <<table, overlapped>>
    BY <1>12 DEF PatchAnswer
  <2>. QED
    BY <1>12, <2>1, <2>2, SameRows DEF PatchAnswer, RequestKind, Quiet, Answers, Early
<1>13. CASE PatchCommit(q)
  <2>1. End(q, "ok") /\ pc[q] = "patchAnswered" /\ UNCHANGED overlapped
    BY <1>13 DEF PatchCommit
  <2>2. Present' = Present
    BY <1>13, PatchCommitRows
  <2>. QED
    BY <2>1, <2>2, EndKind DEF RequestKind, Quiet
<1>14. CASE RequestFails(q)
  <2>1. End(q, "Failure") /\ UNCHANGED <<table, overlapped>>
    BY <1>14 DEF RequestFails
  <2>2. pc[q] # "done"
    BY <1>14 DEF RequestFails
  <2>. QED
    BY <2>1, <2>2, EndKind, SameRows DEF RequestKind, Quiet
<1>15. CASE CommitFails(q)
  <2>1. End(q, "ok") /\ UNCHANGED <<table, overlapped>>
    BY <1>15 DEF CommitFails
  <2>2. pc[q] # "done"
    BY <1>15 DEF CommitFails
  <2>. QED
    BY <2>1, <2>2, EndKind, SameRows DEF RequestKind, Quiet
<1>. QED
  BY <1>1, <1>2, <1>3, <1>4, <1>5, <1>6, <1>7, <1>8, <1>9,
     <1>10, <1>11, <1>12, <1>13, <1>14, <1>15
  DEF RequestStep, PutStep, PatchStep

LEMMA NextKinds ==
  ASSUME TypeOK, ArgsOK, PatchesHoldTheirRow, [Next]_vars
  PROVE  \/ \E q \in Requests : RequestKind(q)
         \/ ProjectDeleted
         \/ UNCHANGED vars
  BY KindStep DEF Next

-------------------------------------------------------------------------------
(* What requests have in hand.                                             *)

\* What a request at place p may have in hand.
HandOK(p, a) ==
  /\ p \in {"read", "selected", "flushed", "patchAnswered"} =>
       a.id \in Ids /\ a.entity # None
  /\ p \in {"selected", "flushed", "patchAnswered"} => a.selected # None
  /\ p \in {"new", "found", "deleting"} => a.next = 1
  /\ p \in {"inserting", "putAnswered"} => a.next <= Len(a.list) + 1
  /\ p = "putAnswered" => a.next = Len(a.list) + 1

LEMMA HandStep ==
  ASSUME ArgsOK, NEW q \in Requests
  PROVE  /\ HandOK(pc[q], args[q])
         /\ Others(q) /\ HandOK(pc'[q], args'[q]) => ArgsOK'
<1>1. \A r \in Requests : HandOK(pc[r], args[r])
  BY DEF ArgsOK, HandOK, Patching, Inserting
<1>2. (\A r \in Requests : HandOK(pc'[r], args'[r])) => ArgsOK'
  BY DEF ArgsOK, HandOK, Patching, Inserting
<1>. QED
  BY <1>1, <1>2 DEF Others

\* Every step keeps what requests have in hand.
LEMMA ArgsStep ==
  ASSUME TypeOK, ArgsOK, [Next]_vars
  PROVE  ArgsOK'
<1>1. ASSUME NEW q \in Requests, NEW list \in Lists,
             PutFind(q, list)
      PROVE  ArgsOK'
  <2>1. args[q] \in Args
    BY DEF TypeOK
  <2>2. HandOK(pc[q], args[q])
    BY HandStep
  <2>3. CASE exists
    <3>. DEFINE a == [args[q] EXCEPT !.list = list]
    <3>1. Goto(q, "new", "found") /\ args' = [args EXCEPT ![q] = a]
      BY <1>1, <2>3 DEF PutFind
    <3>2. a.next = args[q].next
      BY <2>1, <2>3 DEF Args
    <3>. HIDE DEF a
    <3>3. Others(q) /\ pc[q] = "new" /\ pc'[q] = "found" /\ args'[q] = a
      BY <3>1, GotoKind
    <3>. QED
      BY <3>2, <3>3, <2>2, HandStep DEF HandOK
  <2>4. CASE ~exists
    <3>1. End(q, "ProjectNotFound")
      BY <1>1, <2>4 DEF PutFind
    <3>2. Others(q) /\ pc'[q] = "done"
      BY <3>1, EndKind DEF Ends
    <3>. QED
      BY <3>2, HandStep DEF HandOK
  <2>. QED BY <2>3, <2>4
<1>2. ASSUME NEW q \in Requests, PutDelete(q) PROVE ArgsOK'
  <2>1. args[q] \in Args
    BY DEF TypeOK
  <2>2. HandOK(pc[q], args[q])
    BY HandStep
  <2>3. ArgsOK'
    <3>. DEFINE a == [args[q] EXCEPT !.seen = Present]
    <3>1. Goto(q, "found", "deleting") /\ args' = [args EXCEPT ![q] = a]
      BY <1>2 DEF PutDelete
    <3>2. a.next = args[q].next
      BY <2>1 DEF Args
    <3>. HIDE DEF a
    <3>3. Others(q) /\ pc[q] = "found" /\ pc'[q] = "deleting" /\ args'[q] = a
      BY <3>1, GotoKind
    <3>. QED
      BY <3>2, <3>3, <2>2, HandStep DEF HandOK
  <2>. QED BY <2>3
<1>3. ASSUME NEW q \in Requests, PutDeleteEnds(q) PROVE ArgsOK'
  <2>1. args[q] \in Args
    BY DEF TypeOK
  <2>2. HandOK(pc[q], args[q])
    BY HandStep
  <2>3. ArgsOK'
    <3>. DEFINE s == args[q].seen \cap Present
                a == [args[q] EXCEPT !.doomed = s, !.seen = {}]
    <3>1. Goto(q, "deleting", "inserting") /\ args' = [args EXCEPT ![q] = a]
      BY <1>3 DEF PutDeleteEnds
    <3>. HIDE DEF s
    <3>2. a.next = args[q].next /\ a.list = args[q].list /\ Len(args[q].list) \in Nat
      BY <2>1 DEF Args
    <3>. HIDE DEF a
    <3>3. Others(q) /\ pc[q] = "deleting" /\ pc'[q] = "inserting" /\ args'[q] = a
      BY <3>1, GotoKind
    <3>. QED
      BY <3>2, <3>3, <2>2, HandStep DEF HandOK
  <2>. QED BY <2>3
<1>4. ASSUME NEW q \in Requests, PutInsert(q) PROVE ArgsOK'
  <2>1. args[q] \in Args
    BY DEF TypeOK
  <2>2. HandOK(pc[q], args[q])
    BY HandStep
  <2>3. ArgsOK'
    <3>. DEFINE a == [args[q] EXCEPT !.next = args[q].next + 1]
    <3>1. UNCHANGED pc /\ args' = [args EXCEPT ![q] = a] /\ HasNext(q)
      BY <1>4 DEF PutInsert
    <3>2. a.next = args[q].next + 1 /\ a.list = args[q].list
          /\ args[q].next \in Nat /\ Len(args[q].list) \in Nat
      BY <2>1 DEF Args
    <3>. HIDE DEF a
    <3>3. Others(q) /\ pc'[q] = "inserting" /\ args'[q] = a
      BY <3>1 DEF TypeOK, Others, HasNext
    <3>. QED
      BY <3>1, <3>2, <3>3, HandStep DEF HandOK, HasNext
  <2>. QED BY <2>3
<1>5. ASSUME NEW q \in Requests, PutConflicts(q) PROVE ArgsOK'
  <2>1. args[q] \in Args
    BY DEF TypeOK
  <2>2. HandOK(pc[q], args[q])
    BY HandStep
  <2>3. ArgsOK'
    <3>1. PICK o \in Outcomes : End(q, o)
      BY <1>5 DEF PutConflicts, Outcomes
    <3>2. Others(q) /\ pc'[q] = "done"
      BY <3>1, EndKind DEF Ends
    <3>. QED
      BY <3>2, HandStep DEF HandOK
  <2>. QED BY <2>3
<1>6. ASSUME NEW q \in Requests, PutDeadlocks(q) PROVE ArgsOK'
  <2>1. args[q] \in Args
    BY DEF TypeOK
  <2>2. HandOK(pc[q], args[q])
    BY HandStep
  <2>3. ArgsOK'
    <3>1. End(q, "Failure")
      BY <1>6 DEF PutDeadlocks
    <3>2. Others(q) /\ pc'[q] = "done"
      BY <3>1, EndKind DEF Ends
    <3>. QED
      BY <3>2, HandStep DEF HandOK
  <2>. QED BY <2>3
<1>7. ASSUME NEW q \in Requests, PutAnswer(q) PROVE ArgsOK'
  <2>1. args[q] \in Args
    BY DEF TypeOK
  <2>2. HandOK(pc[q], args[q])
    BY HandStep
  <2>3. ArgsOK'
    <3>1. Others(q) /\ pc[q] = "inserting" /\ pc'[q] = "putAnswered" /\ args'[q] = args[q]
      BY <1>7 DEF PutAnswer, Goto, TypeOK, Others
    <3>2. args[q].next \in Nat /\ Len(args[q].list) \in Nat
      BY <2>1 DEF Args
    <3>. QED
      BY <1>7, <3>1, <3>2, <2>1, <2>2, HandStep DEF HandOK, PutAnswer, HasNext
  <2>. QED BY <2>3
<1>8. ASSUME NEW q \in Requests, PutCommit(q) PROVE ArgsOK'
  <2>1. args[q] \in Args
    BY DEF TypeOK
  <2>2. HandOK(pc[q], args[q])
    BY HandStep
  <2>3. ArgsOK'
    <3>1. End(q, "ok")
      BY <1>8 DEF PutCommit
    <3>2. Others(q) /\ pc'[q] = "done"
      BY <3>1, EndKind DEF Ends
    <3>. QED
      BY <3>2, HandStep DEF HandOK
  <2>. QED BY <2>3
<1>9. ASSUME NEW q \in Requests, NEW id \in Ids, NEW change \in Change,
             PatchFind(q, id, change)
      PROVE  ArgsOK'
  <2>1. args[q] \in Args
    BY DEF TypeOK
  <2>2. HandOK(pc[q], args[q])
    BY HandStep
  <2>3. CASE id \in Present
    <3>1. Committed(id) \in Row
      BY <2>3 DEF TypeOK, Ids, Committed, Present
    <3>. DEFINE e == Assigned(Committed(id), change, None)
                a == [args[q] EXCEPT !.id = id, !.change = change, !.entity = e]
    <3>2. e # None
      BY <3>1, AssignedType, NoneIsNoRow
    <3>3. Goto(q, "new", "read") /\ args' = [args EXCEPT ![q] = a]
      BY <1>9, <2>3 DEF PatchFind
    <3>. HIDE DEF e
    <3>4. a.id = id /\ a.entity = e
      BY <2>1 DEF Args
    <3>. HIDE DEF a
    <3>5. Others(q) /\ pc'[q] = "read" /\ args'[q] = a
      BY <3>3, GotoKind
    <3>. QED
      BY <3>2, <3>4, <3>5, HandStep DEF HandOK
  <2>4. CASE id \notin Present
    <3>1. End(q, "ColumnConfigNotFound")
      BY <1>9, <2>4 DEF PatchFind
    <3>2. Others(q) /\ pc'[q] = "done"
      BY <3>1, EndKind DEF Ends
    <3>. QED
      BY <3>2, HandStep DEF HandOK
  <2>. QED BY <2>3, <2>4
<1>10. ASSUME NEW q \in Requests, PatchSelect(q) PROVE ArgsOK'
  <2>1. args[q] \in Args
    BY DEF TypeOK
  <2>2. HandOK(pc[q], args[q])
    BY HandStep
  <2>3. CASE args[q].id \in Present
    <3>. DEFINE a == [args[q] EXCEPT !.selected = Committed(args[q].id)]
    <3>1. Goto(q, "read", "selected") /\ args' = [args EXCEPT ![q] = a]
      BY <1>10, <2>3 DEF PatchSelect
    <3>2. a.id = args[q].id /\ a.entity = args[q].entity /\ a.selected # None
      BY <2>1, <2>3 DEF Args, Present
    <3>. HIDE DEF a
    <3>3. Others(q) /\ pc[q] = "read" /\ pc'[q] = "selected" /\ args'[q] = a
      BY <3>1, GotoKind
    <3>. QED
      BY <3>2, <3>3, <2>2, HandStep DEF HandOK
  <2>4. CASE args[q].id \notin Present
    <3>1. End(q, "Failure")
      BY <1>10, <2>4 DEF PatchSelect
    <3>2. Others(q) /\ pc'[q] = "done"
      BY <3>1, EndKind DEF Ends
    <3>. QED
      BY <3>2, HandStep DEF HandOK
  <2>. QED BY <2>3, <2>4
<1>11. ASSUME NEW q \in Requests, PatchFlush(q) PROVE ArgsOK'
  <2>1. args[q] \in Args
    BY DEF TypeOK
  <2>2. HandOK(pc[q], args[q])
    BY HandStep
  <2>3. CASE args[q].id \in Present
    <3>1. Others(q) /\ pc[q] = "selected" /\ pc'[q] = "flushed" /\ args'[q] = args[q]
      BY <1>11, <2>3 DEF PatchFlush, Goto, TypeOK, Others
    <3>2. args[q].next \in Nat
      BY <2>1 DEF Args
    <3>. QED
      BY <1>11, <3>1, <3>2, <2>1, <2>2, HandStep DEF HandOK
  <2>4. CASE args[q].id \notin Present
    <3>1. End(q, "Failure")
      BY <1>11, <2>4 DEF PatchFlush
    <3>2. Others(q) /\ pc'[q] = "done"
      BY <3>1, EndKind DEF Ends
    <3>. QED
      BY <3>2, HandStep DEF HandOK
  <2>. QED BY <2>3, <2>4
<1>12. ASSUME NEW q \in Requests, PatchAnswer(q) PROVE ArgsOK'
  <2>1. args[q] \in Args
    BY DEF TypeOK
  <2>2. HandOK(pc[q], args[q])
    BY HandStep
  <2>3. ArgsOK'
    <3>1. Others(q) /\ pc[q] = "flushed" /\ pc'[q] = "patchAnswered" /\ args'[q] = args[q]
      BY <1>12 DEF PatchAnswer, Goto, TypeOK, Others
    <3>2. args[q].next \in Nat
      BY <2>1 DEF Args
    <3>. QED
      BY <1>12, <3>1, <3>2, <2>1, <2>2, HandStep DEF HandOK
  <2>. QED BY <2>3
<1>13. ASSUME NEW q \in Requests, PatchCommit(q) PROVE ArgsOK'
  <2>1. args[q] \in Args
    BY DEF TypeOK
  <2>2. HandOK(pc[q], args[q])
    BY HandStep
  <2>3. ArgsOK'
    <3>1. End(q, "ok")
      BY <1>13 DEF PatchCommit
    <3>2. Others(q) /\ pc'[q] = "done"
      BY <3>1, EndKind DEF Ends
    <3>. QED
      BY <3>2, HandStep DEF HandOK
  <2>. QED BY <2>3
<1>14. ASSUME NEW q \in Requests, RequestFails(q) PROVE ArgsOK'
  <2>1. args[q] \in Args
    BY DEF TypeOK
  <2>2. HandOK(pc[q], args[q])
    BY HandStep
  <2>3. ArgsOK'
    <3>1. End(q, "Failure")
      BY <1>14 DEF RequestFails
    <3>2. Others(q) /\ pc'[q] = "done"
      BY <3>1, EndKind DEF Ends
    <3>. QED
      BY <3>2, HandStep DEF HandOK
  <2>. QED BY <2>3
<1>15. ASSUME NEW q \in Requests, CommitFails(q) PROVE ArgsOK'
  <2>1. args[q] \in Args
    BY DEF TypeOK
  <2>2. HandOK(pc[q], args[q])
    BY HandStep
  <2>3. ArgsOK'
    <3>1. End(q, "ok")
      BY <1>15 DEF CommitFails
    <3>2. Others(q) /\ pc'[q] = "done"
      BY <3>1, EndKind DEF Ends
    <3>. QED
      BY <3>2, HandStep DEF HandOK
  <2>. QED BY <2>3
<1>16. ASSUME ProjectDeleted PROVE ArgsOK'
  BY <1>16 DEF ProjectDeleted, ArgsOK, Patching, Inserting
<1>17. CASE UNCHANGED vars
  BY <1>17 DEF ArgsOK, Patching, Inserting, vars
<1>. QED
  BY <1>1, <1>2, <1>3, <1>4, <1>5, <1>6, <1>7, <1>8, <1>9,
     <1>10, <1>11, <1>12, <1>13, <1>14, <1>15, <1>16, <1>17
  DEF Next, RequestStep, PutStep, PatchStep

-------------------------------------------------------------------------------
(* Commits: the table shows whole PUTs, of requests that are over.         *)

\* Rows are pairs of a request and a column.
LEMMA IdPairs ==
  /\ \A id \in Ids : id[1] \in Requests /\ id[2] \in Columns /\ id = <<id[1], id[2]>>
  /\ \A q \in Requests, n \in Columns :
       <<q, n>> \in Ids /\ <<q, n>>[1] = q /\ <<q, n>>[2] = n
  BY DEF Ids

\* The delete of the project takes all rows.
LEMMA DeletedRows ==
  ASSUME ProjectDeleted
  PROVE  Present' = {} /\ UNCHANGED <<pc, args>>
  BY PresentRowsNext, IdPairs DEF ProjectDeleted

\* Who commits a row is over, and stays so.
LEMMA RowsStep ==
  ASSUME IndInv, [Next]_vars
  PROVE  RowsAreCommitted'
<1>. USE DEF IndInv, RowsAreCommitted
<1>1. CASE \E q \in Requests : RequestKind(q)
  <2>1. PICK q \in Requests : RequestKind(q)
    BY <1>1
  <2>2. \A r \in Requests : pc[r] = "done" => pc'[r] = "done"
    BY <2>1 DEF RequestKind, Others
  <2>3. ASSUME NEW id \in Present' PROVE pc'[id[1]] = "done"
    <3>1. id \in Ids
      BY PresentRowsNext
    <3>2. CASE id \in Present
      BY <2>2, <3>1, <3>2, IdPairs
    <3>3. CASE id \notin Present
      BY <2>1, <3>1, <3>3, IdPairs DEF RequestKind, Commits, Ends
    <3>. QED BY <3>2, <3>3
  <2>4. ASSUME NEW r \in Requests
        PROVE  args'[r].seen \cup args'[r].doomed
                 \subseteq args[r].seen \cup args[r].doomed \cup Present
    <3>1. args[r] \in Args
      BY DEF TypeOK
    <3>2. CASE r # q
      BY <2>1, <3>2 DEF RequestKind, Others
    <3>3. CASE r = q /\ Ends(q)
      BY <3>3 DEF Ends, NoArgs
    <3>4. CASE r = q /\ Prepares(q)
      BY <3>4 DEF Prepares
    <3>5. CASE r = q /\ (Answers(q) \/ Flushes(q))
      BY <3>5 DEF Answers, Flushes
    <3>6. CASE r = q /\ (Deletes(q) \/ Inserts(q))
      BY <3>1, <3>6 DEF Deletes, Inserts, Args
    <3>7. CASE r = q /\ Dooms(q)
      <4>1. args'[r].doomed = args[r].seen \cap Present /\ args'[r].seen = {}
        BY <3>1, <3>7 DEF Dooms, Args
      <4>. QED BY <4>1
    <3>. QED
      BY <2>1, <3>2, <3>3, <3>4, <3>5, <3>6, <3>7 DEF RequestKind, Quiet, Commits
  <2>5. ASSUME NEW r \in Requests
        PROVE  args[r].seen \cup args[r].doomed \cup Present \subseteq Ids
    BY PresentRows DEF TypeOK, Args
  <2>6. ASSUME NEW r \in Requests, NEW id \in args'[r].seen \cup args'[r].doomed
        PROVE  pc'[id[1]] = "done"
    <3>1. id \in args[r].seen \cup args[r].doomed \cup Present
      BY <2>4, <2>6
    <3>2. id \in Ids
      BY <2>5, <3>1
    <3>. QED
      BY <2>2, <3>1, <3>2, IdPairs
  <2>. QED
    BY <2>3, <2>6
<1>2. CASE ProjectDeleted
  BY <1>2, DeletedRows
<1>3. CASE UNCHANGED vars
  BY <1>3, SameRows DEF vars
<1>. QED
  BY <1>1, <1>2, <1>3, NextKinds


\* The fields of what a request has in hand after a step.
LEMMA Hands ==
  ASSUME TypeOK, NEW q \in Requests
  PROVE  /\ Deletes(q) => /\ args'[q].seen = Present
                          /\ args'[q].doomed = args[q].doomed
                          /\ args'[q].list = args[q].list
                          /\ args'[q].next = args[q].next
         /\ Dooms(q) => /\ args'[q].seen = {}
                        /\ args'[q].doomed = args[q].seen \cap Present
                        /\ args'[q].list = args[q].list
                        /\ args'[q].next = args[q].next
         /\ Inserts(q) => /\ args'[q].seen = args[q].seen
                          /\ args'[q].doomed = args[q].doomed
                          /\ args'[q].list = args[q].list
                          /\ args'[q].next = args[q].next + 1
         /\ Ends(q) => args'[q].list = args[q].list
<1>1. args[q] \in Args
  BY DEF TypeOK
<1>2. Deletes(q) => /\ args'[q].seen = Present
                    /\ args'[q].doomed = args[q].doomed
                    /\ args'[q].list = args[q].list
                    /\ args'[q].next = args[q].next
  BY <1>1 DEF Deletes, Args
<1>3. Dooms(q) => /\ args'[q].seen = {}
                  /\ args'[q].doomed = args[q].seen \cap Present
                  /\ args'[q].list = args[q].list
                  /\ args'[q].next = args[q].next
  BY <1>1 DEF Dooms, Args
<1>4. Inserts(q) => /\ args'[q].seen = args[q].seen
                    /\ args'[q].doomed = args[q].doomed
                    /\ args'[q].list = args[q].list
                    /\ args'[q].next = args[q].next + 1
  BY <1>1 DEF Inserts, Args
<1>5. Ends(q) => args'[q].list = args[q].list
  BY DEF Ends, NoArgs
<1>. QED
  BY <1>2, <1>3, <1>4, <1>5

\* The columns a request has committed.
Stored(q) == {n \in Columns : <<q, n>> \in Present}

LEMMA WholeByRows ==
  /\ PutIsWhole <=> \A q \in Requests : Stored(q) = {} \/ Stored(q) = Names(args[q].list)
  /\ PutIsWhole' <=> \A q \in Requests :
                       Stored(q)' = {} \/ Stored(q)' = Names(args'[q].list)
<1>1. ASSUME NEW q \in Requests
      PROVE  /\ {n \in Columns : table[q][n] # None} = Stored(q)
             /\ {n \in Columns : table'[q][n] # None} = Stored(q)'
  BY PresentRows, PresentRowsNext DEF Stored
<1>. QED
  BY <1>1 DEF PutIsWhole, Names

\* A commit deletes a PUT wholly or not at all, and stores its own list wholly.
LEMMA WholeStep ==
  ASSUME IndInv, [Next]_vars
  PROVE  PutIsWhole'
<1>. USE DEF IndInv
<1>1. ASSUME NEW q \in Requests, RequestKind(q)
      PROVE  PutIsWhole'
  <2>1. ASSUME NEW r \in Requests, r # q
        PROVE  args'[r].list = args[r].list
    BY <1>1, <2>1 DEF RequestKind, Others
  <2>2. Stored(q) = {}
    BY <1>1, PresentRows, IdPairs DEF Stored, RowsAreCommitted, RequestKind
  <2>3. CASE Present' = Present
    <3>1. \A r \in Requests : Stored(r)' = Stored(r)
      BY <2>3 DEF Stored
    <3>. QED
      BY <2>1, <2>2, <3>1, WholeByRows
  <2>4. CASE Commits(q)
    <3>1. ASSUME NEW r \in Requests, r # q
          PROVE  Stored(r)' = {} \/ Stored(r)' = Stored(r)
      <4>1. TakesAll(args[q].doomed, r)
        BY <2>4 DEF DeletesWholePuts, Commits, Inserting
      <4>2. CASE RowsOf(r) \subseteq args[q].doomed
        BY <2>4, <3>1, <4>2, IdPairs DEF Commits, RowsOf, Stored
      <4>3. CASE RowsOf(r) \cap args[q].doomed = {}
        BY <2>4, <3>1, <4>3, IdPairs DEF Commits, RowsOf, Stored
      <4>. QED BY <4>1, <4>2, <4>3 DEF TakesAll
    <3>2. Stored(q)' = Names(args[q].list)
      <4>1. Names(args[q].list) \subseteq Columns
        BY DEF Names, TypeOK, Args
      <4>2. ASSUME NEW n \in Columns PROVE <<q, n>> \notin args[q].doomed
        BY <1>1, IdPairs DEF RowsAreCommitted, RequestKind
      <4>. QED
        BY <2>2, <2>4, <4>1, <4>2 DEF Commits, Stored
    <3>3. args'[q].list = args[q].list
      BY <2>4, Hands DEF Commits
    <3>. QED
      BY <2>1, <3>1, <3>2, <3>3, WholeByRows
  <2>. QED BY <1>1, <2>3, <2>4 DEF RequestKind
<1>2. CASE ProjectDeleted
  BY <1>2, DeletedRows, WholeByRows DEF Stored
<1>3. CASE UNCHANGED vars
  BY <1>3 DEF vars, PutIsWhole
<1>. QED
  BY <1>1, <1>2, <1>3, NextKinds

\* A set of rows and the rows of a PUT after the step.
TakesAllNext(S, q) == RowsOf(q)' \subseteq S \/ RowsOf(q)' \cap S = {}

LEMMA DeletesNext ==
  DeletesWholePuts' <=>
    \A d, r \in Requests :
      /\ pc'[d] = "deleting" => TakesAllNext(args'[d].seen, r)
      /\ pc'[d] \in {"inserting", "putAnswered"} => TakesAllNext(args'[d].doomed, r)
  BY DEF DeletesWholePuts, TakesAll, TakesAllNext, Inserting

\* Neither a snapshot nor what is left of it splits a PUT.
LEMMA DeletesStep ==
  ASSUME IndInv, [Next]_vars
  PROVE  DeletesWholePuts'
<1>. USE DEF IndInv
<1>1. ASSUME NEW q \in Requests, RequestKind(q)
      PROVE  DeletesWholePuts'
  <2>1. \A d \in Requests \ {q} : pc'[d] = pc[d] /\ args'[d] = args[d]
    BY <1>1 DEF RequestKind, Others
  <2>2. CASE Present' = Present /\ Quiet(q)
    <3>1. \A S, r : TakesAll(S, r) <=> TakesAllNext(S, r)
      BY <2>2 DEF TakesAll, TakesAllNext, RowsOf
    <3>2. ASSUME NEW d \in Requests \ {q}, NEW r \in Requests
          PROVE  /\ pc'[d] = "deleting" => TakesAllNext(args'[d].seen, r)
                 /\ pc'[d] \in {"inserting", "putAnswered"} =>
                      TakesAllNext(args'[d].doomed, r)
      BY <2>1, <3>1 DEF DeletesWholePuts, Inserting
    <3>3. ASSUME NEW r \in Requests
          PROVE  /\ pc'[q] = "deleting" => TakesAllNext(args'[q].seen, r)
                 /\ pc'[q] \in {"inserting", "putAnswered"} =>
                      TakesAllNext(args'[q].doomed, r)
      <4>1. CASE Deletes(q)
        BY <2>2, <4>1, Hands DEF Deletes, TakesAllNext, RowsOf
      <4>2. CASE Dooms(q)
        <5>1. TakesAll(args[q].seen, r) /\ args'[q].doomed = args[q].seen \cap Present
          BY <4>2, Hands DEF Dooms, DeletesWholePuts
        <5>2. TakesAllNext(args'[q].doomed, r)
          BY <2>2, <5>1 DEF TakesAll, TakesAllNext, RowsOf
        <5>. QED BY <4>2, <5>2 DEF Dooms
      <4>3. CASE Inserts(q)
        <5>1. TakesAll(args[q].doomed, r) /\ args'[q].doomed = args[q].doomed
          BY <4>3, Hands DEF Inserts, DeletesWholePuts, Inserting
        <5>. QED BY <3>1, <4>3, <5>1 DEF Inserts
      <4>4. CASE Answers(q) \/ Flushes(q)
        BY <3>1, <4>4 DEF Answers, Flushes, Inserting, DeletesWholePuts
      <4>5. CASE Prepares(q) \/ Ends(q)
        BY <4>5 DEF Prepares, Early, Ends
      <4>. QED BY <2>2, <4>1, <4>2, <4>3, <4>4, <4>5 DEF Quiet
    <3>. QED
      BY <3>2, <3>3, DeletesNext
  <2>3. CASE Commits(q)
    <3>1. ASSUME NEW d \in Requests \ {q}
          PROVE  /\ args[d].seen \subseteq Ids /\ args[d].doomed \subseteq Ids
                 /\ \A id \in args[d].seen \cup args[d].doomed : id[1] # q
      BY <1>1 DEF RequestKind, TypeOK, Args, RowsAreCommitted
    <3>2. \A r \in Requests : r # q => RowsOf(r)' \subseteq RowsOf(r)
      BY <2>3, IdPairs, PresentRowsNext DEF RowsOf, Commits
    <3>3. \A id \in RowsOf(q)' : id[1] = q
      BY DEF RowsOf
    <3>4. ASSUME NEW d \in Requests \ {q}, NEW r \in Requests
          PROVE  /\ TakesAll(args[d].seen, r) => TakesAllNext(args[d].seen, r)
                 /\ TakesAll(args[d].doomed, r) => TakesAllNext(args[d].doomed, r)
      <4>1. CASE r = q
        BY <3>1, <3>3, <4>1 DEF TakesAllNext
      <4>2. CASE r # q
        BY <3>2, <4>2 DEF TakesAll, TakesAllNext
      <4>. QED BY <4>1, <4>2
    <3>5. pc'[q] = "done"
      BY <2>3 DEF Commits, Ends
    <3>. QED
      BY <2>1, <3>4, <3>5, DeletesNext DEF DeletesWholePuts, Inserting
  <2>. QED BY <1>1, <2>2, <2>3 DEF RequestKind
<1>2. CASE ProjectDeleted
  BY <1>2, DeletedRows DEF DeletesWholePuts, TakesAll, RowsOf
<1>3. CASE UNCHANGED vars
  BY <1>3, SameRows DEF vars, DeletesWholePuts, TakesAll, RowsOf, Inserting
<1>. QED
  BY <1>1, <1>2, <1>3, NextKinds

\* A row a PATCH has flushed stays until the PATCH is over.
LEMMA HoldStep ==
  ASSUME IndInv, [Next]_vars
  PROVE  PatchesHoldTheirRow'
<1>. USE DEF IndInv
<1>1. ASSUME NEW q \in Requests, RequestKind(q)
      PROVE  PatchesHoldTheirRow'
  <2>1. \A r \in Requests \ {q} : pc'[r] = pc[r] /\ args'[r] = args[r]
    BY <1>1 DEF RequestKind, Others
  <2>2. ASSUME NEW p \in Requests, pc'[p] \in {"flushed", "patchAnswered"}
        PROVE  args'[p].id \in Present'
    <3>1. args'[p].id \in Present
      <4>1. CASE p # q
        BY <2>1, <2>2, <4>1 DEF PatchesHoldTheirRow, Patching
      <4>2. CASE p = q
        BY <1>1, <2>2, <4>2 DEF RequestKind, Quiet, Commits, Prepares, Early, Answers, Ends,
           Deletes, Dooms, Inserts, Flushes, PatchesHoldTheirRow, Patching
      <4>. QED BY <4>1, <4>2
    <3>2. CASE Present' = Present
      BY <3>1, <3>2
    <3>3. CASE Commits(q)
      <4>1. p # q /\ args'[p].id = args[p].id /\ Patching(p)
        BY <2>1, <2>2, <3>3 DEF Commits, Ends, Patching
      <4>2. args[p].id \notin args[q].doomed
        BY <3>3, <4>1 DEF Commits, Inserting, PatchesHoldTheirRow
      <4>3. args[p].id \in Ids
        BY <3>1, <4>1, PresentRows
      <4>. QED
        BY <3>1, <3>3, <4>1, <4>2, <4>3, IdPairs DEF Commits
    <3>. QED BY <1>1, <3>2, <3>3 DEF RequestKind
  <2>3. ASSUME NEW p \in Requests, pc'[p] \in {"flushed", "patchAnswered"},
               NEW d \in Requests, pc'[d] \in {"inserting", "putAnswered"}
        PROVE  args'[p].id \notin args'[d].doomed
    <3>1. CASE p # q /\ d # q
      BY <2>1, <2>3, <3>1 DEF PatchesHoldTheirRow, Patching, Inserting
    <3>2. CASE p = q
      <4>1. d # q
        BY <2>3, <3>2
      <4>2. CASE Flushes(q)
        BY <2>1, <2>3, <3>2, <4>1, <4>2 DEF Flushes, Free, Locked, Inserting
      <4>3. CASE Answers(q)
        BY <2>1, <2>3, <3>2, <4>1, <4>3 DEF Answers, PatchesHoldTheirRow, Patching, Inserting
      <4>. QED
        BY <1>1, <2>3, <3>2, <4>2, <4>3 DEF RequestKind, Quiet, Commits, Prepares, Early, Ends,
           Deletes, Dooms, Inserts
    <3>3. CASE d = q
      <4>1. p # q /\ Patching(p) /\ args'[p].id = args[p].id
        BY <2>1, <2>3, <3>3 DEF Patching
      <4>2. CASE Dooms(q)
        <5>1. args[p].id \notin args[q].seen
          BY <4>1, <4>2 DEF Dooms, Free, Locked
        <5>. QED BY <3>3, <4>1, <4>2, <5>1, Hands
      <4>3. CASE Inserts(q)
        BY <3>3, <4>1, <4>3, Hands DEF Inserts, PatchesHoldTheirRow, Inserting
      <4>4. CASE Answers(q)
        BY <2>3, <3>3, <4>1, <4>4 DEF Answers, PatchesHoldTheirRow, Inserting
      <4>. QED
        BY <1>1, <2>3, <3>3, <4>2, <4>3, <4>4 DEF RequestKind, Quiet, Commits, Prepares, Early,
           Ends, Deletes, Flushes
    <3>. QED BY <3>1, <3>2, <3>3
  <2>. QED BY <2>2, <2>3 DEF PatchesHoldTheirRow, Patching, Inserting
<1>2. CASE ProjectDeleted
  <2>1. \A p \in Requests : ~Patching(p)
    BY <1>2 DEF ProjectDeleted, Locked, PatchesHoldTheirRow
  <2>. QED
    BY <1>2, <2>1, DeletedRows DEF PatchesHoldTheirRow, Patching
<1>3. CASE UNCHANGED vars
  BY <1>3, SameRows DEF vars, PatchesHoldTheirRow, Patching, Inserting
<1>. QED
  BY <1>1, <1>2, <1>3, NextKinds

\* Only another PUT's commit adds a row a PUT has not seen.
LEMMA AloneStep ==
  ASSUME IndInv, [Next]_vars
  PROVE  AloneSeesAll'
<1>. USE DEF IndInv
<1>1. ASSUME NEW q \in Requests, RequestKind(q)
      PROVE  AloneSeesAll'
  <2>1. \A r \in Requests \ {q} : pc'[r] = pc[r] /\ args'[r] = args[r]
    BY <1>1 DEF RequestKind, Others
  <2>2. CASE Present' = Present /\ Quiet(q) /\ overlapped' = overlapped
    <3>1. ASSUME NEW r \in Requests, r # q, ~overlapped'[r]
          PROVE  /\ pc'[r] = "deleting" => Present' \subseteq args'[r].seen
                 /\ pc'[r] \in {"inserting", "putAnswered"} =>
                      Present' \subseteq args'[r].doomed
      BY <2>1, <2>2, <3>1 DEF AloneSeesAll, Inserting
    <3>2. ASSUME ~overlapped'[q]
          PROVE  /\ pc'[q] = "deleting" => Present' \subseteq args'[q].seen
                 /\ pc'[q] \in {"inserting", "putAnswered"} =>
                      Present' \subseteq args'[q].doomed
      <4>1. CASE Deletes(q)
        BY <2>2, <4>1, Hands DEF Deletes
      <4>2. CASE Dooms(q)
        BY <2>2, <3>2, <4>2, Hands DEF Dooms, AloneSeesAll
      <4>3. CASE Inserts(q)
        BY <2>2, <3>2, <4>3, Hands DEF Inserts, AloneSeesAll, Inserting
      <4>4. CASE Answers(q) \/ Flushes(q)
        BY <2>2, <3>2, <4>4 DEF Answers, Flushes, AloneSeesAll, Inserting
      <4>5. CASE Prepares(q) \/ Ends(q)
        BY <4>5 DEF Prepares, Early, Ends
      <4>. QED BY <2>2, <4>1, <4>2, <4>3, <4>4, <4>5 DEF Quiet
    <3>. QED BY <3>1, <3>2 DEF AloneSeesAll, Inserting
  <2>3. CASE /\ Commits(q)
             /\ overlapped' = [r \in Requests |->
                                 overlapped[r] \/ (r # q /\ Replacing(r))]
    <3>1. pc'[q] = "done"
      BY <2>3 DEF Commits, Ends
    <3>2. \A r \in Requests \ {q} : Replacing(r) => overlapped'[r]
      BY <2>3
    <3>. QED
      BY <2>1, <3>1, <3>2 DEF AloneSeesAll, Replacing, Inserting
  <2>. QED BY <1>1, <2>2, <2>3 DEF RequestKind
<1>2. CASE ProjectDeleted
  BY <1>2, DeletedRows DEF AloneSeesAll, Inserting
<1>3. CASE UNCHANGED vars
  BY <1>3, SameRows DEF vars, AloneSeesAll, Inserting
<1>. QED
  BY <1>1, <1>2, <1>3, NextKinds

-------------------------------------------------------------------------------
(* The unique index.                                                       *)

\* A PUT that has answered has put all its names into the index.
LEMMA AllInserted ==
  ASSUME TypeOK, ArgsOK, NEW q \in Requests, pc[q] = "putAnswered"
  PROVE  InsertedNames(q) = Names(args[q].list)
<1>1. args[q].list \in Seq(Columns) /\ args[q].next = Len(args[q].list) + 1
  BY DEF TypeOK, Args, ArgsOK
<1>2. 1 .. args[q].next - 1 = DOMAIN args[q].list
  BY <1>1
<1>. QED
  BY <1>2 DEF InsertedNames, Names, Inserting

\* The names put into the index by a request at place p with a in hand.
NamesOf(p, a) ==
  IF p \in {"inserting", "putAnswered"} THEN {a.list[i] : i \in 1 .. a.next - 1} ELSE {}

LEMMA InsertedNamesOf ==
  ASSUME NEW q \in Requests
  PROVE  /\ InsertedNames(q) = NamesOf(pc[q], args[q])
         /\ InsertedNames(q)' = NamesOf(pc'[q], args'[q])
  BY DEF InsertedNames, NamesOf, Inserting

LEMMA SameNames ==
  ASSUME NEW q \in Requests, pc'[q] = pc[q], args'[q] = args[q]
  PROVE  InsertedNames(q)' = InsertedNames(q)
  BY InsertedNamesOf

\* What a step adds to the names a request has put into the index.
LEMMA NamesNext ==
  ASSUME TypeOK, ArgsOK, NEW q \in Requests, RequestKind(q)
  PROVE  /\ \A r \in Requests \ {q} : InsertedNames(r)' = InsertedNames(r)
         /\ InsertedNames(q)' \subseteq
              InsertedNames(q) \cup (IF Inserts(q) THEN {Wanted(q)} ELSE {})
         /\ Ends(q) => InsertedNames(q)' = {}
<1>1. \A r \in Requests \ {q} : InsertedNames(r)' = InsertedNames(r)
  BY SameNames DEF RequestKind, Others
<1>2. pc'[q] \notin {"inserting", "putAnswered"} => InsertedNames(q)' = {}
  BY InsertedNamesOf DEF NamesOf
<1>3. CASE Prepares(q) \/ Ends(q) \/ Deletes(q) \/ Flushes(q)
  BY <1>1, <1>2, <1>3 DEF Prepares, Early, Ends, Deletes, Flushes
<1>4. CASE Answers(q)
  <2>1. CASE pc[q] = "inserting"
    BY <1>1, <1>4, <2>1, InsertedNamesOf DEF Answers, NamesOf, Ends
  <2>2. CASE pc[q] # "inserting"
    BY <1>1, <1>2, <1>4, <2>2 DEF Answers
  <2>. QED BY <2>1, <2>2
<1>5. CASE Dooms(q)
  <2>1. args'[q].next = 1
    BY <1>5, Hands DEF Dooms, ArgsOK
  <2>2. 1 .. args'[q].next - 1 = {}
    BY <2>1
  <2>3. InsertedNames(q)' = {}
    BY <2>2, InsertedNamesOf DEF NamesOf
  <2>. QED BY <1>1, <2>3
<1>6. CASE Inserts(q)
  <2>1. args'[q].next = args[q].next + 1 /\ args'[q].list = args[q].list
        /\ args[q].next \in Nat \ {0} /\ pc[q] = "inserting" /\ pc'[q] = "inserting"
    BY <1>6, Hands DEF Inserts, TypeOK, Args
  <2>2. 1 .. args'[q].next - 1 = (1 .. args[q].next - 1) \cup {args[q].next}
    BY <2>1
  <2>3. ASSUME NEW n \in InsertedNames(q)'
        PROVE  n \in InsertedNames(q) \/ n = Wanted(q)
    BY <2>1, <2>2, InsertedNamesOf DEF NamesOf, Wanted
  <2>. QED BY <1>1, <1>6, <2>1, <2>3 DEF Ends
<1>. QED
  BY <1>3, <1>4, <1>5, <1>6 DEF RequestKind, Quiet, Commits

\* The index refuses a name that is committed or put into it already.
LEMMA IndexStep ==
  ASSUME IndInv, [Next]_vars
  PROVE  IndexOK'
<1>. USE DEF IndInv
<1>1. ASSUME NEW q \in Requests, RequestKind(q)
      PROVE  IndexOK'
  <2>1. \A r \in Requests \ {q} : pc'[r] = pc[r] /\ args'[r] = args[r]
    BY <1>1 DEF RequestKind, Others
  <2>2. ASSUME NEW r \in Requests, NEW s \in Requests \ {r}
        PROVE  InsertedNames(r)' \cap InsertedNames(s)' = {}
    <3>1. InsertedNames(r) \cap InsertedNames(s) = {}
      BY DEF IndexOK
    <3>2. \A t \in Requests \ {q} : Inserts(q) => Wanted(q) \notin InsertedNames(t)
      BY DEF Inserts, WaitsFor, HoldsName
    <3>. QED
      BY <1>1, <3>1, <3>2, NamesNext
  <2>3. ASSUME NEW r \in Requests, NEW id \in Present', id \notin args'[r].doomed
        PROVE  id[2] \notin InsertedNames(r)'
    <3>1. CASE Present' = Present /\ r # q
      BY <1>1, <2>1, <2>3, <3>1, NamesNext DEF IndexOK
    <3>2. CASE Present' = Present /\ r = q /\ Quiet(q)
      <4>1. CASE Inserts(q)
        BY <1>1, <2>3, <3>2, <4>1, NamesNext, Hands DEF IndexOK, Inserts, NameTaken
      <4>2. CASE Answers(q) \/ Flushes(q)
        <5>1. args'[q] = args[q] /\ ~Inserts(q)
          BY <4>2 DEF Answers, Flushes, Inserts
        <5>. QED BY <1>1, <2>3, <3>2, <5>1, NamesNext DEF IndexOK
      <4>3. CASE Prepares(q) \/ Ends(q) \/ Deletes(q)
        BY <3>2, <4>3 DEF Prepares, Early, Ends, Deletes, InsertedNames, Inserting
      <4>4. CASE Dooms(q)
        <5>1. args'[q].next = 1
          BY <4>4, Hands DEF Dooms, ArgsOK
        <5>. QED BY <3>2, <5>1 DEF InsertedNames
      <4>. QED BY <3>2, <4>1, <4>2, <4>3, <4>4 DEF Quiet
    <3>3. CASE Commits(q)
      <4>1. CASE r = q
        BY <1>1, <3>3, <4>1, NamesNext DEF Commits
      <4>2. CASE r # q
        <5>1. InsertedNames(r)' = InsertedNames(r) /\ args'[r] = args[r]
          BY <1>1, <2>1, <4>2, NamesNext
        <5>2. CASE id \in Present
          BY <2>3, <5>1, <5>2 DEF IndexOK
        <5>3. CASE id \notin Present
          <6>1. id \in Ids
            BY PresentRowsNext
          <6>2. id[2] \in InsertedNames(q)
            BY <3>3, <5>3, <6>1, IdPairs, AllInserted DEF Commits
          <6>. QED BY <4>2, <5>1, <6>2 DEF IndexOK
        <5>. QED BY <5>2, <5>3
      <4>. QED BY <4>1, <4>2
    <3>. QED BY <1>1, <3>1, <3>2, <3>3 DEF RequestKind
  <2>. QED BY <2>2, <2>3 DEF IndexOK
<1>2. CASE ProjectDeleted
  BY <1>2, DeletedRows, SameNames DEF IndexOK
<1>3. CASE UNCHANGED vars
  BY <1>3, SameRows, SameNames DEF vars, IndexOK
<1>. QED
  BY <1>1, <1>2, <1>3, NextKinds

\* A commit brings only names no committed row keeps.
LEMMA UniqueStep ==
  ASSUME IndInv, [Next]_vars
  PROVE  NamesAreUnique'
<1>. USE DEF IndInv
<1>1. ASSUME NEW q \in Requests, RequestKind(q)
      PROVE  NamesAreUnique'
  <2>1. CASE Present' = Present
    BY <2>1 DEF NamesAreUnique
  <2>2. CASE Commits(q)
    <3>1. ASSUME NEW id \in Present'
          PROVE  /\ id \in Ids
                 /\ \/ id \in Present /\ id \notin args[q].doomed
                    \/ id = <<q, id[2]>> /\ id[2] \in InsertedNames(q)
      <4>1. id \in Ids
        BY PresentRowsNext
      <4>. QED BY <2>2, <4>1, IdPairs, AllInserted DEF Commits
    <3>2. \A id \in Present \ args[q].doomed : id[2] \notin InsertedNames(q)
      BY DEF IndexOK
    <3>. QED
      BY <3>1, <3>2 DEF NamesAreUnique
  <2>. QED BY <1>1, <2>1, <2>2 DEF RequestKind
<1>2. CASE ProjectDeleted
  BY <1>2, DeletedRows DEF NamesAreUnique
<1>3. CASE UNCHANGED vars
  BY <1>3, SameRows DEF vars, NamesAreUnique
<1>. QED
  BY <1>1, <1>2, <1>3, NextKinds

-------------------------------------------------------------------------------
(* The theorems                                                            *)

LEMMA InitIndInv == Init => IndInv
<1>. SUFFICES ASSUME Init PROVE IndInv
  OBVIOUS
<1>1. Present = {}
  BY PresentRows, IdPairs DEF Init
<1>2. NoArgs \in Args
  BY DEF NoArgs, Args
<1>3. TypeOK
  BY <1>2 DEF Init, TypeOK, Places
<1>4. \A q \in Requests : pc[q] = "new" /\ args[q] = NoArgs /\ Stored(q) = {}
  BY <1>1 DEF Init, Stored
<1>5. NoArgs.seen = {} /\ NoArgs.doomed = {} /\ NoArgs.next = 1
  BY DEF NoArgs
<1>6. RowsAreCommitted /\ ArgsOK
  BY <1>1, <1>4, <1>5 DEF RowsAreCommitted, ArgsOK, Patching, Inserting
<1>7. PutIsWhole
  BY <1>4, WholeByRows
<1>8. DeletesWholePuts /\ PatchesHoldTheirRow /\ AloneSeesAll
  BY <1>4 DEF DeletesWholePuts, PatchesHoldTheirRow, AloneSeesAll, Patching, Inserting
<1>9. IndexOK /\ NamesAreUnique
  BY <1>1, <1>4 DEF IndexOK, NamesAreUnique, InsertedNames, Inserting
<1>. QED
  BY <1>3, <1>6, <1>7, <1>8, <1>9 DEF IndInv

LEMMA NextIndInv == IndInv /\ [Next]_vars => IndInv'
<1>. SUFFICES ASSUME IndInv, [Next]_vars PROVE IndInv'
  OBVIOUS
<1>1. TypeOK' /\ ArgsOK'
  BY TypeStep, ArgsStep DEF IndInv
<1>. QED
  BY <1>1, RowsStep, WholeStep, DeletesStep, HoldStep, AloneStep, IndexStep, UniqueStep
  DEF IndInv

\* The whole inductive invariant holds: in particular what a transaction has read
\* or deleted was committed, and a flushed PATCH keeps its row.
THEOREM SpecIndInv == Spec => []IndInv
  BY InitIndInv, NextIndInv, PTL DEF Spec

\* Every variable has its type, for any set of requests, columns and lists.
THEOREM SpecTypeOK == Spec => []TypeOK
<1>1. IndInv => TypeOK
  BY DEF IndInv
<1>. QED
  BY <1>1, SpecIndInv, PTL

\* Every PUT is seen whole or not at all, whatever other requests, failures and
\* the delete of the project do (upsert_all and its one transaction).
THEOREM SpecPutIsWhole == Spec => []PutIsWhole
<1>1. IndInv => PutIsWhole
  BY DEF IndInv
<1>. QED
  BY <1>1, SpecIndInv, PTL

\* The unique index keeps a column name from having two configs.
THEOREM SpecNamesAreUnique == Spec => []NamesAreUnique
<1>1. IndInv => NamesAreUnique
  BY DEF IndInv
<1>. QED
  BY <1>1, SpecIndInv, PTL

\* A replaced or deleted config never comes back: only the commit of a PUT adds
\* rows (update() never inserts).
THEOREM SpecNothingComesBack == Spec => NothingComesBack
<1>1. ASSUME IndInv, [Next]_vars, NEW q \in Requests, NEW n \in Columns,
             table[q][n] = None, table'[q][n] # None
      PROVE  pc[q] = "putAnswered"
  <2>. USE DEF IndInv
  <2>1. <<q, n>> \notin Present /\ <<q, n>> \in Present'
    BY <1>1, PresentRows, PresentRowsNext
  <2>2. CASE \E r \in Requests : RequestKind(r)
    BY <1>1, <2>1, <2>2 DEF RequestKind, Commits
  <2>3. CASE ProjectDeleted
    BY <2>1, <2>3, DeletedRows
  <2>4. CASE UNCHANGED vars
    BY <1>1, <2>4 DEF vars
  <2>. QED BY <1>1, <2>2, <2>3, <2>4, NextKinds
<1>2. IndInv /\ [Next]_vars =>
        [\A q \in Requests, n \in Columns :
           table[q][n] = None /\ table'[q][n] # None => pc[q] = "putAnswered"]_vars
  BY <1>1
<1>. QED
  BY <1>2, SpecIndInv, PTL DEF Spec, NothingComesBack

\* A PUT that no other PUT's commit overlaps replaces the whole set of columns.
THEOREM SpecSerialPutReplaces == Spec => SerialPutReplaces
<1>1. ASSUME IndInv, NEW q \in Requests, PutCommit(q), ~overlapped[q],
             NEW r \in Requests, NEW n \in Columns
      PROVE  table'[r][n] # None <=> r = q /\ n \in Names(args[q].list)
  <2>. USE DEF IndInv
  <2>1. pc[q] = "putAnswered"
    BY <1>1 DEF PutCommit
  <2>2. Present \subseteq args[q].doomed
    BY <1>1, <2>1 DEF AloneSeesAll, Inserting
  <2>3. <<q, n>> \notin args[q].doomed
    <3>1. \A id \in args[q].doomed : id[1] # q
      BY <1>1, <2>1 DEF RowsAreCommitted
    <3>. QED BY <3>1
  <2>4. <<r, n>> \in Present' <=>
          \/ <<r, n>> \in Present /\ <<r, n>> \notin args[q].doomed
          \/ r = q /\ n \in Names(args[q].list) /\ <<r, n>> \notin args[q].doomed
    BY <1>1, PutCommitRows
  <2>5. <<r, n>> \in Present' <=> table'[r][n] # None
    BY PresentRowsNext
  <2>. QED
    BY <2>2, <2>3, <2>4, <2>5
<1>2. IndInv /\ [Next]_vars =>
        [\A q \in Requests :
           PutCommit(q) /\ ~overlapped[q] =>
             \A r \in Requests, n \in Columns :
               table'[r][n] # None <=> r = q /\ n \in Names(args[q].list)]_vars
  BY <1>1
<1>. QED
  BY <1>2, SpecIndInv, PTL DEF Spec, SerialPutReplaces

=============================================================================
