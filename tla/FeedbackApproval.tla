---------------------------- MODULE FeedbackApproval ----------------------------
(***************************************************************************)
(* The approval of a report: a feedback reads the status, refuses unless   *)
(* it is PENDING, and writes its decision.  Nothing is locked between.     *)
(***************************************************************************)
EXTENDS RowRequests

CONSTANTS Reasons

Decisions == {"APPROVED", "REJECTED"}

ReportRow == [table : {"reports"}, project : Ids,
              status : Decisions \cup {"PENDING"}, reason : Reasons \cup {None}]

NewReport(p) ==
  [table |-> "reports", project |-> p, status |-> "PENDING", reason |-> None]

\* The schema lets a request ask for PENDING, which no transition allows.
Feedback == [id : Ids, status : Decisions \cup {"PENDING"},
             reason : Reasons \cup {None}]

\* Faulty variant: PENDING may be asked for.
FaultyAllowed(from, to) == from = "PENDING"

Allowed(from, to) == from = "PENDING" /\ to \in Decisions

Decided(row, f) == [row EXCEPT !.status = f.status, !.reason = f.reason]

FeedbackFind(q) ==
  /\ pc[q] = "new"
  /\ \E f \in Feedback :
       \/ /\ f.id \in RowsOf("reports") /\ Allowed(table[f.id].status, f.status)
          /\ Goto(q, "new", "read")
          /\ args' = [args EXCEPT ![q] = [NoArgs EXCEPT
                        !.op = "update", !.on = "reports", !.id = f.id, !.asked = f,
                        !.entity = Decided(table[f.id], f)]]
          /\ UNCHANGED outcome
       \/ /\ f.id \in RowsOf("reports") /\ ~Allowed(table[f.id].status, f.status)
          /\ pc' = [pc EXCEPT ![q] = "done"]
          /\ outcome' = [outcome EXCEPT ![q] = "InvalidApprovalTransition"]
          /\ args' = [args EXCEPT ![q].asked = f]
       \/ f.id \notin RowsOf("reports") /\ End(q, "ReportNotFound")
  /\ UNCHANGED table

FeedbackSelect(q) == On(q, "reports") /\ Select(q)

FeedbackUpdate(q) == On(q, "reports") /\ Update(q, "flushed")

FeedbackStep(q) == FeedbackFind(q) \/ FeedbackSelect(q) \/ FeedbackUpdate(q)
=============================================================================
