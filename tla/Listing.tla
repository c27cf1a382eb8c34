-------------------------------- MODULE Listing --------------------------------
(***************************************************************************)
(* The listings of projects, reports and dictionary entries.  A client     *)
(* walks from page to page, as far as the last answer says there are       *)
(* pages, while items are created and deleted.  Every page is one SELECT:  *)
(* the newest first, an offset, a limit, and the total beside each row.    *)
(*                                                                         *)
(* The time of an item is drawn by its request, which commits later; two   *)
(* items have different times (nothing orders them otherwise).             *)
(***************************************************************************)
EXTENDS Naturals, FiniteSets, Sequences

CONSTANTS
  Items,          \* items created and deleted
  Listed,         \* those in the scope that is listed: user, project, kind
  PageSizes,      \* page sizes that clients ask for
  MAX_PAGE_SIZE   \* the cap of list_*.py, 100

ASSUME ListedAssumption == IsFiniteSet(Items) /\ Listed \subseteq Items
ASSUME SizesAssumption == PageSizes \subseteq Nat /\ MAX_PAGE_SIZE \in Nat \ {0}

VARIABLES
  time,       \* created_at or uploaded_at; 0 before it is drawn
  present,    \* items committed and not deleted
  deleted,    \* items deleted
  listing,    \* what the client walks through: [of, size], fixed for a walk
  page,       \* the next page to ask for; 0 when the walk is over
  answers,    \* the items of the pages so far
  before,     \* items that were listed when the walk began
  created,    \* listed items committed since
  lost        \* listed items deleted since

vars == <<time, present, deleted, listing, page, answers, before, created, lost>>

items == <<time, present, deleted>>
walk == <<listing, page, answers, before>>

\* Only the route of reports takes every page size.
Accepted ==
  {l \in [of : {"projects", "reports", "entries"}, size : PageSizes] :
     l.of = "reports" \/ l.size \in 1..MAX_PAGE_SIZE}

Now == Cardinality({i \in Items : time[i] > 0})

Init ==
  /\ \E old \in SUBSET Items :
       /\ present = old
       /\ time \in {t \in [Items -> 0..Cardinality(old)] :
            /\ {i \in Items : t[i] > 0} = old
            /\ \A i, j \in old : t[i] = t[j] => i = j}
  /\ deleted = {}
  /\ listing \in Accepted
  /\ page = 1 /\ answers = <<>>
  /\ before = present \cap Listed
  /\ created = {} /\ lost = {}

-------------------------------------------------------------------------------
(* Other requests.                                                         *)

Draw(i) ==
  /\ time[i] = 0
  /\ time' = [time EXCEPT ![i] = Now + 1]
  /\ UNCHANGED <<present, deleted, created, lost, walk>>

Commit(i) ==
  /\ time[i] > 0 /\ i \notin present \cup deleted
  /\ present' = present \cup {i}
  /\ created' = created \cup ({i} \cap Listed)
  /\ UNCHANGED <<time, deleted, lost, walk>>

Delete(i) ==
  /\ i \in present
  /\ present' = present \ {i}
  /\ deleted' = deleted \cup {i}
  /\ lost' = lost \cup ({i} \cap Listed)
  /\ UNCHANGED <<time, created, walk>>

-------------------------------------------------------------------------------
(* The listing.                                                            *)

\* Faulty variant: no cap.
FaultyPageSize == listing.size

PageSize == IF listing.size < MAX_PAGE_SIZE THEN listing.size ELSE MAX_PAGE_SIZE

\* Faulty variant: the first page is page 0.
FaultyOffset(p) == p * PageSize

Offset(p) == (p - 1) * PageSize

Newer(i, j) == time[i] > time[j]

\* Where an item stands in the listing.
Rank(i) == Cardinality({j \in present \cap Listed : Newer(j, i)})

\* Faulty variant: one row too many, to see whether there is a next page.
FaultyRows(p) == {i \in present \cap Listed : Rank(i) \in Offset(p)..Offset(p) + PageSize}

\* ORDER BY ... DESC OFFSET ... LIMIT ...
Rows(p) == {i \in present \cap Listed : Rank(i) \in Offset(p)..Offset(p) + PageSize - 1}

\* The total comes with the rows: without a row there is none.
Total(p) == IF Rows(p) = {} THEN 0 ELSE Cardinality(present \cap Listed)

Ceil(n, d) == (n + d - 1) \div d

\* build(); a dictionary without entries has one page.
TotalPages(total) ==
  IF listing.of = "entries" THEN IF total > 0 THEN Ceil(total, PageSize) ELSE 1
  ELSE IF PageSize = 0 THEN 0 ELSE Ceil(total, PageSize)

\* The client goes on while there are pages.
Ask ==
  /\ page > 0
  /\ answers' = Append(answers, Rows(page))
  /\ page' = IF page < TotalPages(Total(page)) THEN page + 1 ELSE 0
  /\ UNCHANGED <<items, listing, before, created, lost>>

Next == Ask \/ \E i \in Items : Draw(i) \/ Commit(i) \/ Delete(i)

Spec == Init /\ [][Next]_vars
-------------------------------------------------------------------------------
(* Properties                                                              *)

Seen == UNION {answers[n] : n \in DOMAIN answers}

\* What an answer shows that an earlier one has shown.
Repeats ==
  {s \in (1..Len(answers)) \X Listed :
     s[2] \in answers[s[1]] /\ \E n \in 1..s[1] - 1 : s[2] \in answers[n]}

Over == page = 0

\* Every variable has its type; no page is larger than the cap.
TypeOK ==
  /\ time \in [Items -> 0..Cardinality(Items)]
  /\ present \subseteq Items /\ deleted \subseteq Items \ present
  /\ listing \in Accepted
  /\ page \in Nat /\ answers \in Seq(SUBSET Listed)
  /\ before \subseteq Listed /\ created \subseteq Listed /\ lost \subseteq Listed
  /\ \A n \in DOMAIN answers : Cardinality(answers[n]) <= MAX_PAGE_SIZE

\* A walk misses no item that is there all along, but for one per item that is
\* deleted meanwhile: creations, even late ones, only push items on.
WalkMissesFew ==
  Over /\ PageSize > 0 =>
    Cardinality((before \ lost) \ Seen) <= Cardinality(lost)

\* A walk shows an item again only for items created meanwhile: pages do not
\* overlap.
WalkRepeatsFew == Cardinality(Repeats) <= Cardinality(created)

-------------------------------------------------------------------------------
(* The inductive strengthening of the safety properties.                   *)

\* Times are drawn one after the other, so that no two items have the same.
TimesDiffer ==
  /\ \A i \in Items : time[i] <= Now
  /\ \A i, j \in Items : time[i] = time[j] /\ time[i] > 0 => i = j
  /\ \A i \in present \cup deleted : time[i] > 0

\* Items come, and go, once.
ItemsOK ==
  /\ created \subseteq present \cup deleted /\ lost \subseteq deleted
  /\ before \ lost \subseteq present

WalkOK ==
  /\ page > 0 => page = Len(answers) + 1
  /\ Seen \subseteq present \cup deleted

\* How many rows the client has asked for.
Asked == Len(answers) * PageSize

\* Items that the next page may show again: they have been pushed back.
AtRisk == {i \in Seen \cap present : Rank(i) >= Asked}

\* Items that no page will show: they have moved up, past the offset.
Skipped == {i \in (before \ lost) \ Seen : Rank(i) < Asked}

RepeatsBounded == Cardinality(Repeats) + Cardinality(AtRisk) <= Cardinality(created)

MissesBounded ==
  IF Over THEN WalkMissesFew ELSE Cardinality(Skipped) <= Cardinality(lost)

IndInv == TypeOK /\ TimesDiffer /\ ItemsOK /\ WalkOK /\ RepeatsBounded /\ MissesBounded
=============================================================================
