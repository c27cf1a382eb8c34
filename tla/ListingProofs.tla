----------------------------- MODULE ListingProofs -----------------------------
(***************************************************************************)
(* Proofs about Listing, for any finite set of items, any page sizes and   *)
(* any cap.                                                                *)
(***************************************************************************)
EXTENDS Listing, FiniteSetTheorems, SequenceTheorems, TLAPS

(* Ranks.                                                                  *)

LEMMA Places ==
  ASSUME NEW a \in Int, NEW n \in Nat
  PROVE  IsFiniteSet(a..(a + n - 1)) /\ Cardinality(a..(a + n - 1)) = n
<1>1. a + n - 1 \in Int
  OBVIOUS
<1>2. IsFiniteSet(a..(a + n - 1))
      /\ Cardinality(a..(a + n - 1)) = IF a > a + n - 1 THEN 0 ELSE (a + n - 1) - a + 1
  BY <1>1, FS_Interval
<1>. QED
  BY <1>2

Live == present \cap Listed
Above(i) == {j \in Live : Newer(j, i)}

LEMMA LiveFinite ==
  TypeOK => IsFiniteSet(Live) /\ Cardinality(Live) \in Nat /\ Live \subseteq Items
  BY ListedAssumption, FS_Subset, FS_CardinalityType DEF Live, TypeOK

LEMMA RankType ==
  ASSUME TypeOK, NEW i
  PROVE  Rank(i) = Cardinality(Above(i)) /\ IsFiniteSet(Above(i)) /\ Rank(i) \in Nat
<1>1. Rank(i) = Cardinality(Above(i))
  BY DEF Rank, Above, Live
<1>2. IsFiniteSet(Above(i))
  BY LiveFinite, FS_Subset DEF Above
<1>. QED
  BY <1>1, <1>2, FS_CardinalityType

\* The newer of two items stands before the other.
LEMMA NewerFirst ==
  ASSUME TypeOK, NEW i \in Live, NEW j \in Live, time[i] > time[j]
  PROVE  Rank(i) < Rank(j)
<1>1. i \in Items /\ j \in Items /\ \A k \in Items : time[k] \in Int
  <2>1. Cardinality(Items) \in Nat
    BY ListedAssumption, FS_CardinalityType
  <2>. QED
    BY <2>1, LiveFinite DEF TypeOK
<1>2. Above(i) \subseteq Above(j)
  BY <1>1, LiveFinite DEF Above, Newer
<1>3. i \in Above(j) /\ i \notin Above(i)
  BY <1>1 DEF Above, Newer
<1>4. Cardinality(Above(i)) <= Cardinality(Above(j))
      /\ (Cardinality(Above(i)) = Cardinality(Above(j)) => Above(i) = Above(j))
  BY <1>2, RankType, FS_Subset
<1>. QED
  BY <1>3, <1>4, RankType

LEMMA RanksDiffer ==
  ASSUME TypeOK, TimesDiffer, NEW i \in Live, NEW j \in Live, Rank(i) = Rank(j)
  PROVE  i = j
<1>1. i \in Items /\ j \in Items /\ time[i] \in Int /\ time[j] \in Int
  <2>1. Cardinality(Items) \in Nat
    BY ListedAssumption, FS_CardinalityType
  <2>. QED
    BY <2>1, LiveFinite DEF TypeOK
<1>2. Rank(i) \in Nat /\ Rank(j) \in Nat
  BY RankType
<1>3. time[i] = time[j]
  BY <1>1, <1>2, NewerFirst
<1>. QED
  BY <1>1, <1>3 DEF TimesDiffer, Live

LEMMA RankBelow ==
  ASSUME TypeOK, NEW i \in Live
  PROVE  Rank(i) < Cardinality(Live)
<1>1. i \in Items /\ time[i] \in Int
  <2>1. Cardinality(Items) \in Nat
    BY ListedAssumption, FS_CardinalityType
  <2>. QED
    BY <2>1, LiveFinite DEF TypeOK
<1>2. Above(i) \subseteq Live /\ i \notin Above(i)
  BY <1>1 DEF Above, Newer
<1>3. Cardinality(Above(i)) <= Cardinality(Live)
      /\ (Cardinality(Above(i)) = Cardinality(Live) => Above(i) = Live)
  BY <1>2, LiveFinite, FS_Subset
<1>. QED
  BY <1>2, <1>3, RankType, LiveFinite

\* Some item stands at every place of the listing.
LEMMA EveryPlaceTaken ==
  ASSUME TypeOK, TimesDiffer, NEW k \in Nat, k < Cardinality(Live)
  PROVE  \E i \in Live : Rank(i) = k
<1>. PICK n : n = Cardinality(Live)
  OBVIOUS
<1>. DEFINE places == 0..(0 + n - 1)
            rank == [i \in Live |-> Rank(i)]
<1>1. n \in Nat /\ 0 \in Int /\ IsFiniteSet(Live)
  BY LiveFinite
<1>2. IsFiniteSet(places) /\ Cardinality(places) = n
  BY <1>1, Places
<1>3. rank \in [Live -> places]
  <2>1. ASSUME NEW i \in Live
        PROVE  Rank(i) \in places
    BY <1>1, RankBelow, RankType
  <2>. QED BY <2>1
<1>4. rank \in Injection(Live, places)
  BY <1>3, RanksDiffer DEF Injection, IsInjective
<1>5. rank \in Surjection(Live, places)
  BY <1>1, <1>2, <1>4, FS_Injection
<1>6. k \in places
  BY <1>1
<1>7. PICK i \in Live : rank[i] = k
  BY <1>5, <1>6 DEF Surjection
<1>. QED
  BY <1>7

\* One item at most stands at a place.
LEMMA OnePerPlace ==
  ASSUME TypeOK, TimesDiffer, NEW S, S \subseteq Live, NEW k
  PROVE  LET T == {i \in S : Rank(i) = k}
         IN  IsFiniteSet(T) /\ Cardinality(T) \in Nat /\ Cardinality(T) <= 1
<1>. DEFINE T == {i \in S : Rank(i) = k}
<1>1. CASE T = {}
  BY <1>1, FS_EmptySet
<1>2. CASE T # {}
  <2>1. PICK i \in T : TRUE
    BY <1>2
  <2>2. T = {i}
    BY <2>1, RanksDiffer
  <2>. QED BY <2>2, FS_Singleton
<1>. QED
  BY <1>1, <1>2

LEMMA PageSizeType ==
  ASSUME TypeOK
  PROVE  /\ PageSize \in Nat /\ PageSize <= MAX_PAGE_SIZE /\ MAX_PAGE_SIZE \in Nat
         /\ listing.of = "entries" => PageSize > 0
<1>1. listing.size \in PageSizes /\ listing.of \in {"projects", "reports", "entries"}
      /\ (listing.of = "reports" \/ listing.size \in 1..MAX_PAGE_SIZE)
  BY DEF TypeOK, Accepted
<1>2. listing.size \in Nat
  BY <1>1, SizesAssumption, Zenon
<1>3. MAX_PAGE_SIZE \in Nat /\ MAX_PAGE_SIZE > 0
  <2>1. MAX_PAGE_SIZE \in Nat \ {0}
    BY SizesAssumption
  <2>. QED BY <2>1
<1>. QED
  BY <1>1, <1>2, <1>3 DEF PageSize

\* A page has at most as many items as its size.
LEMMA PageFits ==
  ASSUME TypeOK, TimesDiffer, NEW p \in Nat \ {0}
  PROVE  /\ IsFiniteSet(Rows(p)) /\ Cardinality(Rows(p)) \in Nat
         /\ Cardinality(Rows(p)) <= PageSize
         /\ Rows(p) \subseteq Live
<1>. DEFINE a == Offset(p)
            places == a..(a + PageSize - 1)
            rank == [i \in Rows(p) |-> Rank(i)]
<1>1. PageSize \in Nat
  BY PageSizeType
<1>2. a \in Int
  BY <1>1 DEF Offset
<1>. HIDE DEF a
<1>3. Rows(p) \subseteq Live /\ \A i \in Rows(p) : Rank(i) \in places
  BY DEF Rows, Live, a
<1>4. IsFiniteSet(places) /\ Cardinality(places) = PageSize
  BY <1>1, <1>2, Places
<1>5. rank \in Injection(Rows(p), places)
  BY <1>3, RanksDiffer DEF Injection, IsInjective
<1>6. IsFiniteSet(Rows(p)) /\ Cardinality(Rows(p)) <= Cardinality(places)
  BY <1>4, <1>5, FS_Injection
<1>. QED
  BY <1>3, <1>4, <1>6, FS_CardinalityType

-------------------------------------------------------------------------------
(* What is counted, and what a step of somebody else does to ranks.        *)

LEMMA Counted ==
  ASSUME TypeOK
  PROVE  /\ Seen \subseteq Listed /\ IsFiniteSet(Seen) /\ IsFiniteSet(Listed)
         /\ AtRisk \subseteq Listed /\ IsFiniteSet(AtRisk) /\ Cardinality(AtRisk) \in Nat
         /\ Skipped \subseteq Listed /\ IsFiniteSet(Skipped) /\ Cardinality(Skipped) \in Nat
         /\ IsFiniteSet(created) /\ Cardinality(created) \in Nat
         /\ IsFiniteSet(lost) /\ Cardinality(lost) \in Nat
         /\ Len(answers) \in Nat /\ Asked \in Nat
<1>1. IsFiniteSet(Listed)
  BY ListedAssumption, FS_Subset
<1>2. Seen \subseteq Listed
  BY ElementOfSeq DEF TypeOK, Seen
<1>3. AtRisk \subseteq Listed /\ Skipped \subseteq Listed
  BY <1>2 DEF AtRisk, Skipped, TypeOK
<1>4. created \subseteq Listed /\ lost \subseteq Listed
  BY DEF TypeOK
<1>5. Len(answers) \in Nat
  BY DEF TypeOK
<1>6. Asked \in Nat
  BY <1>5, PageSizeType DEF Asked
<1>. QED
  BY <1>1, <1>2, <1>3, <1>4, <1>5, <1>6, FS_Subset, FS_CardinalityType

LEMMA RepeatsFinite ==
  ASSUME TypeOK
  PROVE  IsFiniteSet(Repeats) /\ Cardinality(Repeats) \in Nat
<1>1. IsFiniteSet(1..Len(answers)) /\ IsFiniteSet(Listed)
  BY Counted, FS_Interval
<1>2. IsFiniteSet((1..Len(answers)) \X Listed)
  BY <1>1, FS_Product
<1>3. Repeats \subseteq (1..Len(answers)) \X Listed
  BY DEF Repeats
<1>. QED
  BY <1>2, <1>3, FS_Subset, FS_CardinalityType

LEMMA TimesAreNumbers ==
  TypeOK => \A i \in Items : time[i] \in Nat
<1>1. Cardinality(Items) \in Nat
  BY ListedAssumption, FS_CardinalityType
<1>. QED
  BY <1>1 DEF TypeOK

LEMMA RanksOnDraw ==
  ASSUME TypeOK, TimesDiffer, NEW c \in Items, Draw(c)
  PROVE  \A i \in Live : Rank(i)' = Rank(i)
<1>1. c \notin present /\ present' = present
  BY DEF Draw, TimesDiffer
<1>2. ASSUME NEW i \in Live
      PROVE  Above(i)' = Above(i)
  <2>1. \A j \in Live : time'[j] = time[j]
    BY <1>1, LiveFinite DEF Draw, TypeOK, Live
  <2>2. Live' = Live
    BY <1>1 DEF Live
  <2>3. \A j \in Live : Newer(j, i)' <=> Newer(j, i)
    BY <2>1 DEF Newer
  <2>. QED
    BY <2>2, <2>3 DEF Above
<1>3. \A i : Rank(i) = Cardinality(Above(i)) /\ Rank(i)' = Cardinality(Above(i)')
  BY DEF Rank, Above, Live
<1>. QED
  BY <1>2, <1>3

LEMMA RanksOnCommit ==
  ASSUME TypeOK, TimesDiffer, NEW c \in Items, Commit(c)
  PROVE  \A i \in Live :
           /\ Rank(i)' \in {Rank(i), Rank(i) + 1}
           /\ c \notin Listed => Rank(i)' = Rank(i)
<1>. TAKE i \in Live
<1>1. Rank(i)' = Cardinality(Above(i)')
  BY DEF Rank, Above, Live
<1>2. c \notin Above(i)
  BY DEF Above, Live, Commit
<1>3. \A j : Newer(j, i)' <=> Newer(j, i)
  BY DEF Newer, Commit
<1>4. Above(i)' = IF c \in Listed /\ Newer(c, i) THEN Above(i) \cup {c} ELSE Above(i)
  BY <1>3 DEF Above, Live, Commit
<1>5. Cardinality(Above(i) \cup {c}) = Rank(i) + 1
  BY <1>2, RankType, FS_AddElement
<1>. QED
  BY <1>1, <1>4, <1>5, RankType

LEMMA RanksOnDelete ==
  ASSUME TypeOK, NEW c \in Items, Delete(c)
  PROVE  \A i \in Live :
           /\ Rank(i)' \in Nat /\ (Rank(i)' = Rank(i) \/ Rank(i)' = Rank(i) - 1)
           /\ c \notin Listed => Rank(i)' = Rank(i)
<1>. TAKE i \in Live
<1>1. Rank(i)' = Cardinality(Above(i)')
  BY DEF Rank, Above, Live
<1>2. \A j : Newer(j, i)' <=> Newer(j, i)
  BY DEF Newer, Delete
<1>3. Above(i)' = Above(i) \ {c}
  BY <1>2 DEF Above, Live, Delete
<1>4. Cardinality(Above(i) \ {c}) = IF c \in Above(i) THEN Rank(i) - 1 ELSE Rank(i)
  BY RankType, FS_RemoveElement
<1>5. c \notin Listed => c \notin Above(i)
  BY DEF Above, Live
<1>6. Cardinality(Above(i) \ {c}) \in Nat
  BY RankType, FS_RemoveElement, FS_CardinalityType
<1>. QED
  BY <1>1, <1>3, <1>4, <1>5, <1>6, RankType

\* Two sets of which the first exceeds the second by what stands at one place.
LEMMA OneMore ==
  ASSUME TypeOK, TimesDiffer, NEW S, IsFiniteSet(S), NEW T,
         NEW P, P \subseteq Live, NEW k, T \subseteq S \cup {i \in P : Rank(i) = k}
  PROVE  /\ IsFiniteSet(T) /\ Cardinality(T) \in Nat /\ Cardinality(S) \in Nat
         /\ Cardinality(T) <= Cardinality(S) + 1
<1>. DEFINE U == {i \in P : Rank(i) = k}
<1>1. IsFiniteSet(U) /\ Cardinality(U) \in Nat /\ Cardinality(U) <= 1
  BY OnePerPlace
<1>. HIDE DEF U
<1>2. IsFiniteSet(S \cup U)
      /\ Cardinality(S \cup U) = Cardinality(S) + Cardinality(U) - Cardinality(S \cap U)
  BY <1>1, FS_Union
<1>3. Cardinality(S) \in Nat /\ Cardinality(S \cap U) \in Nat
  BY FS_CardinalityType, FS_Intersection
<1>4. T \subseteq S \cup U
  BY DEF U
<1>5. IsFiniteSet(T) /\ Cardinality(T) <= Cardinality(S \cup U)
  BY <1>2, <1>4, FS_Subset
<1>6. Cardinality(T) \in Nat
  BY <1>5, FS_CardinalityType
<1>. QED
  BY <1>1, <1>2, <1>3, <1>5, <1>6

-------------------------------------------------------------------------------
(* The steps of other requests.                                            *)

LEMMA WalkSame ==
  ASSUME UNCHANGED walk
  PROVE  /\ Seen' = Seen /\ Asked' = Asked /\ Repeats' = Repeats
         /\ Over' = Over /\ PageSize' = PageSize /\ Accepted' = Accepted
         /\ page' = page /\ answers' = answers /\ listing' = listing /\ before' = before
  BY DEF walk, Seen, Asked, Repeats, Over, PageSize, Accepted

LEMMA DrawStep ==
  ASSUME IndInv, NEW c \in Items, Draw(c)
  PROVE  IndInv'
<1>. USE DEF IndInv
<1>. DEFINE Drawn == {i \in Items : time[i] > 0}
<1>1. /\ time[c] = 0 /\ time' = [time EXCEPT ![c] = Now + 1]
      /\ UNCHANGED <<present, deleted, created, lost>> /\ UNCHANGED walk
  BY DEF Draw
<1>2. \A i \in Items : time[i] \in Nat
  BY TimesAreNumbers
<1>3. /\ Now = Cardinality(Drawn) /\ Now \in Nat /\ Now + 1 <= Cardinality(Items)
      /\ Cardinality(Items) \in Nat /\ Now' = Now + 1
  <2>1. IsFiniteSet(Items) /\ IsFiniteSet(Drawn) /\ c \notin Drawn
    BY <1>1, ListedAssumption, FS_Subset
  <2>2. Now = Cardinality(Drawn)
    BY DEF Now
  <2>3. Cardinality(Drawn \cup {c}) = Cardinality(Drawn) + 1
    BY <2>1, FS_AddElement
  <2>4. Cardinality(Drawn \cup {c}) <= Cardinality(Items)
    BY <2>1, FS_Subset
  <2>5. Now \in Nat /\ Cardinality(Items) \in Nat
    BY <2>1, <2>2, FS_CardinalityType
  <2>6. Now' = Cardinality(Drawn \cup {c})
    <3>1. Now' = Cardinality({i \in Items : time'[i] > 0})
      BY DEF Now
    <3>2. {i \in Items : time'[i] > 0} = Drawn \cup {c}
      BY <1>1, <1>2, <2>5 DEF TypeOK
    <3>. QED BY <3>1, <3>2
  <2>. QED
    BY <2>2, <2>3, <2>4, <2>5, <2>6
<1>. HIDE DEF Drawn
<1>4. TypeOK'
  <2>1. time' \in [Items -> 0..Cardinality(Items)]
    BY <1>1, <1>3 DEF TypeOK
  <2>. QED
    BY <1>1, <2>1, WalkSame DEF TypeOK
<1>5. TimesDiffer'
  <2>1. \A i \in Items : time'[i] = IF i = c THEN Now + 1 ELSE time[i]
    BY <1>1 DEF TypeOK
  <2>2. \A i \in Items : time[i] <= Now
    BY DEF TimesDiffer
  <2>3. \A i \in Items : time'[i] <= Now'
    BY <1>2, <1>3, <2>1, <2>2
  <2>4. ASSUME NEW i \in Items, NEW j \in Items, time'[i] = time'[j], time'[i] > 0
        PROVE  i = j
    BY <1>2, <1>3, <2>1, <2>2, <2>4 DEF TimesDiffer
  <2>5. \A i \in present \cup deleted : i \in Items /\ time'[i] > 0
    BY <1>2, <1>3, <2>1 DEF TimesDiffer, TypeOK
  <2>. QED
    BY <1>1, <2>3, <2>4, <2>5 DEF TimesDiffer
<1>6. ItemsOK' /\ WalkOK'
  BY <1>1, WalkSame DEF ItemsOK, WalkOK
<1>7. \A i \in Live : Rank(i)' = Rank(i)
  BY RanksOnDraw
<1>8. AtRisk' = AtRisk
  <2>1. Seen \cap present \subseteq Live
    BY Counted DEF Live
  <2>. QED
    BY <1>1, <1>7, <2>1, WalkSame DEF AtRisk
<1>9. Skipped' = Skipped
  <2>1. before \ lost \subseteq Live
    BY DEF ItemsOK, TypeOK, Live
  <2>. QED
    BY <1>1, <1>7, <2>1, WalkSame DEF Skipped
<1>10. RepeatsBounded' /\ MissesBounded'
  BY <1>1, <1>8, <1>9, WalkSame DEF RepeatsBounded, MissesBounded, WalkMissesFew, Over
<1>. QED
  BY <1>4, <1>5, <1>6, <1>10

LEMMA CommitStep ==
  ASSUME IndInv, NEW c \in Items, Commit(c)
  PROVE  IndInv'
<1>. USE DEF IndInv
<1>1. /\ time[c] > 0 /\ c \notin present /\ c \notin deleted
      /\ present' = present \cup {c} /\ created' = created \cup ({c} \cap Listed)
      /\ UNCHANGED <<time, deleted, lost>> /\ UNCHANGED walk
  BY DEF Commit
<1>2. TypeOK'
  BY <1>1, WalkSame DEF TypeOK
<1>3. TimesDiffer'
  BY <1>1 DEF TimesDiffer, Now
<1>4. ItemsOK' /\ WalkOK'
  BY <1>1, WalkSame DEF ItemsOK, WalkOK
<1>5. Asked \in Nat
  BY Counted
<1>6. Seen \cap present' = Seen \cap present /\ Seen \cap present \subseteq Live
  BY <1>1, Counted DEF WalkOK, Live
<1>7. RepeatsBounded'
  <2>1. AtRisk' = {i \in Seen \cap present : Rank(i)' >= Asked}
    BY <1>6, WalkSame, <1>1 DEF AtRisk
  <2>2. CASE c \in Listed
    <3>1. AtRisk' \subseteq AtRisk \cup {i \in Seen \cap present : Rank(i) = Asked - 1}
      <4>. SUFFICES ASSUME NEW i \in AtRisk', Rank(i) # Asked - 1
                    PROVE  i \in AtRisk
        BY <2>1
      <4>1. i \in Seen \cap present /\ i \in Live /\ Rank(i)' >= Asked
        BY <1>6, <2>1
      <4>2. Rank(i)' \in {Rank(i), Rank(i) + 1} /\ Rank(i) \in Nat
        BY <4>1, RanksOnCommit, RankType
      <4>. QED
        BY <1>5, <4>1, <4>2 DEF AtRisk
    <3>2. Cardinality(AtRisk') \in Nat /\ Cardinality(AtRisk') <= Cardinality(AtRisk) + 1
      BY <1>6, <3>1, OneMore, Counted
    <3>3. Cardinality(created') = Cardinality(created) + 1
      <4>1. c \notin created
        BY <1>1 DEF ItemsOK
      <4>2. created' = created \cup {c}
        BY <1>1, <2>2
      <4>. QED BY <4>1, <4>2, Counted, FS_AddElement
    <3>4. Repeats' = Repeats
      BY <1>1, WalkSame
    <3>5. Cardinality(Repeats) \in Int
      BY RepeatsFinite
    <3>. QED
      BY <3>2, <3>3, <3>4, <3>5, Counted DEF RepeatsBounded
  <2>3. CASE c \notin Listed
    <3>1. AtRisk' = AtRisk
      <4>1. ASSUME NEW i \in Seen \cap present
            PROVE  Rank(i)' = Rank(i)
        BY <1>6, <2>3, RanksOnCommit
      <4>. QED
        BY <2>1, <4>1 DEF AtRisk
    <3>2. created' = created /\ Repeats' = Repeats
      BY <1>1, <2>3, WalkSame
    <3>. QED
      BY <3>1, <3>2 DEF RepeatsBounded
  <2>. QED BY <2>2, <2>3
<1>8. MissesBounded'
  <2>1. before \ lost \subseteq Live
    BY DEF ItemsOK, TypeOK, Live
  <2>2. Skipped' \subseteq Skipped
    <3>1. Skipped' = {i \in (before \ lost) \ Seen : Rank(i)' < Asked}
      BY <1>1, WalkSame DEF Skipped
    <3>. SUFFICES ASSUME NEW i \in Skipped'
                  PROVE  i \in Skipped
      OBVIOUS
    <3>2. i \in (before \ lost) \ Seen /\ Rank(i)' < Asked
      BY <3>1
    <3>3. Rank(i)' \in {Rank(i), Rank(i) + 1} /\ Rank(i) \in Nat
      BY <2>1, <3>2, RanksOnCommit, RankType
    <3>. QED
      BY <1>5, <3>2, <3>3 DEF Skipped
  <2>3. Cardinality(Skipped') \in Nat /\ Cardinality(Skipped') <= Cardinality(Skipped)
    BY <2>2, Counted, FS_Subset, FS_CardinalityType
  <2>4. CASE ~Over
    BY <1>1, <2>3, <2>4, Counted, WalkSame DEF MissesBounded
  <2>5. CASE Over
    BY <1>1, <2>5, WalkSame DEF MissesBounded, WalkMissesFew
  <2>. QED BY <2>4, <2>5
<1>. QED
  BY <1>2, <1>3, <1>4, <1>7, <1>8

LEMMA DeleteStep ==
  ASSUME IndInv, NEW c \in Items, Delete(c)
  PROVE  IndInv'
<1>. USE DEF IndInv
<1>1. /\ c \in present /\ present' = present \ {c} /\ deleted' = deleted \cup {c}
      /\ lost' = lost \cup ({c} \cap Listed)
      /\ UNCHANGED <<time, created>> /\ UNCHANGED walk
  BY DEF Delete
<1>2. TypeOK'
  BY <1>1, WalkSame DEF TypeOK
<1>3. TimesDiffer'
  BY <1>1 DEF TimesDiffer, Now
<1>4. ItemsOK' /\ WalkOK'
  BY <1>1, WalkSame DEF ItemsOK, WalkOK, TypeOK
<1>5. Asked \in Nat
  BY Counted
<1>6. Seen \cap present \subseteq Live /\ before \ lost \subseteq Live
  BY Counted DEF Live, ItemsOK, TypeOK
<1>7. RepeatsBounded'
  <2>1. AtRisk' = {i \in Seen \cap present' : Rank(i)' >= Asked}
    BY WalkSame, <1>1 DEF AtRisk
  <2>2. ASSUME NEW i \in AtRisk'
        PROVE  i \in AtRisk
    <3>1. i \in Seen \cap present /\ i \in Live /\ Rank(i)' >= Asked
      BY <1>1, <1>6, <2>1
    <3>2. /\ Rank(i)' \in Nat /\ Rank(i) \in Nat
          /\ Rank(i)' = Rank(i) \/ Rank(i)' = Rank(i) - 1
      BY <3>1, RanksOnDelete, RankType
    <3>. QED
      BY <1>5, <3>1, <3>2 DEF AtRisk
  <2>3. Cardinality(AtRisk') \in Nat /\ Cardinality(AtRisk') <= Cardinality(AtRisk)
    BY <2>2, Counted, FS_Subset, FS_CardinalityType
  <2>4. Repeats' = Repeats /\ created' = created /\ Cardinality(Repeats) \in Int
    BY <1>1, WalkSame, RepeatsFinite
  <2>. QED
    BY <2>3, <2>4, Counted DEF RepeatsBounded
<1>8. MissesBounded'
  <2>1. CASE c \notin Listed
    <3>1. lost' = lost
      BY <1>1, <2>1
    <3>2. Skipped' = Skipped
      <4>1. ASSUME NEW i \in before \ lost
            PROVE  Rank(i)' = Rank(i)
        BY <1>6, <2>1, RanksOnDelete
      <4>2. Skipped' = {i \in (before \ lost) \ Seen : Rank(i)' < Asked}
        BY <1>1, <3>1, WalkSame DEF Skipped
      <4>. QED
        BY <4>1, <4>2 DEF Skipped
    <3>. QED
      BY <1>1, <3>1, <3>2, WalkSame DEF MissesBounded, WalkMissesFew
  <2>2. CASE c \in Listed
    <3>1. lost' = lost \cup {c} /\ c \notin lost
      BY <1>1, <2>2 DEF ItemsOK, TypeOK
    <3>2. Cardinality(lost') = Cardinality(lost) + 1
      BY <3>1, Counted, FS_AddElement
    <3>3. CASE ~Over
      <4>1. Skipped' = {i \in (before \ lost') \ Seen : Rank(i)' < Asked}
        BY <1>1, WalkSame DEF Skipped
      <4>2. Skipped' \subseteq Skipped \cup {i \in before \ lost : Rank(i) = Asked}
        <5>. SUFFICES ASSUME NEW i \in Skipped', Rank(i) # Asked
                      PROVE  i \in Skipped
          BY <3>1, <4>1
        <5>1. i \in (before \ lost) \ Seen /\ Rank(i)' < Asked
          BY <3>1, <4>1
        <5>2. /\ Rank(i)' \in Nat /\ Rank(i) \in Nat
              /\ Rank(i)' = Rank(i) \/ Rank(i)' = Rank(i) - 1
          BY <1>6, <5>1, RanksOnDelete, RankType
        <5>. QED
          BY <1>5, <5>1, <5>2 DEF Skipped
      <4>3. Cardinality(Skipped') \in Nat /\ Cardinality(Skipped') <= Cardinality(Skipped) + 1
        BY <1>6, <4>2, OneMore, Counted
      <4>. QED
        BY <1>1, <3>2, <3>3, <4>3, Counted, WalkSame DEF MissesBounded
    <3>4. CASE Over
      <4>. DEFINE missed == (before \ lost) \ Seen
      <4>1. IsFiniteSet(missed) /\ Cardinality(missed) \in Nat
        BY Counted, FS_Subset, FS_CardinalityType DEF TypeOK
      <4>2. before' = before /\ Seen' = Seen
        BY <1>1, WalkSame
      <4>3. (before \ lost') \ Seen \subseteq missed
        BY <3>1
      <4>4. Cardinality((before \ lost') \ Seen) \in Nat
            /\ Cardinality((before \ lost') \ Seen) <= Cardinality(missed)
        BY <4>1, <4>3, FS_Subset, FS_CardinalityType
      <4>5. PageSize > 0 => Cardinality(missed) <= Cardinality(lost)
        BY <3>4 DEF MissesBounded, WalkMissesFew
      <4>6. PageSize' = PageSize /\ Over' = Over
        BY <1>1, WalkSame
      <4>. HIDE DEF missed
      <4>7. PageSize > 0 => Cardinality((before \ lost') \ Seen) <= Cardinality(lost')
        BY <3>2, <4>1, <4>4, <4>5, Counted
      <4>. QED
        BY <3>4, <4>2, <4>6, <4>7 DEF MissesBounded, WalkMissesFew
    <3>. QED BY <3>3, <3>4
  <2>. QED BY <2>1, <2>2
<1>. QED
  BY <1>2, <1>3, <1>4, <1>7, <1>8

-------------------------------------------------------------------------------
(* The step of the client.                                                 *)

\* A client that is not told of another page has seen the end.
LEMMA LastPage ==
  ASSUME TypeOK, TimesDiffer, NEW p \in Nat \ {0}, PageSize > 0,
         ~(p < TotalPages(Total(p))), NEW i \in Live
  PROVE  Rank(i) < Offset(p) + PageSize
<1>1. /\ PageSize \in Nat /\ Rank(i) \in Nat /\ Cardinality(Live) \in Nat
      /\ Rank(i) < Cardinality(Live)
  BY PageSizeType, RankType, RankBelow, LiveFinite
<1>2. Offset(p) = (p - 1) * PageSize /\ Offset(p) \in Nat
  BY <1>1 DEF Offset
<1>3. CASE Rows(p) = {}
  <2>. SUFFICES ASSUME Rank(i) >= Offset(p) + PageSize
                PROVE  FALSE
    BY <1>1, <1>2
  <2>1. Offset(p) < Cardinality(Live)
    BY <1>1, <1>2
  <2>2. PICK j \in Live : Rank(j) = Offset(p)
    BY <1>2, <2>1, EveryPlaceTaken
  <2>3. j \in Rows(p)
    BY <1>1, <1>2, <2>2 DEF Rows, Live
  <2>. QED BY <1>3, <2>3
<1>4. CASE Rows(p) # {}
  <2>. PICK n, d : n = Cardinality(Live) /\ d = PageSize
    OBVIOUS
  <2>1. Total(p) = n /\ n \in Nat /\ n > 0 /\ d \in Nat /\ d > 0
    BY <1>1, <1>4 DEF Total, Live
  <2>2. TotalPages(Total(p)) = Ceil(n, d)
    BY <2>1 DEF TotalPages
  <2>3. Ceil(n, d) \in Int /\ n <= d * Ceil(n, d)
    BY <2>1 DEF Ceil
  <2>4. Ceil(n, d) <= p
    BY <2>2, <2>3
  <2>5. d * Ceil(n, d) <= d * p
    BY <2>1, <2>3, <2>4
  <2>6. d * p = (p - 1) * d + d
    BY <2>1
  <2>. QED
    BY <1>1, <1>2, <2>1, <2>3, <2>5, <2>6
<1>. QED BY <1>3, <1>4

LEMMA AskStep ==
  ASSUME IndInv, Ask
  PROVE  IndInv'
<1>. USE DEF IndInv
<1>. DEFINE R == Rows(page)
<1>1. /\ page > 0 /\ answers' = Append(answers, R)
      /\ page' = IF page < TotalPages(Total(page)) THEN page + 1 ELSE 0
      /\ UNCHANGED <<time, present, deleted, listing, before, created, lost>>
  BY DEF Ask, items
<1>2. /\ page \in Nat \ {0} /\ page = Len(answers) + 1 /\ Len(answers) \in Nat
  BY <1>1, Counted DEF WalkOK, TypeOK
<1>3. /\ R \subseteq Live /\ IsFiniteSet(R) /\ Cardinality(R) \in Nat
      /\ Cardinality(R) <= PageSize
  BY <1>2, PageFits
<1>4. /\ PageSize \in Nat /\ PageSize <= MAX_PAGE_SIZE /\ MAX_PAGE_SIZE \in Nat
      /\ PageSize' = PageSize
  BY <1>1, PageSizeType DEF PageSize
<1>5. Asked \in Nat /\ Offset(page) = Asked /\ Asked' = Asked + PageSize
  <2>1. Len(answers') = Len(answers) + 1
    BY <1>1, AppendProperties, <1>3 DEF TypeOK, Live
  <2>2. Asked' = (Len(answers) + 1) * PageSize
    BY <1>4, <2>1 DEF Asked
  <2>3. Offset(page) = Len(answers) * PageSize
    BY <1>2, <1>4 DEF Offset
  <2>. QED
    BY <1>2, <1>4, <2>2, <2>3, Counted DEF Asked
<1>6. \A i \in Live : i \in R <=> Rank(i) >= Asked /\ Rank(i) < Asked + PageSize
  BY <1>4, <1>5, RankType DEF Rows, Live
<1>7. \A i : Rank(i)' = Rank(i)
  BY <1>1 DEF Rank, Newer
<1>. HIDE DEF R
<1>8. /\ answers' \in Seq(SUBSET Listed) /\ Len(answers') = Len(answers) + 1
      /\ answers'[Len(answers) + 1] = R
      /\ \A n \in 1..Len(answers) : answers'[n] = answers[n]
  BY <1>1, <1>3, AppendProperties DEF TypeOK, Live
<1>9. /\ DOMAIN answers = 1..Len(answers) /\ DOMAIN answers' = 1..(Len(answers) + 1)
  BY <1>8, LenProperties DEF TypeOK
<1>10. Seen' = Seen \cup R
  <2>1. \A i \in Seen' : i \in Seen \cup R
    BY <1>2, <1>8, <1>9 DEF Seen
  <2>2. \A i \in Seen : i \in Seen'
    BY <1>2, <1>8, <1>9 DEF Seen
  <2>3. \A i \in R : i \in Seen'
    BY <1>2, <1>8, <1>9 DEF Seen
  <2>. QED BY <2>1, <2>2, <2>3
<1>11. TypeOK'
  <2>1. page' \in Nat
    BY <1>1, <1>2
  <2>2. \A n \in DOMAIN answers' : Cardinality(answers'[n]) <= MAX_PAGE_SIZE
    <3>1. \A n \in 1..Len(answers) : Cardinality(answers[n]) <= MAX_PAGE_SIZE
      BY <1>9 DEF TypeOK
    <3>2. Cardinality(R) <= MAX_PAGE_SIZE
      BY <1>3, <1>4
    <3>. QED
      BY <1>2, <1>8, <1>9, <3>1, <3>2
  <2>. QED
    BY <1>1, <1>8, <2>1, <2>2 DEF TypeOK, Accepted
<1>12. TimesDiffer' /\ ItemsOK'
  BY <1>1 DEF TimesDiffer, ItemsOK, Now
<1>13. WalkOK'
  <2>1. page' > 0 => page' = Len(answers') + 1
    BY <1>1, <1>2, <1>8
  <2>2. Seen' \subseteq present \cup deleted
    BY <1>3, <1>10 DEF WalkOK, Live
  <2>. QED
    BY <1>1, <2>1, <2>2 DEF WalkOK
<1>14. RepeatsBounded'
  <2>. DEFINE again == R \cap Seen
              shown == {Len(answers) + 1} \X again
  <2>1. IsFiniteSet(again) /\ Cardinality(again) \in Nat
    BY <1>3, FS_Intersection, FS_CardinalityType
  <2>2. IsFiniteSet(shown) /\ Cardinality(shown) = Cardinality(again)
    <3>1. IsFiniteSet({Len(answers) + 1}) /\ Cardinality({Len(answers) + 1}) = 1
      BY FS_Singleton
    <3>2. IsFiniteSet(shown) /\ Cardinality(shown) = 1 * Cardinality(again)
      BY <2>1, <3>1, FS_Product
    <3>. QED BY <2>1, <3>2
  <2>3. Repeats' \subseteq Repeats \cup shown
    <3>. SUFFICES ASSUME NEW s \in Repeats'
                  PROVE  s \in Repeats \cup shown
      OBVIOUS
    <3>1. /\ s \in (1..(Len(answers) + 1)) \X Listed
          /\ s[2] \in answers'[s[1]]
          /\ \E n \in 1..s[1] - 1 : s[2] \in answers'[n]
      BY <1>8 DEF Repeats
    <3>2. PICK n \in 1..s[1] - 1 : s[2] \in answers'[n]
      BY <3>1
    <3>3. n \in 1..Len(answers) /\ s[2] \in answers[n] /\ s[2] \in Seen
      BY <1>2, <1>8, <1>9, <3>1, <3>2 DEF Seen
    <3>4. CASE s[1] = Len(answers) + 1
      <4>1. s = <<Len(answers) + 1, s[2]>> /\ s[2] \in again
        BY <1>8, <3>1, <3>3, <3>4
      <4>. QED BY <4>1
    <3>5. CASE s[1] # Len(answers) + 1
      <4>1. s[1] \in 1..Len(answers) /\ s \in (1..Len(answers)) \X Listed
        BY <1>2, <3>1, <3>5
      <4>2. s[2] \in answers[s[1]]
        BY <1>8, <3>1, <4>1
      <4>. QED
        BY <3>2, <3>3, <4>1, <4>2 DEF Repeats
    <3>. QED BY <3>4, <3>5
  <2>4. /\ IsFiniteSet(Repeats') /\ Cardinality(Repeats') \in Nat
        /\ Cardinality(Repeats') <= Cardinality(Repeats) + Cardinality(again)
    <3>. HIDE DEF shown
    <3>1. /\ IsFiniteSet(Repeats \cup shown)
          /\ Cardinality(Repeats \cup shown) =
               Cardinality(Repeats) + Cardinality(shown) - Cardinality(Repeats \cap shown)
      BY <2>2, RepeatsFinite, FS_Union
    <3>2. Cardinality(Repeats \cap shown) \in Nat /\ Cardinality(Repeats) \in Nat
      BY RepeatsFinite, FS_Intersection, FS_CardinalityType
    <3>3. IsFiniteSet(Repeats') /\ Cardinality(Repeats') <= Cardinality(Repeats \cup shown)
      BY <2>3, <3>1, FS_Subset
    <3>. QED
      BY <2>1, <2>2, <3>1, <3>2, <3>3, FS_CardinalityType
  <2>5. AtRisk' \cup again \subseteq AtRisk /\ AtRisk' \cap again = {}
    <3>1. ASSUME NEW i \in AtRisk'
          PROVE  i \in AtRisk /\ i \notin again
      <4>1. i \in Seen \cup R /\ i \in present /\ Rank(i) >= Asked + PageSize
        BY <1>1, <1>5, <1>7, <1>10 DEF AtRisk
      <4>2. i \in Live /\ Rank(i) \in Nat
        BY <1>3, <4>1, Counted, RankType DEF Live
      <4>3. i \notin R
        BY <1>4, <1>5, <1>6, <4>1, <4>2
      <4>. QED
        BY <1>4, <1>5, <4>1, <4>2, <4>3 DEF AtRisk
    <3>2. ASSUME NEW i \in again
          PROVE  i \in AtRisk
      BY <1>3, <1>6, <3>2 DEF AtRisk, Live
    <3>. QED BY <3>1, <3>2
  <2>6. Cardinality(AtRisk') \in Nat
        /\ Cardinality(AtRisk') + Cardinality(again) <= Cardinality(AtRisk)
    <3>. HIDE DEF again
    <3>1. IsFiniteSet(AtRisk')
      BY <2>5, Counted, FS_Subset
    <3>2. Cardinality(AtRisk' \cup again) = Cardinality(AtRisk') + Cardinality(again)
      <4>1. Cardinality(AtRisk' \cup again) =
              Cardinality(AtRisk') + Cardinality(again) - Cardinality(AtRisk' \cap again)
        BY <2>1, <3>1, FS_Union
      <4>2. Cardinality(AtRisk' \cap again) = 0 /\ Cardinality(AtRisk') \in Nat
        BY <2>5, <3>1, FS_EmptySet, FS_CardinalityType
      <4>. QED BY <2>1, <4>1, <4>2
    <3>3. Cardinality(AtRisk' \cup again) <= Cardinality(AtRisk)
      BY <2>5, Counted, FS_Subset
    <3>. QED
      BY <3>1, <3>2, <3>3, FS_CardinalityType
  <2>. HIDE DEF again
  <2>7. Cardinality(Repeats) \in Nat
    BY RepeatsFinite
  <2>. QED
    BY <1>1, <2>1, <2>4, <2>6, <2>7, Counted DEF RepeatsBounded
<1>15. MissesBounded'
  <2>1. before \ lost \subseteq Live
    BY DEF ItemsOK, TypeOK, Live
  <2>2. Cardinality(Skipped) <= Cardinality(lost)
    BY <1>2 DEF MissesBounded, Over
  <2>3. ASSUME NEW S, S \subseteq Skipped
        PROVE  Cardinality(S) <= Cardinality(lost)
    <3>1. IsFiniteSet(S) /\ Cardinality(S) <= Cardinality(Skipped)
      BY <2>3, Counted, FS_Subset
    <3>. QED
      BY <2>2, <3>1, Counted, FS_CardinalityType
  <2>4. ASSUME NEW i \in (before \ lost) \ Seen', Rank(i) < Asked + PageSize
        PROVE  i \in Skipped
    <3>1. i \in Live /\ i \notin R /\ i \notin Seen /\ Rank(i) \in Nat
      BY <1>10, <2>1, <2>4, RankType
    <3>2. Rank(i) < Asked
      BY <1>4, <1>5, <1>6, <2>4, <3>1
    <3>. QED
      BY <2>4, <3>1, <3>2 DEF Skipped
  <2>5. CASE page' # 0
    <3>1. Skipped' \subseteq Skipped
      <4>1. ASSUME NEW i \in Skipped'
            PROVE  i \in Skipped
        <5>1. i \in (before \ lost) \ Seen' /\ Rank(i) < Asked + PageSize
          BY <1>1, <1>5, <1>7 DEF Skipped
        <5>. QED BY <2>4, <5>1
      <4>. QED BY <4>1
    <3>2. Cardinality(Skipped') <= Cardinality(lost)
      BY <2>3, <3>1
    <3>. QED
      BY <1>1, <2>5, <3>2 DEF MissesBounded, Over
  <2>6. CASE page' = 0
    <3>1. ~(page < TotalPages(Total(page)))
      BY <1>1, <1>2, <2>6
    <3>2. PageSize > 0 => (before \ lost) \ Seen' \subseteq Skipped
      <4>. SUFFICES ASSUME PageSize > 0, NEW i \in (before \ lost) \ Seen'
                    PROVE  i \in Skipped
        OBVIOUS
      <4>1. Rank(i) < Offset(page) + PageSize
        BY <1>2, <2>1, <3>1, LastPage
      <4>. QED BY <1>5, <2>4, <4>1
    <3>3. PageSize > 0 => Cardinality((before \ lost) \ Seen') <= Cardinality(lost)
      BY <2>3, <3>2
    <3>. QED
      BY <1>1, <1>4, <2>6, <3>3 DEF MissesBounded, WalkMissesFew, Over
  <2>. QED BY <2>5, <2>6
<1>. QED
  BY <1>11, <1>12, <1>13, <1>14, <1>15

-------------------------------------------------------------------------------
(* The theorems.                                                           *)

LEMMA InitIndInv ==
  ASSUME Init
  PROVE  IndInv
<1>1. /\ present \subseteq Items /\ deleted = {} /\ listing \in Accepted
      /\ time \in [Items -> 0..Cardinality(present)]
      /\ {i \in Items : time[i] > 0} = present
      /\ \A i, j \in present : time[i] = time[j] => i = j
      /\ page = 1 /\ answers = <<>> /\ before = present \cap Listed
      /\ created = {} /\ lost = {}
  BY DEF Init
<1>2. /\ IsFiniteSet(present) /\ Cardinality(present) \in Nat
      /\ Cardinality(present) <= Cardinality(Items) /\ Cardinality(Items) \in Nat
  BY <1>1, ListedAssumption, FS_Subset, FS_CardinalityType
<1>3. \A i \in Items : time[i] \in Nat /\ time[i] <= Cardinality(present)
  BY <1>1, <1>2
<1>4. Now = Cardinality(present)
  BY <1>1 DEF Now
<1>5. TypeOK
  <2>1. time \in [Items -> 0..Cardinality(Items)]
    BY <1>1, <1>2, <1>3
  <2>2. answers \in Seq(SUBSET Listed) /\ DOMAIN answers = {}
    BY <1>1
  <2>. QED
    BY <1>1, <2>1, <2>2 DEF TypeOK
<1>6. TimesDiffer
  <2>1. \A i, j \in Items : time[i] = time[j] /\ time[i] > 0 => i = j
    BY <1>1, <1>3
  <2>. QED
    BY <1>1, <1>3, <1>4, <2>1 DEF TimesDiffer
<1>7. Seen = {} /\ Len(answers) = 0
  BY <1>1 DEF Seen
<1>8. ItemsOK /\ WalkOK
  BY <1>1, <1>7 DEF ItemsOK, WalkOK
<1>9. RepeatsBounded
  <2>1. AtRisk = {} /\ Repeats = {}
    BY <1>7 DEF AtRisk, Repeats
  <2>. QED
    BY <1>1, <2>1, FS_EmptySet DEF RepeatsBounded
<1>10. MissesBounded
  <2>1. Asked = 0
    BY <1>5, <1>7, PageSizeType DEF Asked
  <2>2. Skipped = {}
    BY <1>5, <2>1, RankType DEF Skipped
  <2>. QED
    BY <1>1, <2>2, FS_EmptySet DEF MissesBounded, Over
<1>. QED
  BY <1>5, <1>6, <1>8, <1>9, <1>10 DEF IndInv

LEMMA StutterStep ==
  ASSUME IndInv, UNCHANGED vars
  PROVE  IndInv'
<1>1. UNCHANGED walk /\ UNCHANGED <<time, present, deleted, created, lost>>
  BY DEF vars, walk
<1>2. \A i : Rank(i)' = Rank(i)
  BY <1>1 DEF Rank, Newer
<1>3. AtRisk' = AtRisk /\ Skipped' = Skipped
  BY <1>1, <1>2, WalkSame DEF AtRisk, Skipped
<1>4. TypeOK' /\ TimesDiffer' /\ ItemsOK' /\ WalkOK'
  BY <1>1, WalkSame DEF IndInv, TypeOK, TimesDiffer, ItemsOK, WalkOK, Now
<1>5. RepeatsBounded' /\ MissesBounded'
  BY <1>1, <1>3, WalkSame DEF IndInv, RepeatsBounded, MissesBounded, WalkMissesFew
<1>. QED
  BY <1>4, <1>5 DEF IndInv

\* Ranks, offsets and what has been shown, missed, created and deleted fit together,
\* in every reachable state; no page is larger than the cap (list_projects.py:11).
THEOREM SpecIndInv == Spec => []IndInv
<1>1. IndInv /\ [Next]_vars => IndInv'
  BY AskStep, DrawStep, CommitStep, DeleteStep, StutterStep DEF Next
<1>. QED
  BY InitIndInv, <1>1, PTL DEF Spec

\* A walk misses at most one item that is there all along for each that is deleted
\* meanwhile, for any number of items and any size of the pages.
THEOREM SpecWalkMissesFew == Spec => []WalkMissesFew
<1>1. IndInv => WalkMissesFew
  BY DEF IndInv, MissesBounded, WalkMissesFew
<1>. QED
  BY <1>1, SpecIndInv, PTL

\* A walk shows at most one item again for each that is created meanwhile.
THEOREM SpecWalkRepeatsFew == Spec => []WalkRepeatsFew
<1>1. ASSUME IndInv
      PROVE  WalkRepeatsFew
  <2>1. /\ Cardinality(Repeats) \in Nat /\ Cardinality(AtRisk) \in Nat
        /\ Cardinality(created) \in Nat
    BY <1>1, RepeatsFinite, Counted DEF IndInv
  <2>. QED
    BY <1>1, <2>1 DEF IndInv, RepeatsBounded, WalkRepeatsFew
<1>. QED
  BY <1>1, SpecIndInv, PTL
=============================================================================
