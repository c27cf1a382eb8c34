--------------------------- MODULE SpreadsheetProofs ---------------------------
(***************************************************************************)
(* Proofs about Spreadsheet, for any well-formed files, any later ones and *)
(* any limits of the detection.                                            *)
(***************************************************************************)
EXTENDS CellTextProofs

-------------------------------------------------------------------------------
(* Cells have places in the order in which they are read.                  *)

Places == Nat \X Nat
Above(S, c) == {d \in S : Before(d, c)}

LEMMA BeforeIsAnOrder ==
  ASSUME NEW c \in Places, NEW d \in Places
  PROVE  /\ ~Before(c, c) /\ (c # d => Before(c, d) \/ Before(d, c))
         /\ \A e \in Places : Before(c, d) /\ Before(d, e) => Before(c, e)
  BY DEF Before, Places

LEMMA PlaceType ==
  ASSUME NEW S, IsFiniteSet(S), NEW c
  PROVE  /\ Place(S, c) = Cardinality(Above(S, c)) /\ IsFiniteSet(Above(S, c))
         /\ Place(S, c) \in Nat
<1>1. IsFiniteSet(Above(S, c))
  BY FS_Subset DEF Above
<1>. QED
  BY <1>1, FS_CardinalityType DEF Place, Above

LEMMA PlacesGrow ==
  ASSUME NEW S, IsFiniteSet(S), S \subseteq Places, NEW c \in S, NEW d \in S, Before(c, d)
  PROVE  Place(S, c) < Place(S, d)
<1>1. Above(S, c) \subseteq Above(S, d)
  BY BeforeIsAnOrder DEF Above
<1>2. c \in Above(S, d) /\ c \notin Above(S, c)
  BY BeforeIsAnOrder DEF Above
<1>3. Cardinality(Above(S, c)) <= Cardinality(Above(S, d))
      /\ (Cardinality(Above(S, d)) = Cardinality(Above(S, c)) => Above(S, d) = Above(S, c))
  BY <1>1, PlaceType, FS_Subset
<1>. QED
  BY <1>2, <1>3, PlaceType

LEMMA PlacesDiffer ==
  ASSUME NEW S, IsFiniteSet(S), S \subseteq Places, NEW c \in S, NEW d \in S,
         Place(S, c) = Place(S, d)
  PROVE  c = d
<1>1. Place(S, c) \in Nat
  BY PlaceType
<1>2. ~Before(c, d) /\ ~Before(d, c)
  BY <1>1, PlacesGrow
<1>. QED
  BY <1>2, BeforeIsAnOrder

LEMMA PlaceBelow ==
  ASSUME NEW S, IsFiniteSet(S), S \subseteq Places, NEW c \in S
  PROVE  Place(S, c) < Cardinality(S)
<1>1. Above(S, c) \subseteq S /\ c \notin Above(S, c)
  BY BeforeIsAnOrder DEF Above
<1>2. Cardinality(Above(S, c)) <= Cardinality(S)
      /\ (Cardinality(S) = Cardinality(Above(S, c)) => S = Above(S, c))
  BY <1>1, FS_Subset
<1>. QED
  BY <1>1, <1>2, PlaceType, FS_CardinalityType

\* Some cell is at every place.
LEMMA EveryPlaceTaken ==
  ASSUME NEW S, IsFiniteSet(S), S \subseteq Places, NEW k \in Nat, k < Cardinality(S)
  PROVE  \E c \in S : Place(S, c) = k
<1>. PICK n : n = Cardinality(S)
  OBVIOUS
<1>. DEFINE place == [c \in S |-> Place(S, c)]
<1>1. n \in Nat
  BY FS_CardinalityType
<1>2. place \in [S -> 0..(n - 1)]
  <2>1. ASSUME NEW c \in S
        PROVE  Place(S, c) \in 0..(n - 1)
    BY <1>1, PlaceType, PlaceBelow
  <2>. QED BY <2>1
<1>3. place \in Injection(S, 0..(n - 1))
  BY <1>2, PlacesDiffer DEF Injection, IsInjective
<1>4. place \in Surjection(S, 0..(n - 1))
  BY <1>1, <1>3, UpTo, FS_Injection
<1>5. k \in 0..(n - 1)
  BY <1>1
<1>6. PICK c \in S : place[c] = k
  BY <1>4, <1>5 DEF Surjection
<1>. QED
  BY <1>6

-------------------------------------------------------------------------------
(* Samples.                                                                *)

\* str() makes a text of every cell, and an empty one of none but the empty text.
LEMMA StrType ==
  ASSUME NEW cell \in Cell
  PROVE  Str(cell) \in Seq(Symbol) /\ (Str(cell) = <<>> <=> cell = <<>>)
<1>1. CASE cell \in Numbers
  <2>1. Str(cell) = Written[cell]
    BY <1>1 DEF Str
  <2>. QED BY <1>1, <2>1, NumbersAssumption
<1>2. CASE cell \notin Numbers
  <2>1. Str(cell) = cell
    BY <1>2 DEF Str
  <2>. QED BY <1>2, <2>1 DEF Cell
<1>. QED
  BY <1>1, <1>2

LEMMA LeastType ==
  ASSUME NEW m \in Nat, NEW n \in Nat
  PROVE  Min({m, n}) = (IF m < n THEN m ELSE n) /\ Min({m, n}) \in 0..n
         /\ Min({m, n}) \in 0..m
<1>. DEFINE least == IF m < n THEN m ELSE n
<1>1. least \in {m, n} /\ \A x \in {m, n} : least =< x
  OBVIOUS
<1>2. \A y \in {m, n} : (\A x \in {m, n} : y =< x) => y = least
  OBVIOUS
<1>3. Min({m, n}) = least
  BY <1>1, <1>2 DEF Min
<1>. QED
  BY <1>3

LEMMA FileType ==
  ASSUME NEW f \in Files
  PROVE  /\ f.format \in {"csv", "xlsx"}
         /\ f.headers \in Seq(Header \cup {None}) /\ Columns(f) = 1..Len(f.headers)
         /\ Len(f.headers) \in Nat
         /\ f.rows \in Seq(Seq(Cell)) /\ Len(f.rows) \in Nat
         /\ Sampled(f) \subseteq DOMAIN f.rows /\ DOMAIN f.rows = 1..Len(f.rows)
         /\ IsFiniteSet(Sampled(f)) /\ IsFiniteSet(Columns(f))
         /\ Sampled(f) \subseteq Nat /\ Columns(f) \subseteq Nat
<1>1. f \in File
  BY FilesAssumption
<1>2. /\ f.format \in {"csv", "xlsx"} /\ f.headers \in Seq(Header \cup {None})
      /\ f.rows \in Seq(Seq(Cell))
  BY <1>1 DEF File
<1>3. Len(f.headers) \in Nat /\ Len(f.rows) \in Nat
      /\ DOMAIN f.headers = 1..Len(f.headers) /\ DOMAIN f.rows = 1..Len(f.rows)
  BY <1>2, LenProperties
<1>4. PICK m \in 0..Len(f.rows) : Sampled(f) = 1..m
  BY <1>3, LeastType, LimitsAssumption DEF Sampled
<1>5. Sampled(f) \subseteq DOMAIN f.rows /\ Sampled(f) \subseteq Nat
  BY <1>3, <1>4
<1>6. IsFiniteSet(Sampled(f)) /\ IsFiniteSet(Columns(f))
  BY <1>3, <1>4, UpTo DEF Columns
<1>. QED
  BY <1>2, <1>3, <1>5, <1>6 DEF Columns

LEMMA CellType ==
  ASSUME NEW f \in Files, NEW r \in DOMAIN f.rows, NEW i \in DOMAIN f.rows[r]
  PROVE  f.rows[r][i] \in Cell
<1>1. f.rows[r] \in Seq(Cell)
  BY FileType, ElementOfSeq
<1>. QED
  BY <1>1, ElementOfSeq

LEMMA GreatestType ==
  ASSUME NEW S, IsFiniteSet(S), S \subseteq Nat, S # {}
  PROVE  Max(S) \in S /\ \A x \in S : Max(S) >= x
<1>. DEFINE row == {1} \X S
<1>. PICK n : n = Cardinality(row)
  OBVIOUS
<1>1. IsFiniteSet(row) /\ row \subseteq Places
  <2>1. IsFiniteSet({1})
    BY FS_Singleton
  <2>2. IsFiniteSet({1} \X S)
    BY <2>1, FS_Product
  <2>3. {1} \subseteq Nat
    OBVIOUS
  <2>4. \A A : A \subseteq Nat => A \X S \subseteq Nat \X Nat
    OBVIOUS
  <2>. QED BY <2>2, <2>3, <2>4 DEF Places
<1>2. row # {}
  <2>1. PICK x \in S : TRUE
    OBVIOUS
  <2>2. <<1, x>> \in row
    OBVIOUS
  <2>. QED BY <2>2
<1>. HIDE DEF row
<1>3. n \in Nat /\ n # 0
  BY <1>1, <1>2, FS_CardinalityType, FS_EmptySet
<1>4. PICK c \in row : Place(row, c) = n - 1
  BY <1>1, <1>3, EveryPlaceTaken
<1>5. ASSUME NEW d \in row
      PROVE  ~Before(c, d)
  <2>1. Place(row, d) < n /\ Place(row, d) \in Nat
    BY <1>1, PlaceBelow, PlaceType
  <2>2. SUFFICES ASSUME Before(c, d) PROVE FALSE
    OBVIOUS
  <2>3. n - 1 < Place(row, d)
    BY <1>1, <1>4, <2>2, PlacesGrow
  <2>. QED BY <1>3, <2>1, <2>3
<1>6. c[2] \in S /\ \A x \in S : c[2] >= x
  <2>1. c[1] = 1 /\ c[2] \in S
    BY DEF row
  <2>2. ASSUME NEW x \in S
        PROVE  c[2] >= x
    <3>1. <<1, x>> \in row
      BY DEF row
    <3>2. ~Before(c, <<1, x>>)
      BY <1>5, <3>1
    <3>3. c[2] \in Nat /\ x \in Nat /\ ~(c[2] < x)
      BY <2>1, <3>2 DEF Before
    <3>. QED BY <3>3
  <2>. QED BY <2>1, <2>2
<1>7. \E m \in S : \A x \in S : m >= x
  BY <1>6
<1>. QED
  BY <1>7 DEF Max

\* A header is read from some of the columns.
LEMMA ReadFromColumns ==
  ASSUME NEW f \in Files, NEW h, NEW i \in Columns(f), Shown(f, i) = h
  PROVE  ReadFrom(f, h) \subseteq Columns(f)
<1>. DEFINE at == {j \in Columns(f) : Shown(f, j) = h}
<1>1. at \subseteq Columns(f) /\ i \in at
  OBVIOUS
<1>2. ReadFrom(f, h) = (IF f.format = "csv" THEN {Max(at)} ELSE at)
  BY DEF ReadFrom
<1>3. at \subseteq Nat /\ IsFiniteSet(at) /\ at # {}
  BY <1>1, FileType, FS_Subset
<1>. HIDE DEF at
<1>4. Max(at) \in at
  BY <1>3, GreatestType
<1>. QED
  BY <1>1, <1>2, <1>4

LEMMA CellsType ==
  ASSUME NEW f \in Files, NEW h, NEW i \in Columns(f), Shown(f, i) = h
  PROVE  /\ Cells(f, h) \subseteq Places /\ IsFiniteSet(Cells(f, h))
         /\ NewValues(f, h) \subseteq Cells(f, h) /\ IsFiniteSet(NewValues(f, h))
<1>1. ReadFrom(f, h) \subseteq Columns(f)
  BY ReadFromColumns
<1>2. IsFiniteSet(ReadFrom(f, h)) /\ IsFiniteSet(Sampled(f))
  BY <1>1, FileType, FS_Subset
<1>3. IsFiniteSet(Sampled(f) \X ReadFrom(f, h))
  BY <1>2, FS_Product
<1>4. Cells(f, h) \subseteq Sampled(f) \X ReadFrom(f, h)
  BY DEF Cells
<1>5. Sampled(f) \subseteq Nat /\ ReadFrom(f, h) \subseteq Nat
  BY <1>1, FileType
<1>6. Cells(f, h) \subseteq Nat \X Nat
  BY <1>4, <1>5
<1>7. NewValues(f, h) \subseteq Cells(f, h)
  BY DEF NewValues
<1>. QED
  BY <1>3, <1>4, <1>6, <1>7, FS_Subset DEF Places

\* What FirstValues shows: the values of the first n cells, in their order.
LEMMA Shows ==
  ASSUME NEW f, NEW S, IsFiniteSet(S), S \subseteq Places,
         NEW n \in Nat, n <= Cardinality(S)
  PROVE  /\ Len(FirstValues(f, S, n)) = n /\ DOMAIN FirstValues(f, S, n) = 1..n
         /\ \A k \in 1..n : \E c \in S :
              Place(S, c) = k - 1 /\ FirstValues(f, S, n)[k] = Value(f, c)
<1>1. FirstValues(f, S, n) =
        [k \in 1..n |-> Value(f, CHOOSE c \in S : Place(S, c) = k - 1)]
  BY DEF FirstValues
<1>2. ASSUME NEW k \in 1..n
      PROVE  \E c \in S :
               Place(S, c) = k - 1 /\ FirstValues(f, S, n)[k] = Value(f, c)
  <2>. DEFINE c == CHOOSE x \in S : Place(S, x) = k - 1
  <2>1. k - 1 \in Nat /\ k - 1 < Cardinality(S) /\ Cardinality(S) \in Nat
    BY FS_CardinalityType
  <2>2. \E x \in S : Place(S, x) = k - 1
    BY <2>1, EveryPlaceTaken
  <2>3. c \in S /\ Place(S, c) = k - 1
    BY <2>2
  <2>4. FirstValues(f, S, n)[k] = Value(f, c)
    BY <1>1
  <2>. QED BY <2>3, <2>4
<1>. QED
  BY <1>1, <1>2

\* Every value that is read is new once, and once only.
LEMMA ReadForTheFirstTime ==
  ASSUME NEW f \in Files, NEW h, NEW i \in Columns(f), Shown(f, i) = h,
         NEW c \in Cells(f, h)
  PROVE  \E d \in NewValues(f, h) : Value(f, d) = Value(f, c)
<1>. DEFINE T == {d \in Cells(f, h) : Value(f, d) = Value(f, c)}
<1>1. T \subseteq Places /\ IsFiniteSet(T) /\ T # {}
  BY CellsType, FS_Subset
<1>2. T \subseteq Cells(f, h) /\ \A d \in T : Value(f, d) = Value(f, c)
  OBVIOUS
<1>3. \A d \in Cells(f, h) : Value(f, d) = Value(f, c) => d \in T
  OBVIOUS
<1>. HIDE DEF T
<1>4. Cardinality(T) \in Nat /\ Cardinality(T) # 0
  BY <1>1, FS_CardinalityType, FS_EmptySet
<1>5. PICK d \in T : Place(T, d) = 0
  BY <1>1, <1>4, EveryPlaceTaken
<1>6. Above(T, d) = {}
  BY <1>1, <1>5, PlaceType, FS_EmptySet
<1>7. ASSUME NEW e \in Cells(f, h), Before(e, d)
      PROVE  Value(f, e) # Value(f, d)
  BY <1>2, <1>3, <1>6, <1>7 DEF Above
<1>. QED
  BY <1>2, <1>7 DEF NewValues

LEMMA NewOnce ==
  ASSUME NEW f \in Files, NEW h, NEW i \in Columns(f), Shown(f, i) = h,
         NEW c \in NewValues(f, h), NEW d \in NewValues(f, h), Value(f, c) = Value(f, d)
  PROVE  c = d
<1>1. c \in Cells(f, h) /\ d \in Cells(f, h) /\ c \in Places /\ d \in Places
  BY CellsType
<1>2. ~Before(c, d) /\ ~Before(d, c)
  BY <1>1 DEF NewValues
<1>. QED
  BY <1>1, <1>2, BeforeIsAnOrder

\* The samples of a header are different values that are read for it, as many as
\* there are or as fit.
LEMMA SamplesOfHeader ==
  ASSUME NEW f \in Files, NEW h, NEW i \in Columns(f), Shown(f, i) = h
  PROVE  LET shown == Range(Samples(f, h))
             there == {Value(f, c) : c \in Cells(f, h)}
         IN  /\ shown \subseteq there
             /\ Cardinality(shown) = Min({MAX_SAMPLES, Cardinality(there)})
             /\ Cardinality(shown) = Len(Samples(f, h))
             /\ Len(Samples(f, h)) <= MAX_SAMPLES
<1>. DEFINE S == NewValues(f, h)
            n == Min({MAX_SAMPLES, Cardinality(S)})
            shown == Range(Samples(f, h))
            there == {Value(f, c) : c \in Cells(f, h)}
<1>1. IsFiniteSet(S) /\ S \subseteq Cells(f, h) /\ S \subseteq Places
  BY CellsType
<1>2. n \in Nat /\ n <= Cardinality(S) /\ n <= MAX_SAMPLES
  BY <1>1, FS_CardinalityType, LeastType, LimitsAssumption
<1>3. Samples(f, h) = FirstValues(f, S, n)
  BY DEF Samples
<1>. HIDE DEF n, S
<1>. PICK s : s = Samples(f, h)
  OBVIOUS
<1>4. /\ Len(s) = n /\ DOMAIN s = 1..n
      /\ \A k \in 1..n : \E c \in S : Place(S, c) = k - 1 /\ s[k] = Value(f, c)
  BY <1>1, <1>2, <1>3, Shows
<1>5. shown \subseteq there
  BY <1>1, <1>4 DEF Range
<1>6. Cardinality(shown) = n
  <2>1. ASSUME NEW k \in 1..n, NEW l \in 1..n, s[k] = s[l]
        PROVE  k = l
    <3>1. PICK c \in S : Place(S, c) = k - 1 /\ s[k] = Value(f, c)
      BY <1>4
    <3>2. PICK d \in S : Place(S, d) = l - 1 /\ s[l] = Value(f, d)
      BY <1>4
    <3>3. c = d
      BY <2>1, <3>1, <3>2, NewOnce DEF S
    <3>. QED BY <1>2, <3>1, <3>2, <3>3
  <2>. DEFINE sample == [k \in 1..n |-> s[k]]
  <2>2. shown = {s[k] : k \in 1..n}
    BY <1>4 DEF Range
  <2>3. sample \in Surjection(1..n, shown)
    BY <2>2 DEF Surjection
  <2>4. sample \in Injection(1..n, shown)
    BY <2>1, <2>2 DEF Injection, IsInjective
  <2>. QED BY <1>2, <2>3, <2>4, UpTo, FS_Surjection
<1>7. Cardinality(there) = Cardinality(S)
  <2>. DEFINE value == [c \in S |-> Value(f, c)]
  <2>1. \A t \in there : \E d \in S : Value(f, d) = t
    BY ReadForTheFirstTime DEF S
  <2>2. \A c \in S : Value(f, c) \in there
    BY <1>1
  <2>3. \A c, d \in S : Value(f, c) = Value(f, d) => c = d
    BY NewOnce DEF S
  <2>. HIDE DEF there
  <2>4. value \in Surjection(S, there) /\ value \in Injection(S, there)
    BY <2>1, <2>2, <2>3 DEF Surjection, Injection, IsInjective
  <2>. QED BY <1>1, <2>4, FS_Surjection
<1>8. n = Min({MAX_SAMPLES, Cardinality(S)})
  BY DEF n
<1>. QED
  BY <1>2, <1>4, <1>5, <1>6, <1>7, <1>8

-------------------------------------------------------------------------------
(* The inductive invariant.                                                *)

\* What the worker makes of a file.
Result(f) ==
  [r \in DOMAIN f.rows |->
    [i \in Columns(f) |-> Normalize(Decoded(f.headers[i]), CellOf(f, r, i))]]

\* What each stage has left behind.
StagesOK ==
  /\ stage = "chosen" => DOMAIN configs = {}
  /\ stage = "detected" => detected = [h \in DetectedHeaders(file) |-> Samples(file, h)]
  /\ DOMAIN configs \subseteq {Strip(h) : h \in DOMAIN detected}
  /\ stage \in {"uploaded", "processed"} => Enabled \subseteq ReadHeaders(file)
  /\ stage = "refused" => ~(Enabled \subseteq ReadHeaders(file))
  /\ stage = "processed" => result = Result(file)

IndInv == TypeOK /\ StagesOK

LEMMA HeaderFacts ==
  ASSUME NEW h \in Header
  PROVE  /\ Strip(h) \in Header /\ (~h.padded => Strip(h) = h)
         /\ Decoded(h) \in Header /\ Decoded(h).name = h.name
         /\ ~h.bom => Decoded(h) = h
         /\ h # None
<1>1. h = [name |-> h.name, padded |-> h.padded, bom |-> h.bom]
      /\ h.name \in STRING /\ h.padded \in BOOLEAN /\ h.bom \in BOOLEAN
  BY DEF Header
<1>2. h # None
  BY FilesAssumption
<1>3. Decoded(h) = [h EXCEPT !.bom = FALSE]
  BY <1>2 DEF Decoded
<1>. QED
  BY <1>1, <1>2, <1>3 DEF Header, Strip

LEMMA ShownHeaders ==
  ASSUME NEW f \in Files
  PROVE  /\ \A i \in Columns(f) : Shown(f, i) \in Header
         /\ \A i \in Columns(f) : f.headers[i] \in Header \cup {None}
         /\ DetectedHeaders(f) \subseteq Header
         /\ \A h \in DetectedHeaders(f) : \E i \in Columns(f) : Shown(f, i) = h
<1>1. ASSUME NEW i \in Columns(f)
      PROVE  f.headers[i] \in Header \cup {None}
  BY FileType, ElementOfSeq
<1>2. ASSUME NEW i \in Columns(f)
      PROVE  Shown(f, i) \in Header
  <2>. DEFINE name == "col_" \o ToString(i - 1)
  <2>1. name \in STRING
    BY FilesAssumption DEF Columns
  <2>. HIDE DEF name
  <2>2. Named(name) \in Header
    BY <2>1 DEF Named, Header
  <2>3. Shown(f, i) = IF f.headers[i] = None THEN Named(name) ELSE f.headers[i]
    BY DEF Shown, name
  <2>. QED BY <1>1, <2>2, <2>3
<1>3. \A h \in DetectedHeaders(f) : \E i \in Columns(f) : Shown(f, i) = h
  BY DEF DetectedHeaders
<1>. QED
  BY <1>1, <1>2, <1>3

LEMMA InitIndInv == Init => IndInv
<1>. SUFFICES ASSUME Init PROVE IndInv
  OBVIOUS
<1>1. DOMAIN detected = {} /\ DOMAIN configs = {}
  BY DEF Init
<1>. QED
  BY <1>1 DEF Init, IndInv, TypeOK, StagesOK

LEMMA DetectStep ==
  ASSUME IndInv, Detect
  PROVE  IndInv'
<1>1. /\ file \in Files /\ stage = "chosen" /\ file' = file /\ configs' = configs
      /\ result' = result
  BY DEF IndInv, TypeOK, Detect
<1>2. DOMAIN configs = {}
  BY <1>1 DEF IndInv, StagesOK
<1>3. CASE stage' = "failed" /\ detected' = detected
  BY <1>1, <1>2, <1>3 DEF IndInv, TypeOK, StagesOK
<1>4. CASE stage' = "detected"
           /\ detected' = [h \in DetectedHeaders(file) |-> Samples(file, h)]
  <2>1. ASSUME NEW h \in DOMAIN detected'
        PROVE  h \in Header /\ Len(detected'[h]) <= MAX_SAMPLES
    <3>1. h \in DetectedHeaders(file) /\ detected'[h] = Samples(file, h)
      BY <1>4
    <3>2. PICK i \in Columns(file) : Shown(file, i) = h
      BY <1>1, <3>1, ShownHeaders
    <3>3. Len(Samples(file, h)) <= MAX_SAMPLES
      BY <1>1, <3>2, SamplesOfHeader
    <3>. QED BY <1>1, <3>1, <3>3, ShownHeaders
  <2>2. TypeOK'
    BY <1>1, <1>2, <1>4, <2>1 DEF TypeOK
  <2>3. StagesOK'
    BY <1>1, <1>2, <1>4 DEF StagesOK
  <2>. QED BY <2>2, <2>3 DEF IndInv
<1>. QED
  BY <1>3, <1>4 DEF Detect

LEMMA ConfigureStep ==
  ASSUME IndInv, Configure
  PROVE  IndInv'
<1>1. /\ file \in Files /\ stage' = "configured" /\ file' = file
      /\ detected' = detected /\ result' = result
      /\ \A h \in DOMAIN detected : h \in Header /\ Len(detected[h]) <= MAX_SAMPLES
  BY DEF IndInv, TypeOK, Configure
<1>2. PICK chosen \in SUBSET {Strip(h) : h \in DOMAIN detected} :
        configs' \in [chosen -> [enabled : BOOLEAN, steps : StepSets(file)]]
  BY DEF Configure
<1>3. chosen \subseteq Header
  BY <1>1, HeaderFacts
<1>4. StepSets(file) \subseteq SUBSET Steps
  BY <1>1, FilesAssumption
<1>5. /\ DOMAIN configs' = chosen
      /\ \A c \in chosen : configs'[c] \in [enabled : BOOLEAN, steps : SUBSET Steps]
  BY <1>2, <1>4
<1>6. TypeOK'
  BY <1>1, <1>3, <1>5 DEF TypeOK
<1>7. StagesOK'
  BY <1>1, <1>5 DEF StagesOK
<1>. QED
  BY <1>6, <1>7 DEF IndInv

LEMMA UploadStep ==
  ASSUME IndInv, Upload
  PROVE  IndInv'
<1>1. /\ file' \in Files /\ detected' = detected /\ configs' = configs
      /\ result' = result /\ stage = "configured" /\ stage' \in {"uploaded", "refused"}
      /\ stage' = "uploaded" <=> Enabled \subseteq ReadHeaders(file')
  BY FilesAssumption DEF IndInv, TypeOK, Upload
<1>2. Enabled' = Enabled /\ ReadHeaders(file)' = ReadHeaders(file')
  BY <1>1 DEF Enabled, ReadHeaders
<1>3. TypeOK'
  BY <1>1 DEF TypeOK, IndInv
<1>4. StagesOK'
  BY <1>1, <1>2 DEF StagesOK, IndInv
<1>. QED
  BY <1>3, <1>4 DEF IndInv

LEMMA ProcessStep ==
  ASSUME IndInv, Process
  PROVE  IndInv'
<1>1. /\ file' = file /\ detected' = detected /\ configs' = configs
      /\ stage = "uploaded" /\ stage' = "processed" /\ result' = Result(file)
  BY DEF Process, Result
<1>2. Enabled' = Enabled /\ ReadHeaders(file)' = ReadHeaders(file)
      /\ Result(file)' = Result(file)
  BY <1>1 DEF Enabled, ReadHeaders, Result, Normalize, Columns, CellOf
<1>3. \A r \in DOMAIN Result(file) : DOMAIN Result(file)[r] = Columns(file)
  BY DEF Result
<1>4. TypeOK'
  BY <1>1, <1>3 DEF TypeOK, IndInv, Columns
<1>5. StagesOK'
  BY <1>1, <1>2 DEF StagesOK, IndInv
<1>. QED
  BY <1>4, <1>5 DEF IndInv

\* The stages of a spreadsheet come one after the other, for all files: what was
\* detected is shown, what is configured was detected, what is uploaded was accepted.
THEOREM SpecIndInv == Spec => []IndInv
<1>1. ASSUME IndInv, [Next]_vars
      PROVE  IndInv'
  <2>1. CASE UNCHANGED vars
    BY <1>1, <2>1 DEF vars, IndInv, TypeOK, StagesOK, Enabled, Result, Normalize
  <2>. QED
    BY <1>1, <2>1, DetectStep, ConfigureStep, UploadStep, ProcessStep DEF Next
<1>. QED
  BY <1>1, InitIndInv, PTL DEF Spec

\* Every variable has its type, for all files (column_detector.py,
\* upload_report.py, normalization_processor.py).
THEOREM SpecTypeOK == Spec => []TypeOK
<1>1. IndInv => TypeOK
  BY DEF IndInv
<1>. QED
  BY <1>1, SpecIndInv, PTL
-------------------------------------------------------------------------------
(* What the invariant gives.                                               *)

\* As many different headers as columns: no two columns have the same.
LEMMA HeadersDiffer ==
  ASSUME NEW f \in Files, Cardinality(Range(f.headers)) = Len(f.headers)
  PROVE  \A i, j \in Columns(f) : f.headers[i] = f.headers[j] => i = j
<1>. DEFINE header == [i \in Columns(f) |-> f.headers[i]]
<1>1. Columns(f) = 1..Len(f.headers) /\ Len(f.headers) \in Nat
  BY FileType
<1>2. Range(f.headers) = {f.headers[i] : i \in Columns(f)}
  BY DEF Range, Columns
<1>3. header \in Surjection(Columns(f), Range(f.headers))
  BY <1>2 DEF Surjection
<1>4. header \in Injection(Columns(f), Range(f.headers))
  BY <1>1, <1>3, UpTo, FS_Surjection
<1>. QED
  BY <1>4 DEF Injection, IsInjective

LEMMA CleanHeaders ==
  ASSUME NEW f \in Files, Clean(f), NEW i \in Columns(f)
  PROVE  /\ f.headers[i] \in Header /\ Shown(f, i) = f.headers[i]
         /\ Strip(f.headers[i]) = f.headers[i] /\ Decoded(f.headers[i]) = f.headers[i]
         /\ \A j \in Columns(f) : f.headers[i] = f.headers[j] => i = j
<1>1. f.headers[i] \in Header /\ ~f.headers[i].padded /\ ~f.headers[i].bom
  BY ShownHeaders DEF Clean
<1>2. Shown(f, i) = f.headers[i]
  BY DEF Shown, Clean
<1>3. \A j \in Columns(f) : f.headers[i] = f.headers[j] => i = j
  BY HeadersDiffer DEF Clean
<1>. QED
  BY <1>1, <1>2, <1>3, HeaderFacts

LEMMA OnlyOne == \A n \in Nat : Max({n}) = n
  BY DEF Max

\* What is read for a clean header is its column.
LEMMA CleanCells ==
  ASSUME NEW f \in Files, Clean(f), NEW i \in Columns(f)
  PROVE  LET h == f.headers[i] IN
         {Value(f, c) : c \in Cells(f, h)} =
           {Str(f.rows[r][i]) : r \in {r \in Sampled(f) : i \in DOMAIN f.rows[r]}} \ {<<>>}
<1>. DEFINE h == f.headers[i]
            at == {j \in Columns(f) : Shown(f, j) = h}
<1>1. at = {i}
  BY CleanHeaders
<1>2. i \in Nat
  BY FileType
<1>3. ReadFrom(f, h) = {i}
  BY <1>1, <1>2, OnlyOne DEF ReadFrom
<1>4. \A c \in Cells(f, h) : /\ c[1] \in Sampled(f) /\ c[2] = i
                           /\ i \in DOMAIN f.rows[c[1]] /\ f.rows[c[1]][i] # <<>>
  BY <1>3 DEF Cells
<1>5. \A r \in Sampled(f) :
        i \in DOMAIN f.rows[r] /\ f.rows[r][i] # <<>> => <<r, i>> \in Cells(f, h)
  BY <1>3 DEF Cells
<1>. HIDE DEF h
<1>6. \A r : <<r, i>>[1] = r /\ <<r, i>>[2] = i
  OBVIOUS
<1>7. \A r \in Sampled(f) :
         i \in DOMAIN f.rows[r] => (Str(f.rows[r][i]) = <<>> <=> f.rows[r][i] = <<>>)
  BY CellType, StrType, FileType
<1>8. ASSUME NEW v \in {Value(f, c) : c \in Cells(f, h)}
      PROVE  v \in {Str(f.rows[r][i]) : r \in {r \in Sampled(f) : i \in DOMAIN f.rows[r]}} \ {<<>>}
  BY <1>4, <1>8, <1>7 DEF Value
<1>9. ASSUME NEW r \in Sampled(f), i \in DOMAIN f.rows[r], Str(f.rows[r][i]) # <<>>
      PROVE  Str(f.rows[r][i]) \in {Value(f, c) : c \in Cells(f, h)}
  BY <1>5, <1>6, <1>9, <1>7 DEF Value
<1>10. {Value(f, c) : c \in Cells(f, h)} =
        {Str(f.rows[r][i]) : r \in {r \in Sampled(f) : i \in DOMAIN f.rows[r]}} \ {<<>>}
  BY <1>8, <1>9
<1>. QED
  BY <1>10 DEF h

LEMMA SamplesFromStages == IndInv => SamplesShowTheColumn
<1>1. SUFFICES ASSUME IndInv, stage = "detected", Clean(file), NEW h \in DOMAIN detected
               PROVE  LET i == CHOOSE i \in Columns(file) : file.headers[i] = h
                          shown == Range(detected[h])
                          there == {Str(file.rows[r][i]) :
                                      r \in {r \in Sampled(file) : i \in DOMAIN file.rows[r]}}
                                     \ {<<>>}
                      IN  /\ shown \subseteq there
                          /\ Cardinality(shown) = Min({MAX_SAMPLES, Cardinality(there)})
                          /\ Cardinality(shown) = Len(detected[h])
  BY DEF SamplesShowTheColumn
<1>. DEFINE i == CHOOSE i \in Columns(file) : file.headers[i] = h
<1>2. file \in Files /\ h \in DetectedHeaders(file) /\ detected[h] = Samples(file, h)
  BY <1>1 DEF IndInv, TypeOK, StagesOK
<1>3. \E j \in Columns(file) : file.headers[j] = h
  BY <1>1, <1>2, ShownHeaders, CleanHeaders
<1>4. i \in Columns(file) /\ file.headers[i] = h
  BY <1>3
<1>. HIDE DEF i
<1>5. Shown(file, i) = h
  BY <1>1, <1>2, <1>4, CleanHeaders
<1>6. {Value(file, c) : c \in Cells(file, h)} =
        {Str(file.rows[r][i]) : r \in {r \in Sampled(file) : i \in DOMAIN file.rows[r]}} \ {<<>>}
  BY <1>1, <1>2, <1>4, CleanCells
<1>. QED
  BY <1>2, <1>4, <1>5, <1>6, SamplesOfHeader DEF i

\* What the user is shown of a column are different values of it, and as many as
\* there are or as fit, for all files and limits (detect()).
THEOREM SpecSamplesShowTheColumn == Spec => []SamplesShowTheColumn
  BY SamplesFromStages, SpecIndInv, PTL

-------------------------------------------------------------------------------
(* Cells and headers of clean files.                                       *)

LEMMA CleanDiffer ==
  ASSUME NEW f \in Files, Clean(f)
  PROVE  Distinct(f)
<1>1. \A i \in Columns(f) : Decoded(f.headers[i]) = f.headers[i]
  BY CleanHeaders
<1>. QED
  BY <1>1, CleanHeaders DEF Distinct

LEMMA CellOfColumn ==
  ASSUME NEW f \in Files, Distinct(f),
         NEW r \in DOMAIN f.rows, NEW i \in Columns(f), i \in DOMAIN f.rows[r]
  PROVE  CellOf(f, r, i) = f.rows[r][i]
<1>. DEFINE same == {j \in Columns(f) : Decoded(f.headers[j]) = Decoded(f.headers[i])}
            at == IF f.format = "csv" THEN Max(same) ELSE i
<1>1. ASSUME f.format = "csv"
      PROVE  Max(same) = i
  <2>1. same = {i} /\ i \in Nat
    BY <1>1, FileType DEF Distinct
  <2>. QED BY <2>1, OnlyOne
<1>2. at = i
  BY <1>1
<1>. QED
  BY <1>2 DEF CellOf

LEMMA CleanFromStages == IndInv => CleanFilesGetThrough
<1>. SUFFICES ASSUME IndInv, Clean(file) PROVE CleanFilesGetThrough
  BY DEF CleanFilesGetThrough
<1>1. file \in Files /\ \A h \in DOMAIN detected : h \in Header
  BY DEF IndInv, TypeOK
<1>2. Range(file.headers) = {file.headers[i] : i \in Columns(file)}
  BY DEF Range, Columns
<1>3. Range(file.headers) = {Strip(h) : h \in Range(file.headers)}
      /\ None \notin Range(file.headers)
  BY <1>1, <1>2, CleanHeaders, HeaderFacts
<1>4. ReadHeaders(file) = Range(file.headers)
  BY <1>3 DEF ReadHeaders
<1>5. Enabled \subseteq {Strip(h) : h \in DOMAIN detected}
  BY DEF IndInv, StagesOK, Enabled
<1>6. ASSUME stage = "refused", DOMAIN detected \subseteq Range(file.headers)
      PROVE  FALSE
  <2>1. Enabled \subseteq {Strip(h) : h \in Range(file.headers)}
    BY <1>5, <1>6
  <2>. QED BY <1>3, <1>4, <1>6, <2>1 DEF IndInv, StagesOK
<1>7. ASSUME stage = "processed", NEW c \in Enabled
      PROVE  \E i \in Columns(file) :
               /\ file.headers[i] = c
               /\ \A r \in DOMAIN file.rows :
                    i \in DOMAIN file.rows[r] =>
                      result[r][i] = NormalizeCell(Str(file.rows[r][i]), configs[c].steps)
  <2>1. PICK i \in Columns(file) : file.headers[i] = c
    BY <1>2, <1>4, <1>7 DEF IndInv, StagesOK
  <2>2. ASSUME NEW r \in DOMAIN file.rows, i \in DOMAIN file.rows[r]
        PROVE  result[r][i] = NormalizeCell(Str(file.rows[r][i]), configs[c].steps)
    <3>1. result[r][i] = Normalize(Decoded(file.headers[i]), CellOf(file, r, i))
      BY <1>7 DEF IndInv, StagesOK, Result
    <3>2. Decoded(file.headers[i]) = c /\ CellOf(file, r, i) = file.rows[r][i]
      BY <1>1, <2>1, <2>2, CleanHeaders, CleanDiffer, CellOfColumn
    <3>3. c # None
      BY <1>1, <2>1 DEF Clean
    <3>. QED BY <1>7, <3>1, <3>2, <3>3 DEF Normalize
  <2>. QED BY <2>1, <2>2
<1>. QED
  BY <1>6, <1>7 DEF CleanFilesGetThrough

\* With clean headers the three readings agree, for all files: what was detected is
\* accepted, and every enabled column is normalized with its own steps.
THEOREM SpecCleanFilesGetThrough == Spec => []CleanFilesGetThrough
  BY CleanFromStages, SpecIndInv, PTL

LEMMA OthersFromStages == IndInv => OthersStay
<1>. SUFFICES ASSUME IndInv, stage = "processed", Distinct(file),
                     NEW r \in DOMAIN file.rows, NEW i \in Columns(file),
                     i \in DOMAIN file.rows[r],
                     result[r][i] \notin {file.rows[r][i], Str(file.rows[r][i])}
              PROVE  \E c \in Enabled :
                       file.headers[i] # None /\ c.name = file.headers[i].name
  BY DEF OthersStay
<1>1. file \in Files
  BY DEF IndInv, TypeOK
<1>2. result[r][i] = Normalize(Decoded(file.headers[i]), CellOf(file, r, i))
  BY DEF IndInv, StagesOK, Result
<1>3. CellOf(file, r, i) = file.rows[r][i]
  BY <1>1, CellOfColumn
<1>4. Decoded(file.headers[i]) \in Enabled /\ Decoded(file.headers[i]) # None
  BY <1>2, <1>3 DEF Normalize
<1>5. file.headers[i] # None
  BY <1>4 DEF Decoded
<1>6. Decoded(file.headers[i]).name = file.headers[i].name
  BY <1>1, <1>5, ShownHeaders, HeaderFacts
<1>. QED
  BY <1>4, <1>5, <1>6

\* Two columns of a CSV that the worker tells apart never take each other's cells: one
\* that is not configured, or not enabled, comes out as it went in or, of an XLSX, as
\* its text, for all files (NormalizationProcessor.process).
THEOREM SpecOthersStay == Spec => []OthersStay
  BY OthersFromStages, SpecIndInv, PTL

-------------------------------------------------------------------------------
(* What is made of the texts.                                              *)

\* What the worker has made of the cell of an enabled column.
LEMMA CellRewritten ==
  ASSUME IndInv, stage = "processed", Clean(file),
         NEW i \in Columns(file), NEW r \in DOMAIN file.rows,
         file.headers[i] \in Enabled, i \in DOMAIN file.rows[r]
  PROVE  /\ Str(file.rows[r][i]) \in Seq(Glyph)
         /\ result[r][i] = NormalizeCell(Str(file.rows[r][i]), configs[file.headers[i]].steps)
<1>1. file \in Files
  BY DEF IndInv, TypeOK
<1>2. Str(file.rows[r][i]) \in Seq(Symbol)
  BY <1>1, CellType, StrType
<1>3. result[r][i] = Normalize(Decoded(file.headers[i]), CellOf(file, r, i))
  BY DEF IndInv, StagesOK, Result
<1>4. Decoded(file.headers[i]) = file.headers[i] /\ CellOf(file, r, i) = file.rows[r][i]
  BY <1>1, CleanHeaders, CleanDiffer, CellOfColumn
<1>5. file.headers[i] # None
  BY DEF Clean
<1>. QED
  BY <1>2, <1>3, <1>4, <1>5, SymbolsAreGlyphs DEF Normalize

LEMMA MergeFromStages == IndInv => SpellingsMerge
<1>. SUFFICES ASSUME IndInv, stage = "processed", Clean(file),
                     NEW i \in Columns(file), NEW r \in DOMAIN file.rows,
                     file.headers[i] \in Enabled, i \in DOMAIN file.rows[r],
                     LET steps == configs[file.headers[i]].steps IN
                       /\ {"trim", "remove_accents", "capitalize_pt_br"} \subseteq steps
                       /\ HidesName(Str(file.rows[r][i])) =>
                            {"abbreviate", "remove_suffixes"} \cap steps = {}
              PROVE  result[r][i] = NormalizeCell(Fold(Trim(Str(file.rows[r][i]))),
                                                  configs[file.headers[i]].steps)
  BY DEF SpellingsMerge, Rewritten
<1>. QED
  BY CellRewritten, MergedText

\* Spellings of one value become one, for all texts and steps
\* (NormalizationProcessor.process).
THEOREM SpecSpellingsMerge == Spec => []SpellingsMerge
  BY MergeFromStages, SpecIndInv, PTL

LEMMA StableFromStages == IndInv => Stable
<1>. SUFFICES ASSUME IndInv, stage = "processed", Clean(file),
                     NEW i \in Columns(file), NEW r \in DOMAIN file.rows,
                     file.headers[i] \in Enabled, i \in DOMAIN file.rows[r],
                     "remove_suffixes" \notin configs[file.headers[i]].steps,
                     HidesName(Str(file.rows[r][i])) =>
                       ~({"abbreviate", "remove_accents"} \subseteq configs[file.headers[i]].steps)
              PROVE  NormalizeCell(result[r][i], configs[file.headers[i]].steps) = result[r][i]
  BY DEF Stable, Rewritten
<1>. QED
  BY CellRewritten, CellAgain

LEMMA NullsFromStages == IndInv => NullsAreGone
<1>. SUFFICES ASSUME IndInv, stage = "processed", Clean(file),
                     NEW i \in Columns(file), NEW r \in DOMAIN file.rows,
                     file.headers[i] \in Enabled, i \in DOMAIN file.rows[r],
                     {"nulls", "split"} \subseteq configs[file.headers[i]].steps,
                     "remove_suffixes" \notin configs[file.headers[i]].steps,
                     result[r][i] # <<>>,
                     NEW k \in DOMAIN SplitText(result[r][i], {Bar})
              PROVE  ~IsNullAlias(SplitText(result[r][i], {Bar})[k])
  BY DEF NullsAreGone, Rewritten
<1>0. PICK x, steps, new : /\ x = Str(file.rows[r][i]) /\ new = result[r][i]
                           /\ steps = configs[file.headers[i]].steps
  OBVIOUS
<1>1. x \in Seq(Glyph) /\ new = NormalizeCell(x, steps)
  BY <1>0, CellRewritten
<1>2. "remove_suffixes" \notin steps /\ {"nulls", "split"} \subseteq steps /\ new # <<>>
  BY <1>0
<1>3. \A l \in DOMAIN SplitText(new, {Bar}) : ~IsNullAlias(SplitText(new, {Bar})[l])
  BY <1>1, <1>2, NullsGoneFromText
<1>. QED
  BY <1>0, <1>3

\* A normalized cell stays as it is when it is normalized again, for all texts and
\* for all steps but suffixes (NormalizationProcessor.process).
THEOREM SpecStable == Spec => []Stable
  BY StableFromStages, SpecIndInv, PTL

\* No value of a list that comes out is a null (NormalizationProcessor).
THEOREM SpecNullsAreGone == Spec => []NullsAreGone
  BY NullsFromStages, SpecIndInv, PTL

LEMMA InventedFromStages == IndInv => NothingIsInvented
<1>. SUFFICES ASSUME IndInv, stage = "processed", Clean(file),
                     NEW i \in Columns(file), NEW r \in DOMAIN file.rows,
                     file.headers[i] \in Enabled, i \in DOMAIN file.rows[r]
              PROVE  \E places \in SUBSET Plain(Str(file.rows[r][i])) :
                       Fold(At(Str(file.rows[r][i]), places))
                         = Fold(At(result[r][i], Plain(result[r][i])))
  BY DEF NothingIsInvented, Rewritten
<1>1. From(result[r][i], Str(file.rows[r][i]))
  BY CellRewritten, FromCell
<1>. QED
  BY <1>1, WordsFrom

\* No word comes into a cell but the acronym of a court, and none changes its
\* place, for all texts and all steps (NormalizationProcessor.process).
THEOREM SpecNothingIsInvented == Spec => []NothingIsInvented
  BY InventedFromStages, SpecIndInv, PTL
===============================================================================
