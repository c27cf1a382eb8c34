----------------------------- MODULE CellTextProofs -----------------------------
(***************************************************************************)
(* Proofs about what the normalization processor makes of a text, for all  *)
(* texts and all steps a column may ask for.                               *)
(***************************************************************************)
EXTENDS Spreadsheet, FiniteSetTheorems, SequenceTheorems, TLAPS

\* The first numbers, from 1 or from 0.
LEMMA UpTo ==
  ASSUME NEW n \in Nat
  PROVE  /\ IsFiniteSet(1..n) /\ Cardinality(1..n) = n
         /\ IsFiniteSet(0..(n - 1)) /\ Cardinality(0..(n - 1)) = n
<1>1. n - 1 \in Int /\ 0 \in Int /\ 1 \in Int /\ n \in Int
  OBVIOUS
<1>2. IsFiniteSet(1..n) /\ Cardinality(1..n) = IF 1 > n THEN 0 ELSE n - 1 + 1
  BY <1>1, FS_Interval
<1>3. IsFiniteSet(0..(n - 1))
      /\ Cardinality(0..(n - 1)) = IF 0 > n - 1 THEN 0 ELSE (n - 1) - 0 + 1
  BY <1>1, FS_Interval
<1>. QED
  BY <1>2, <1>3

-------------------------------------------------------------------------------
(* The places of a set of numbers in ascending order.                      *)

Less(S, i) == {j \in S : j < i}

\* There are fewer below a lower one.
LEMMA LessType ==
  ASSUME NEW S, IsFiniteSet(S), S \subseteq Nat, NEW i \in S
  PROVE  /\ IsFiniteSet(Less(S, i)) /\ Cardinality(Less(S, i)) \in Nat
         /\ Cardinality(Less(S, i)) < Cardinality(S) /\ Cardinality(S) \in Nat
         /\ \A j \in S : i < j => Cardinality(Less(S, i)) < Cardinality(Less(S, j))
<1>1. Less(S, i) \subseteq S /\ i \in S /\ i \notin Less(S, i)
  BY DEF Less
<1>2. IsFiniteSet(Less(S, i)) /\ Cardinality(Less(S, i)) \in Nat /\ Cardinality(S) \in Nat
  BY <1>1, FS_Subset, FS_CardinalityType
<1>3. Cardinality(Less(S, i)) <= Cardinality(S)
      /\ (Cardinality(S) = Cardinality(Less(S, i)) => S = Less(S, i))
  BY <1>1, FS_Subset
<1>4. ASSUME NEW j \in S, i < j
      PROVE  Cardinality(Less(S, i)) < Cardinality(Less(S, j))
  <2>1. Less(S, i) \subseteq Less(S, j) /\ i \in Less(S, j) /\ i \notin Less(S, i)
    <3>1. i \in Nat /\ j \in Nat /\ \A k \in S : k \in Nat
      OBVIOUS
    <3>2. ~(i < i) /\ \A k \in S : k < i => k < j
      BY <1>4, <3>1
    <3>3. Less(S, i) \subseteq Less(S, j)
      BY <3>2 DEF Less
    <3>4. i \in Less(S, j)
      BY <1>4 DEF Less
    <3>. QED BY <3>2, <3>3, <3>4 DEF Less
  <2>2. Less(S, j) \subseteq S /\ IsFiniteSet(Less(S, j))
    <3>1. Less(S, j) \subseteq S
      BY DEF Less
    <3>. QED BY <3>1, FS_Subset
  <2>3. Cardinality(Less(S, i)) <= Cardinality(Less(S, j))
        /\ (Cardinality(Less(S, j)) = Cardinality(Less(S, i)) => Less(S, j) = Less(S, i))
    BY <2>1, <2>2, FS_Subset
  <2>. QED BY <1>2, <2>1, <2>2, <2>3, FS_CardinalityType
<1>. QED
  BY <1>1, <1>2, <1>3, <1>4

\* Ascending: what InOrder makes of a set.
Ascending(p, n, S) ==
  /\ p \in [1..n -> S]
  /\ \A k, l \in 1..n : k < l => p[k] < p[l]
  /\ \A i \in S : \E k \in 1..n : p[k] = i

\* InOrder ascends through all places.
LEMMA InOrderAscends ==
  ASSUME NEW S, IsFiniteSet(S), S \subseteq Nat
  PROVE  /\ Cardinality(S) \in Nat /\ DOMAIN InOrder(S) = 1..Cardinality(S)
         /\ InOrder(S) \in Seq(S) /\ Len(InOrder(S)) = Cardinality(S)
         /\ Ascending(InOrder(S), Cardinality(S), S)
         /\ \A k \in 1..Cardinality(S) : Cardinality(Less(S, InOrder(S)[k])) = k - 1
<1>. DEFINE rank == [i \in S |-> Cardinality(Less(S, i)) + 1]
<1>. PICK n : n = Cardinality(S)
  OBVIOUS
<1>1. n \in Nat
  BY FS_CardinalityType
<1>. DEFINE c(i) == Cardinality(Less(S, i))
<1>a. /\ \A i \in S : c(i) \in Nat /\ c(i) < n
      /\ \A i, j \in S : i < j => c(i) < c(j)
  BY LessType
<1>. HIDE DEF c
<1>2. rank \in [S -> 1..n] /\ \A i \in S : rank[i] = c(i) + 1
  BY <1>1, <1>a DEF c
<1>3. \A i, j \in S : i < j => rank[i] < rank[j]
  BY <1>a, <1>2
<1>. HIDE DEF rank
<1>4. rank \in Injection(S, 1..n)
  <2>1. ASSUME NEW i \in S, NEW j \in S, rank[i] = rank[j]
        PROVE  i = j
    <3>1. rank[i] \in Nat /\ i \in Nat /\ j \in Nat /\ ~(i < j) /\ ~(j < i)
      BY <1>2, <1>3, <2>1
    <3>. QED BY <3>1
  <2>. QED BY <1>2, <2>1 DEF Injection, IsInjective
<1>5. rank \in Surjection(S, 1..n)
  BY <1>1, <1>4, UpTo, FS_Injection
<1>6. \A k \in 1..n : \E i \in S : Cardinality(Less(S, i)) = k - 1
  <2>1. ASSUME NEW k \in 1..n
        PROVE  \E i \in S : Cardinality(Less(S, i)) = k - 1
    <3>1. PICK i \in S : rank[i] = k
      BY <1>5 DEF Surjection
    <3>. QED BY <1>2, <1>a, <3>1 DEF c
  <2>. QED BY <2>1
<1>. PICK p : p = InOrder(S)
  OBVIOUS
<1>7. p = [k \in 1..n |-> CHOOSE i \in S : Cardinality(Less(S, i)) = k - 1]
  BY DEF InOrder, Less
<1>8. \A k \in 1..n : p[k] \in S /\ c(p[k]) = k - 1
  BY <1>6, <1>7 DEF c
<1>9. p \in [1..n -> S]
  BY <1>7, <1>8
<1>10. ASSUME NEW k \in 1..n, NEW l \in 1..n, k < l
       PROVE  p[k] < p[l]
  <2>1. c(p[k]) = k - 1 /\ c(p[l]) = l - 1
        /\ p[k] \in S /\ p[l] \in S /\ p[k] \in Nat /\ p[l] \in Nat
    BY <1>8
  <2>2. ~(p[l] < p[k])
    BY <2>1, <1>10, <1>a
  <2>3. p[k] # p[l]
    BY <2>1, <1>10
  <2>. QED BY <2>1, <2>2, <2>3
<1>11. ASSUME NEW i \in S
       PROVE  \E k \in 1..n : p[k] = i
  <2>1. rank[i] \in 1..n
    BY <1>2
  <2>2. p[rank[i]] \in S /\ rank[p[rank[i]]] = rank[i]
    <3>. PICK k \in 1..n : k = rank[i]
      BY <2>1
    <3>1. p[k] \in S /\ c(p[k]) = k - 1 /\ k \in Int
      BY <1>8
    <3>2. rank[p[k]] = k - 1 + 1
      BY <1>2, <3>1
    <3>. QED BY <3>1, <3>2
  <2>3. p[rank[i]] = i
    BY <1>2, <1>4, <2>2 DEF Injection, IsInjective
  <2>. QED BY <2>1, <2>3
<1>12. Ascending(p, n, S)
  BY <1>9, <1>10, <1>11 DEF Ascending
<1>13. p \in Seq(S) /\ Len(p) = n /\ DOMAIN p = 1..n
  BY <1>1, <1>9
<1>. QED
  BY <1>1, <1>8, <1>12, <1>13 DEF c

\* There is one way only.
LEMMA OneOrder ==
  ASSUME NEW S, S \subseteq Nat, NEW n \in Nat, NEW p, Ascending(p, n, S)
  PROVE  IsFiniteSet(S) /\ Cardinality(S) = n /\ InOrder(S) = p
<1>1. p \in [1..n -> S] /\ \A k \in 1..n : p[k] \in Nat
  BY DEF Ascending
<1>2. \A k, l \in 1..n : p[k] = p[l] => k = l
  BY <1>1 DEF Ascending
<1>3. p \in Surjection(1..n, S) /\ p \in Injection(1..n, S)
  BY <1>1, <1>2 DEF Ascending, Surjection, Injection, IsInjective
<1>4. IsFiniteSet(S) /\ Cardinality(S) = n
  BY <1>3, UpTo, FS_Surjection
<1>5. ASSUME NEW k \in 1..n
      PROVE  Cardinality(Less(S, p[k])) = k - 1
  <2>. DEFINE q == [l \in 1..(k - 1) |-> p[l]]
  <2>1. k - 1 \in Nat /\ \A l \in 1..(k - 1) : l \in 1..n
    OBVIOUS
  <2>2. q \in [1..(k - 1) -> Less(S, p[k])]
    BY <1>1, <2>1 DEF Less, Ascending
  <2>3. ASSUME NEW i \in Less(S, p[k])
        PROVE  \E l \in 1..(k - 1) : q[l] = i
    <3>1. PICK l \in 1..n : p[l] = i
      BY DEF Ascending, Less
    <3>2. p[l] < p[k] /\ l # k
      BY <1>1, <3>1 DEF Less
    <3>3. ~(k < l)
      BY <1>1, <3>2 DEF Ascending
    <3>. QED BY <3>1, <3>2, <3>3
  <2>4. q \in Surjection(1..(k - 1), Less(S, p[k])) /\ q \in Injection(1..(k - 1), Less(S, p[k]))
    BY <1>2, <2>1, <2>2, <2>3 DEF Surjection, Injection, IsInjective
  <2>. QED BY <2>1, <2>4, UpTo, FS_Surjection
<1>a. \A i, j \in S : i < j => Cardinality(Less(S, i)) < Cardinality(Less(S, j))
  BY <1>4, LessType
<1>6. ASSUME NEW k \in 1..n
      PROVE  InOrder(S)[k] = p[k]
  <2>1. InOrder(S)[k] \in S /\ Cardinality(Less(S, InOrder(S)[k])) = k - 1
    BY <1>4, InOrderAscends DEF Ascending
  <2>2. p[k] \in S /\ Cardinality(Less(S, p[k])) = k - 1
    BY <1>1, <1>5
  <2>. PICK i \in S : i = InOrder(S)[k]
    BY <2>1
  <2>3. i \in Nat /\ p[k] \in Nat
    BY <2>2
  <2>4. ~(k - 1 < k - 1)
    OBVIOUS
  <2>5. ~(i < p[k]) /\ ~(p[k] < i)
    BY <1>a, <2>1, <2>2, <2>4
  <2>. QED BY <2>3, <2>5
<1>7. InOrder(S) \in [1..n -> S]
  BY <1>4, InOrderAscends DEF Ascending
<1>. QED
  BY <1>1, <1>4, <1>6, <1>7

LEMMA InOrderAll ==
  ASSUME NEW n \in Nat
  PROVE  InOrder(1..n) = [k \in 1..n |-> k] /\ Cardinality(1..n) = n
<1>1. 1..n \subseteq Nat /\ Ascending([k \in 1..n |-> k], n, 1..n)
  BY DEF Ascending
<1>. QED
  BY <1>1, OneOrder

\* What At picks, and in which order.
LEMMA AtType ==
  ASSUME NEW T, NEW text \in Seq(T), NEW Q \in SUBSET DOMAIN text
  PROVE  /\ Q \subseteq Nat /\ IsFiniteSet(Q) /\ Cardinality(Q) \in Nat
         /\ At(text, Q) \in Seq(T) /\ Len(At(text, Q)) = Cardinality(Q)
         /\ DOMAIN At(text, Q) = 1..Cardinality(Q)
         /\ \A k \in 1..Cardinality(Q) : At(text, Q)[k] = text[InOrder(Q)[k]]
         /\ Ascending(InOrder(Q), Cardinality(Q), Q)
<1>1. Len(text) \in Nat /\ DOMAIN text = 1..Len(text)
  BY LenProperties
<1>2. Q \subseteq Nat /\ IsFiniteSet(Q)
  BY <1>1, UpTo, FS_Subset
<1>. PICK n : n = Cardinality(Q)
  OBVIOUS
<1>3. n \in Nat /\ DOMAIN InOrder(Q) = 1..n /\ Ascending(InOrder(Q), n, Q)
  BY <1>2, InOrderAscends
<1>4. At(text, Q) = [k \in 1..n |-> text[InOrder(Q)[k]]]
  BY <1>3 DEF At
<1>5. \A k \in 1..n : text[InOrder(Q)[k]] \in T
  BY <1>3, ElementOfSeq DEF Ascending
<1>. QED
  BY <1>2, <1>3, <1>4, <1>5

LEMMA AtAll ==
  ASSUME NEW T, NEW text \in Seq(T)
  PROVE  At(text, DOMAIN text) = text
<1>1. Len(text) \in Nat /\ DOMAIN text = 1..Len(text) /\ text = [k \in 1..Len(text) |-> text[k]]
  BY LenProperties
<1>2. InOrder(DOMAIN text) = [k \in 1..Len(text) |-> k]
  BY <1>1, InOrderAll
<1>3. At(text, DOMAIN text) = [k \in 1..Len(text) |-> text[k]]
  BY <1>1, <1>2 DEF At
<1>. QED
  BY <1>1, <1>3

-------------------------------------------------------------------------------
(* Spaces.                                                                 *)

\* What Trim keeps.
Kept(text) ==
  {i \in DOMAIN text :
    \/ text[i] # Space
    \/ /\ i > 1 /\ text[i - 1] # Space
       /\ \E j \in i..Len(text) : text[j] # Space}

LEMMA TrimType ==
  ASSUME NEW T, NEW text \in Seq(T)
  PROVE  /\ Trim(text) = At(text, Kept(text)) /\ Kept(text) \in SUBSET DOMAIN text
         /\ Trim(text) \in Seq(T)
<1>1. Trim(text) = At(text, Kept(text)) /\ Kept(text) \in SUBSET DOMAIN text
  BY DEF Trim, Kept
<1>. QED
  BY <1>1, AtType

\* A trimmed text stays as it is when it is trimmed again.
LEMMA TrimAgain ==
  ASSUME NEW T, NEW text \in Seq(T)
  PROVE  Kept(Trim(text)) = DOMAIN Trim(text) /\ Trim(Trim(text)) = Trim(text)
<1>. DEFINE Q == Kept(text)
<1>. PICK n, p, u : n = Cardinality(Q) /\ p = InOrder(Q) /\ u = Trim(text)
  OBVIOUS
<1>1. /\ u \in Seq(T) /\ Len(u) = n /\ DOMAIN u = 1..n /\ n \in Nat
      /\ \A k \in 1..n : u[k] = text[p[k]]
      /\ Ascending(p, n, Q) /\ Q \subseteq DOMAIN text
  BY TrimType, AtType
<1>2. Len(text) \in Nat /\ DOMAIN text = 1..Len(text)
  BY LenProperties
<1>3. /\ \A k \in 1..n : p[k] \in Q /\ p[k] \in Int
      /\ \A k, l \in 1..n : k < l => p[k] < p[l]
      /\ \A i \in Q : \E k \in 1..n : p[k] = i
  BY <1>1, <1>2 DEF Ascending
<1>4. \A i \in DOMAIN text : text[i] # Space => i \in Q
  BY DEF Kept
<1>5. ASSUME NEW k \in 1..n, u[k] = Space
      PROVE  k \in Kept(u)
  <2>. PICK i : i = p[k]
    OBVIOUS
  <2>1. i \in Q /\ text[i] = Space
    BY <1>1, <1>3, <1>5
  <2>2. i > 1 /\ i \in 1..Len(text) /\ text[i - 1] # Space
        /\ \E j \in i..Len(text) : text[j] # Space
    BY <1>2, <2>1 DEF Kept
  <2>3. i - 1 \in Q
    BY <1>2, <1>4, <2>2
  <2>4. PICK l \in 1..n : p[l] = i - 1
    BY <1>3, <2>3
  <2>5. PICK j \in i..Len(text) : text[j] # Space
    BY <2>2
  <2>6. j \in Q /\ j > i
    BY <1>2, <1>4, <2>1, <2>2, <2>5
  <2>7. PICK m \in 1..n : p[m] = j
    BY <1>3, <2>6
  <2>8. m > k /\ u[m] # Space
    <3>1. ~(m < k) /\ m # k
      BY <1>3, <2>6, <2>7
    <3>. QED BY <1>1, <2>5, <2>7, <3>1
  <2>9. l < k
    <3>1. ~(k < l) /\ l # k
      BY <1>3, <2>2, <2>4
    <3>. QED BY <3>1
  <2>10. l = k - 1
    <3>1. SUFFICES ASSUME l < k - 1 PROVE FALSE
      BY <2>9
    <3>2. k - 1 \in 1..n
      BY <1>1, <2>4, <3>1
    <3>3. p[l] < p[k - 1] /\ p[k - 1] < p[k] /\ p[k - 1] \in Int
      BY <1>3, <3>1, <3>2
    <3>. QED BY <2>2, <2>4, <3>3
  <2>11. u[k - 1] # Space /\ k > 1
    BY <1>1, <2>2, <2>4, <2>10
  <2>12. m \in k..Len(u) /\ k \in DOMAIN u
    BY <1>1, <2>8
  <2>. QED BY <2>8, <2>11, <2>12 DEF Kept
<1>6. \A k \in 1..n : u[k] # Space => k \in Kept(u)
  BY <1>1 DEF Kept
<1>7. Kept(u) = DOMAIN u
  <2>1. Kept(u) \subseteq DOMAIN u
    BY DEF Kept
  <2>. QED BY <1>1, <1>5, <1>6, <2>1
<1>8. Trim(u) = u
  BY <1>1, <1>7, TrimType, AtAll
<1>. QED
  BY <1>7, <1>8

-------------------------------------------------------------------------------
(* Symbols.                                                                *)

\* The symbols of texts.  The provers do not know that the literals of a module
\* are in STRING, so the signs of the processor's own lists are named.
Signs == STRING \cup Acronyms \cup {" ", "-", "/", "|"}

Glyph ==
  {s \in [sign : Signs, accent : {"none", "composed", "combining"},
           case : {"none", "lower", "upper", "capital"}] :
     s.accent # "none" => IsWord(s)}

\* Every text of a file is a text.
LEMMA SymbolsAreGlyphs == Seq(Symbol) \subseteq Seq(Glyph)
<1>1. Symbol \subseteq Glyph
  BY DEF Symbol, Glyph, Signs
<1>. QED
  BY <1>1

LEMMA SameSymbol ==
  ASSUME NEW s \in Glyph, NEW t \in Glyph,
         s.sign = t.sign, s.accent = t.accent, s.case = t.case
  PROVE  s = t
<1>1. /\ s = [sign |-> s.sign, accent |-> s.accent, case |-> s.case]
      /\ t = [sign |-> t.sign, accent |-> t.accent, case |-> t.case]
  BY DEF Glyph
<1>. QED
  BY <1>1

LEMMA SymbolFacts ==
  ASSUME NEW s \in Glyph
  PROVE  /\ Lowered(s) \in Glyph /\ Unaccented(s) \in Glyph
         /\ s.accent \in {"none", "composed", "combining"} /\ s.sign \in Signs
         /\ s.case \in {"none", "lower", "upper", "capital"}
         /\ Lowered(s).sign = s.sign /\ Lowered(s).accent = s.accent
         /\ Lowered(s).case = IF s.case = "none" THEN "none" ELSE "lower"
         /\ Unaccented(s).sign = s.sign /\ Unaccented(s).accent = "none"
         /\ Unaccented(s).case = s.case
         /\ s.case = "none" => s.accent = "none"
         /\ \A c \in {"lower", "upper", "capital"} :
              s.case # "none" =>
                /\ [s EXCEPT !.case = c] \in Glyph
                /\ [s EXCEPT !.case = c].sign = s.sign
                /\ [s EXCEPT !.case = c].accent = s.accent
                /\ [s EXCEPT !.case = c].case = c
<1>1. /\ s \in [sign : Signs, accent : {"none", "composed", "combining"},
                case : {"none", "lower", "upper", "capital"}]
      /\ s.accent # "none" => IsWord(s)
  BY DEF Glyph
<1>2. s = [sign |-> s.sign, accent |-> s.accent, case |-> s.case]
      /\ s.sign \in Signs /\ s.accent \in {"none", "composed", "combining"}
      /\ s.case \in {"none", "lower", "upper", "capital"}
  BY <1>1
<1>3. ASSUME NEW c
      PROVE  [s EXCEPT !.case = c] = [sign |-> s.sign, accent |-> s.accent, case |-> c]
  BY <1>2
<1>4. Unaccented(s) = [sign |-> s.sign, accent |-> "none", case |-> s.case]
  <2>1. ASSUME NEW b
        PROVE  [s EXCEPT !.accent = b] = [sign |-> s.sign, accent |-> b, case |-> s.case]
    BY <1>2
  <2>. QED BY <2>1, Zenon DEF Unaccented
<1>5. ASSUME NEW c \in {"lower", "upper", "capital"}, s.case # "none"
      PROVE  [s EXCEPT !.case = c] \in Glyph
  BY <1>2, <1>3, <1>5 DEF Glyph, IsWord
<1>6. Unaccented(s) \in Glyph
  BY <1>2, <1>4 DEF Glyph, IsWord
<1>7. Lowered(s) = IF s.case = "none" THEN s
                   ELSE [sign |-> s.sign, accent |-> s.accent, case |-> "lower"]
  BY <1>3 DEF Lowered, IsWord
<1>8. Lowered(s) \in Glyph
  BY <1>3, <1>5, <1>7
<1>. QED
  BY <1>1, <1>2, <1>3, <1>4, <1>5, <1>6, <1>7, <1>8 DEF IsWord

LEMMA FoldedFacts ==
  ASSUME NEW s \in Glyph
  PROVE  /\ Folded(s) \in Glyph
         /\ Folded(s).sign = s.sign /\ Folded(s).accent = "none"
         /\ Folded(s).case = IF s.case = "none" THEN "none" ELSE "lower"
         /\ IsWord(Folded(s)) = IsWord(s)
<1>1. /\ Folded(s) \in Glyph
      /\ Folded(s).sign = s.sign /\ Folded(s).accent = "none"
      /\ Folded(s).case = IF s.case = "none" THEN "none" ELSE "lower"
  <2>. PICK t : t = Lowered(s)
    OBVIOUS
  <2>1. t \in Glyph /\ t.sign = s.sign /\ t.case = IF s.case = "none" THEN "none" ELSE "lower"
    BY SymbolFacts
  <2>2. /\ Unaccented(t) \in Glyph /\ Unaccented(t).sign = t.sign
        /\ Unaccented(t).accent = "none" /\ Unaccented(t).case = t.case
    BY <2>1, SymbolFacts
  <2>3. Folded(s) = Unaccented(t)
    BY DEF Folded
  <2>. QED BY <2>1, <2>2, <2>3
<1>2. IsWord(Folded(s)) = IsWord(s)
  BY <1>1 DEF IsWord
<1>. QED
  BY <1>1, <1>2

LEMMA SameSpelling ==
  ASSUME NEW s \in Glyph, NEW t \in Glyph,
         t.sign = s.sign, t.case = "none" <=> s.case = "none"
  PROVE  Folded(t) = Folded(s)
<1>1. /\ Folded(t) \in Glyph /\ Folded(t).sign = t.sign /\ Folded(t).accent = "none"
      /\ Folded(t).case = IF t.case = "none" THEN "none" ELSE "lower"
  BY FoldedFacts
<1>2. /\ Folded(s) \in Glyph /\ Folded(s).sign = s.sign /\ Folded(s).accent = "none"
      /\ Folded(s).case = IF s.case = "none" THEN "none" ELSE "lower"
  BY FoldedFacts
<1>3. Folded(t).case = Folded(s).case
  BY <1>1, <1>2
<1>. QED BY <1>1, <1>2, <1>3, SameSymbol

LEMMA FoldedOfFolded ==
  ASSUME NEW s \in Glyph
  PROVE  /\ Folded(Folded(s)) = Folded(s)
         /\ Folded(Lowered(s)) = Folded(s) /\ Folded(Unaccented(s)) = Folded(s)
         /\ s.case = "none" => Folded(s) = s
<1>1. ASSUME NEW t \in Glyph, t.sign = s.sign, t.case = "none" <=> s.case = "none"
      PROVE  Folded(t) = Folded(s)
  BY <1>1, SameSpelling
<1>2. Folded(Folded(s)) = Folded(s)
  <2>1. Folded(s) \in Glyph /\ Folded(s).sign = s.sign
        /\ (Folded(s).case = "none" <=> s.case = "none")
    BY FoldedFacts
  <2>. QED BY <2>1, <1>1
<1>3. Folded(Lowered(s)) = Folded(s)
  <2>1. Lowered(s) \in Glyph /\ Lowered(s).sign = s.sign
        /\ (Lowered(s).case = "none" <=> s.case = "none")
    BY SymbolFacts
  <2>. QED BY <2>1, <1>1
<1>4. Folded(Unaccented(s)) = Folded(s)
  <2>1. Unaccented(s) \in Glyph /\ Unaccented(s).sign = s.sign
        /\ (Unaccented(s).case = "none" <=> s.case = "none")
    BY SymbolFacts
  <2>. QED BY <2>1, <1>1
<1>5. s.case = "none" => Folded(s) = s
  <2>1. Folded(s) \in Glyph /\ Folded(s).sign = s.sign /\ Folded(s).accent = "none"
        /\ (s.case = "none" => Folded(s).case = s.case)
    BY FoldedFacts
  <2>2. s.case = "none" => s.accent = "none"
    BY SymbolFacts
  <2>. QED BY <2>1, <2>2, SameSymbol
<1>. QED
  BY <1>2, <1>3, <1>4, <1>5

\* What spellings of a symbol have in common.
LEMMA SameFolded ==
  ASSUME NEW s \in Glyph, NEW t \in Glyph
  PROVE  /\ Folded(s) = Folded(t) <=> s.sign = t.sign /\ (s.case = "none" <=> t.case = "none")
         /\ s.case = "none" /\ Folded(s) = Folded(t) => s = t
<1>1. Folded(s) = Folded(t) <=> s.sign = t.sign /\ (s.case = "none" <=> t.case = "none")
  <2>1. Folded(s) = Folded(t) => s.sign = t.sign /\ (s.case = "none" <=> t.case = "none")
    BY FoldedFacts
  <2>2. s.sign = t.sign /\ (s.case = "none" <=> t.case = "none") => Folded(s) = Folded(t)
    BY SameSpelling
  <2>. QED BY <2>1, <2>2
<1>2. s.case = "none" /\ Folded(s) = Folded(t) => s = t
  BY <1>1, FoldedOfFolded
<1>. QED
  BY <1>1, <1>2

\* Marks are what they are in every spelling.
LEMMA MarkFacts ==
  ASSUME NEW m \in Signs
  PROVE  /\ Mark(m) \in Glyph /\ Mark(m).case = "none" /\ Mark(m).sign = m
         /\ \A s \in Glyph : Folded(s) = Mark(m) <=> s = Mark(m)
<1>1. Mark(m) \in Glyph /\ Mark(m).case = "none" /\ Mark(m).sign = m
  BY DEF Mark, Glyph, IsWord
<1>2. \A s \in Glyph : Folded(s) = Mark(m) <=> s = Mark(m)
  BY <1>1, SameFolded, FoldedOfFolded
<1>. QED
  BY <1>1, <1>2

-------------------------------------------------------------------------------
(* Spellings.                                                              *)

\* Two spellings of one text.
Like(u, v) == u \in Seq(Glyph) /\ v \in Seq(Glyph) /\ Fold(u) = Fold(v)

\* Folding leaves a spelling of the text.
LEMMA FoldType ==
  ASSUME NEW u \in Seq(Glyph)
  PROVE  /\ Fold(u) \in Seq(Glyph) /\ Len(Fold(u)) = Len(u) /\ DOMAIN Fold(u) = DOMAIN u
         /\ \A i \in DOMAIN u : u[i] \in Glyph /\ Fold(u)[i] = Folded(u[i])
         /\ Fold(Fold(u)) = Fold(u) /\ Like(u, Fold(u)) /\ Like(Fold(u), u)
<1>1. Len(u) \in Nat /\ DOMAIN u = 1..Len(u) /\ \A i \in DOMAIN u : u[i] \in Glyph
  BY LenProperties, ElementOfSeq
<1>2. Fold(u) = [i \in 1..Len(u) |-> Folded(u[i])]
  BY <1>1 DEF Fold, Each
<1>3. \A i \in 1..Len(u) : Folded(u[i]) \in Glyph /\ Folded(Folded(u[i])) = Folded(u[i])
  BY <1>1, FoldedFacts, FoldedOfFolded
<1>4. Fold(u) \in Seq(Glyph) /\ Len(Fold(u)) = Len(u) /\ DOMAIN Fold(u) = 1..Len(u)
  BY <1>1, <1>2, <1>3
<1>5. Fold(Fold(u)) = [i \in 1..Len(u) |-> Folded(Fold(u)[i])]
  BY <1>4 DEF Fold, Each
<1>6. Fold(Fold(u)) = Fold(u)
  BY <1>2, <1>3, <1>5
<1>. QED
  BY <1>1, <1>2, <1>4, <1>6 DEF Like

LEMMA LikeFrom ==
  ASSUME NEW u \in Seq(Glyph), NEW v \in Seq(Glyph), Len(u) = Len(v),
         \A i \in 1..Len(u) : Folded(u[i]) = Folded(v[i])
  PROVE  Like(u, v)
<1>1. Len(u) \in Nat /\ DOMAIN u = 1..Len(u) /\ DOMAIN v = 1..Len(u)
  BY LenProperties
<1>2. /\ Fold(u) = [i \in 1..Len(u) |-> Folded(u[i])]
      /\ Fold(v) = [i \in 1..Len(u) |-> Folded(v[i])]
  BY <1>1 DEF Fold, Each
<1>. QED
  BY <1>2 DEF Like

\* Spellings of a text differ in accents and capitals only.
LEMMA LikeFacts ==
  ASSUME NEW u, NEW v, Like(u, v)
  PROVE  /\ u \in Seq(Glyph) /\ v \in Seq(Glyph)
         /\ Len(u) = Len(v) /\ Len(u) \in Nat
         /\ DOMAIN u = 1..Len(u) /\ DOMAIN v = 1..Len(u)
         /\ \A i \in 1..Len(u) :
              /\ u[i] \in Glyph /\ v[i] \in Glyph /\ Folded(u[i]) = Folded(v[i])
              /\ u[i].sign = v[i].sign /\ (u[i].case = "none" <=> v[i].case = "none")
              /\ u[i].case = "none" => u[i] = v[i]
              /\ \A m \in Signs : u[i] = Mark(m) <=> v[i] = Mark(m)
<1>1. u \in Seq(Glyph) /\ v \in Seq(Glyph) /\ Fold(u) = Fold(v)
  BY DEF Like
<1>2. /\ Len(u) = Len(v) /\ Len(u) \in Nat
      /\ DOMAIN u = 1..Len(u) /\ DOMAIN v = 1..Len(u)
  BY <1>1, FoldType, LenProperties
<1>3. ASSUME NEW i \in 1..Len(u)
      PROVE  /\ u[i] \in Glyph /\ v[i] \in Glyph /\ Folded(u[i]) = Folded(v[i])
             /\ u[i].sign = v[i].sign /\ (u[i].case = "none" <=> v[i].case = "none")
             /\ u[i].case = "none" => u[i] = v[i]
             /\ \A m \in Signs : u[i] = Mark(m) <=> v[i] = Mark(m)
  <2>1. u[i] \in Glyph /\ v[i] \in Glyph /\ Folded(u[i]) = Folded(v[i])
    BY <1>1, <1>2, FoldType
  <2>. QED BY <2>1, SameFolded, MarkFacts
<1>. QED
  BY <1>1, <1>2, <1>3

LEMMA LikeSeparators ==
  ASSUME NEW u, NEW v, Like(u, v), NEW i \in 1..Len(u)
  PROVE  /\ u[i] = Space <=> v[i] = Space
         /\ u[i] = Hyphen <=> v[i] = Hyphen
         /\ u[i] = Slash <=> v[i] = Slash
         /\ u[i] = Bar <=> v[i] = Bar
<1>1. {" ", "-", "/", "|"} \subseteq Signs
  BY DEF Signs
<1>2. \A m \in {" ", "-", "/", "|"} : u[i] = Mark(m) <=> v[i] = Mark(m)
  <2>1. \A m \in Signs : u[i] = Mark(m) <=> v[i] = Mark(m)
    BY LikeFacts
  <2>. QED BY <1>1, <2>1
<1>. QED
  <2>1. /\ u[i] = Mark(" ") <=> v[i] = Mark(" ")
        /\ u[i] = Mark("-") <=> v[i] = Mark("-")
        /\ u[i] = Mark("/") <=> v[i] = Mark("/")
        /\ u[i] = Mark("|") <=> v[i] = Mark("|")
    BY <1>2
  <2>. QED BY <2>1 DEF Space, Hyphen, Slash, Bar

\* Trimming makes no difference to spellings.
LEMMA LikeTrim ==
  ASSUME NEW u, NEW v, Like(u, v)
  PROVE  Like(Trim(u), Trim(v))
<1>1. /\ u \in Seq(Glyph) /\ v \in Seq(Glyph) /\ Len(u) = Len(v) /\ Len(u) \in Nat
      /\ DOMAIN u = 1..Len(u) /\ DOMAIN v = 1..Len(u)
      /\ \A i \in 1..Len(u) : u[i] = Space <=> v[i] = Space
      /\ \A i \in 1..Len(u) : Folded(u[i]) = Folded(v[i])
  <2>1. \A i \in 1..Len(u) : u[i] = Space <=> v[i] = Space
    BY LikeSeparators
  <2>. QED BY <2>1, LikeFacts
<1>2. Kept(u) = Kept(v)
  <2>1. \A i \in 1..Len(u) : i > 1 => i - 1 \in 1..Len(u)
    BY <1>1
  <2>2. \A i \in 1..Len(u) : (\E j \in i..Len(u) : u[j] # Space) <=> (\E j \in i..Len(u) : v[j] # Space)
    BY <1>1
  <2>3. \A i \in 1..Len(u) : i > 1 => (u[i - 1] # Space <=> v[i - 1] # Space)
    BY <1>1, <2>1
  <2>. QED BY <1>1, <2>2, <2>3 DEF Kept
<1>. DEFINE Q == Kept(u)
<1>. PICK n, p : n = Cardinality(Q) /\ p = InOrder(Q)
  OBVIOUS
<1>3. /\ Trim(u) \in Seq(Glyph) /\ Len(Trim(u)) = n /\ n \in Nat
      /\ Trim(v) \in Seq(Glyph) /\ Len(Trim(v)) = n
      /\ \A k \in 1..n : Trim(u)[k] = u[p[k]] /\ Trim(v)[k] = v[p[k]]
      /\ \A k \in 1..n : p[k] \in 1..Len(u)
  <2>1. /\ Trim(u) = At(u, Q) /\ Trim(v) = At(v, Q) /\ Q \in SUBSET DOMAIN u
        /\ Q \in SUBSET DOMAIN v
    BY <1>1, <1>2, TrimType
  <2>2. /\ At(u, Q) \in Seq(Glyph) /\ Len(At(u, Q)) = n /\ n \in Nat
        /\ \A k \in 1..n : At(u, Q)[k] = u[p[k]] /\ p[k] \in Q
    BY <1>1, <2>1, AtType DEF Ascending
  <2>3. /\ At(v, Q) \in Seq(Glyph) /\ Len(At(v, Q)) = n
        /\ \A k \in 1..n : At(v, Q)[k] = v[p[k]]
    BY <1>1, <2>1, AtType
  <2>. QED BY <1>1, <2>1, <2>2, <2>3
<1>4. \A k \in 1..n : Folded(Trim(u)[k]) = Folded(Trim(v)[k])
  BY <1>1, <1>3
<1>. QED
  BY <1>3, <1>4, LikeFrom

LEMMA LikeSub ==
  ASSUME NEW u, NEW v, Like(u, v), NEW a \in Nat, NEW b \in Int, a >= 1, b <= Len(u)
  PROVE  Like(SubSeq(u, a, b), SubSeq(v, a, b))
<1>1. u \in Seq(Glyph) /\ v \in Seq(Glyph) /\ Len(u) = Len(v) /\ Len(u) \in Nat
  BY LikeFacts
<1>. PICK n : n = IF a <= b THEN b - a + 1 ELSE 0
  OBVIOUS
<1>2. /\ SubSeq(u, a, b) \in Seq(Glyph) /\ Len(SubSeq(u, a, b)) = n /\ n \in Nat
      /\ SubSeq(v, a, b) \in Seq(Glyph) /\ Len(SubSeq(v, a, b)) = n
      /\ \A i \in 1..n : /\ SubSeq(u, a, b)[i] = u[a + i - 1] /\ SubSeq(v, a, b)[i] = v[a + i - 1]
                         /\ a + i - 1 \in 1..Len(u)
  <2>1. \A i \in a..b : u[i] \in Glyph /\ v[i] \in Glyph
    BY <1>1, LikeFacts
  <2>2. /\ SubSeq(u, a, b) \in Seq(Glyph) /\ Len(SubSeq(u, a, b)) = n
        /\ \A i \in 1..b - a + 1 : SubSeq(u, a, b)[i] = u[a + i - 1]
    BY <2>1, SubSeqProperties
  <2>3. /\ SubSeq(v, a, b) \in Seq(Glyph) /\ Len(SubSeq(v, a, b)) = n
        /\ \A i \in 1..b - a + 1 : SubSeq(v, a, b)[i] = v[a + i - 1]
    BY <2>1, SubSeqProperties
  <2>4. n \in Nat /\ 1..n \subseteq 1..b - a + 1 /\ \A i \in 1..n : a + i - 1 \in 1..Len(u)
    BY <1>1
  <2>. QED BY <2>2, <2>3, <2>4
<1>3. \A i \in 1..n : Folded(SubSeq(u, a, b)[i]) = Folded(SubSeq(v, a, b)[i])
  BY <1>2, LikeFacts
<1>. QED
  BY <1>2, <1>3, LikeFrom

\* A set of numbers has a least one.
LEMMA LeastOf ==
  ASSUME NEW S, IsFiniteSet(S), S \subseteq Nat, S # {}
  PROVE  Min(S) \in S /\ \A x \in S : Min(S) <= x
<1>. PICK n, p : n = Cardinality(S) /\ p = InOrder(S)
  OBVIOUS
<1>1. n \in Nat /\ n # 0 /\ Ascending(p, n, S)
  BY InOrderAscends, FS_EmptySet
<1>2. 1 \in 1..n /\ p[1] \in S /\ p[1] \in Nat
  <2>1. 1 \in 1..n
    BY <1>1
  <2>2. p[1] \in S
    BY <1>1, <2>1 DEF Ascending
  <2>. QED BY <2>1, <2>2
<1>3. ASSUME NEW x \in S
      PROVE  p[1] <= x
  <2>1. PICK k \in 1..n : p[k] = x
    BY <1>1 DEF Ascending
  <2>2. k = 1 \/ 1 < k
    BY <1>1
  <2>3. 1 < k => p[1] < p[k]
    BY <1>1 DEF Ascending
  <2>4. x \in Nat
    OBVIOUS
  <2>. QED BY <1>2, <2>1, <2>2, <2>3, <2>4
<1>4. \E m \in S : \A x \in S : m <= x
  BY <1>2, <1>3
<1>. QED
  BY <1>4 DEF Min

\* Where the first occurrence of a phrase may be.
LEMMA OccurrencesType ==
  ASSUME NEW u \in Seq(Glyph), NEW phrase \in Seq(Glyph), Len(phrase) >= 1
  PROVE  /\ Occurrences(phrase, u) \subseteq 1..Len(u)
         /\ Occurrences(phrase, u) \subseteq Nat /\ IsFiniteSet(Occurrences(phrase, u))
         /\ Occurrences(phrase, u) # {} => Min(Occurrences(phrase, u)) \in 1..Len(u)
<1>1. Len(u) \in Nat /\ Len(phrase) \in Nat
  BY LenProperties
<1>2. Occurrences(phrase, u) \subseteq 1..Len(u)
  BY <1>1 DEF Occurrences
<1>3. Occurrences(phrase, u) \subseteq Nat /\ IsFiniteSet(Occurrences(phrase, u))
  BY <1>1, <1>2, UpTo, FS_Subset
<1>. QED
  BY <1>2, <1>3, LeastOf

\* Where there are only marks, spellings do not differ.
LEMMA LikeMarks ==
  ASSUME NEW u, NEW v, Like(u, v), \A i \in DOMAIN u : u[i].case = "none"
  PROVE  u = v
<1>1. /\ u \in Seq(Glyph) /\ v \in Seq(Glyph) /\ Len(u) = Len(v)
      /\ DOMAIN u = 1..Len(u) /\ \A i \in 1..Len(u) : u[i].case = "none" => u[i] = v[i]
  BY LikeFacts
<1>. QED
  BY <1>1, SeqEqual

\* Marks stand at the same places in all spellings.
LEMMA LikeOccurrences ==
  ASSUME NEW u, NEW v, Like(u, v), NEW phrase \in Seq(Glyph), Len(phrase) >= 1,
         \A k \in DOMAIN phrase : phrase[k].case = "none"
  PROVE  Occurrences(phrase, u) = Occurrences(phrase, v)
<1>1. Len(u) \in Nat /\ Len(phrase) \in Nat /\ Len(v) = Len(u) /\ Like(v, u)
  BY LikeFacts, LenProperties DEF Like
<1>2. ASSUME NEW i \in 1..Len(u) - Len(phrase) + 1
      PROVE  SubSeq(u, i, i + Len(phrase) - 1) = phrase
               <=> SubSeq(v, i, i + Len(phrase) - 1) = phrase
  <2>1. i \in Nat /\ i >= 1 /\ i + Len(phrase) - 1 \in Int /\ i + Len(phrase) - 1 <= Len(u)
    BY <1>1
  <2>2. Like(SubSeq(u, i, i + Len(phrase) - 1), SubSeq(v, i, i + Len(phrase) - 1))
        /\ Like(SubSeq(v, i, i + Len(phrase) - 1), SubSeq(u, i, i + Len(phrase) - 1))
    BY <1>1, <2>1, LikeSub
  <2>. QED BY <2>2, LikeMarks
<1>. QED
  BY <1>1, <1>2 DEF Occurrences

LEMMA ElementsOfAt ==
  ASSUME NEW u \in Seq(Glyph), NEW Q \in SUBSET DOMAIN u, NEW k \in DOMAIN At(u, Q)
  PROVE  \E i \in DOMAIN u : At(u, Q)[k] = u[i]
<1>1. At(u, Q)[k] = u[InOrder(Q)[k]] /\ InOrder(Q)[k] \in Q
  <2>1. DOMAIN At(u, Q) = 1..Cardinality(Q)
        /\ \A l \in 1..Cardinality(Q) : At(u, Q)[l] = u[InOrder(Q)[l]] /\ InOrder(Q)[l] \in Q
    BY AtType DEF Ascending
  <2>. QED BY <2>1
<1>. QED
  BY <1>1

LEMMA LoweredFacts ==
  ASSUME NEW s \in Glyph
  PROVE  /\ Lowered(s) \in Glyph /\ Lowered(s).sign = s.sign /\ Lowered(s).accent = s.accent
         /\ Lowered(s).case = IF s.case = "none" THEN "none" ELSE "lower"
<1>. PICK t : t = Lowered(s)
  OBVIOUS
<1>1. /\ t \in Glyph /\ t.sign = s.sign /\ t.accent = s.accent
      /\ t.case = IF s.case = "none" THEN "none" ELSE "lower"
  BY SymbolFacts
<1>. QED
  BY <1>1

\* A symbol is seen without its capital, and perhaps without its accent.
LEMMA SeenFacts ==
  ASSUME NEW s \in Glyph
  PROVE  /\ Seen(s) \in Glyph /\ Seen(s).sign = s.sign
         /\ Seen(s).case = IF s.case = "none" THEN "none" ELSE "lower"
         /\ Seen(s).accent = "none" => Seen(s) = Folded(s)
         /\ s.case = "none" => Seen(s) = s
         /\ s.accent = "none" => Seen(s).accent = "none"
         /\ s.sign \in Acronyms /\ Seen(s).accent = "none" => s.accent = "none"
<1>1. Seen(s) = Folded(s) \/ Seen(s) = Lowered(s)
  BY DEF Seen
<1>2. /\ Folded(s) \in Glyph /\ Folded(s).sign = s.sign /\ Folded(s).accent = "none"
      /\ Folded(s).case = IF s.case = "none" THEN "none" ELSE "lower"
  BY FoldedFacts
<1>3. /\ Lowered(s) \in Glyph /\ Lowered(s).sign = s.sign /\ Lowered(s).accent = s.accent
      /\ Lowered(s).case = IF s.case = "none" THEN "none" ELSE "lower"
  BY LoweredFacts
<1>4. Lowered(s).accent = "none" => Lowered(s) = Folded(s)
  BY <1>2, <1>3, SameSymbol
<1>5. s.case = "none" => Folded(s) = s /\ Lowered(s) = s
  BY FoldedOfFolded DEF Lowered, IsWord
<1>6. s.sign \in Acronyms => Seen(s) = Lowered(s)
  BY DEF Seen, Acronyms
<1>. QED
  BY <1>1, <1>2, <1>3, <1>4, <1>5, <1>6

\* A text all of whose symbols are in another.
LEMMA NothingHidden ==
  ASSUME NEW u, NEW w, ~HidesName(u),
         \A k \in DOMAIN w : \E i \in DOMAIN u : w[k] = u[i]
  PROVE  ~HidesName(w)
  BY DEF HidesName

LEMMA TrimHidesNothing ==
  ASSUME NEW u \in Seq(Glyph), ~HidesName(u)
  PROVE  ~HidesName(Trim(u))
  BY TrimType, ElementsOfAt, NothingHidden

LEMMA SubSeqHidesNothing ==
  ASSUME NEW u \in Seq(Glyph), ~HidesName(u), NEW a \in Nat, NEW b \in Int,
         a >= 1, b <= Len(u)
  PROVE  SubSeq(u, a, b) \in Seq(Glyph) /\ ~HidesName(SubSeq(u, a, b))
<1>1. Len(u) \in Nat /\ DOMAIN u = 1..Len(u) /\ \A i \in a..b : i \in DOMAIN u /\ u[i] \in Glyph
  BY LenProperties, ElementOfSeq
<1>. PICK w : w = SubSeq(u, a, b)
  OBVIOUS
<1>2. /\ w \in Seq(Glyph) /\ Len(w) = IF a <= b THEN b - a + 1 ELSE 0
      /\ \A i \in 1..b - a + 1 : w[i] = u[a + i - 1]
  BY <1>1, SubSeqProperties
<1>3. DOMAIN w = 1..Len(w)
  BY <1>2, LenProperties
<1>4. \A k \in DOMAIN w : \E i \in DOMAIN u : w[k] = u[i]
  <2>1. \A k \in DOMAIN w : a + k - 1 \in a..b /\ k \in 1..b - a + 1
    BY <1>2, <1>3
  <2>. QED BY <1>1, <1>2, <2>1
<1>. QED
  BY <1>2, <1>4, NothingHidden

LEMMA CourtType ==
  ASSUME NEW sign \in Signs
  PROVE  /\ Court(sign) \in Seq(Glyph) /\ Len(Court(sign)) = 1 /\ ~HidesName(Court(sign))
         /\ Court(sign)[1] = Upper(sign) /\ DOMAIN Court(sign) = 1..1
<1>1. Upper(sign) \in Glyph /\ Upper(sign).accent = "none"
  BY DEF Upper, Glyph, IsWord
<1>2. Court(sign) = <<Upper(sign)>>
  BY DEF Court
<1>3. Court(sign) \in Seq(Glyph) /\ Len(Court(sign)) = 1 /\ Court(sign)[1] = Upper(sign)
  BY <1>1, <1>2
<1>4. DOMAIN Court(sign) = 1..1
  BY <1>3, LenProperties
<1>5. Seen(Upper(sign)).accent = "none"
  BY <1>1, SeenFacts
<1>. QED
  BY <1>1, <1>3, <1>4, <1>5 DEF HidesName

LEMMA LikeItself == \A u \in Seq(Glyph) : Like(u, u)
  BY DEF Like

\* With no name hidden, spellings have the same first one.
LEMMA LikeAcronym ==
  ASSUME NEW u, NEW v, Like(u, v), ~HidesName(u), ~HidesName(v)
  PROVE  /\ FirstAcronym(u) = FirstAcronym(v)
         /\ FirstAcronym(u) # 0 =>
              /\ FirstAcronym(u) \in 1..Len(u)
              /\ u[FirstAcronym(u)].sign \in Acronyms
              /\ u[FirstAcronym(u)].sign = v[FirstAcronym(u)].sign
<1>1. /\ Len(u) \in Nat /\ DOMAIN u = 1..Len(u) /\ DOMAIN v = 1..Len(u)
      /\ \A i \in 1..Len(u) : u[i].sign = v[i].sign /\ u[i] \in Glyph /\ v[i] \in Glyph
  BY LikeFacts
<1>. DEFINE at(t) == {i \in DOMAIN t : t[i].accent = "none" /\ t[i].sign \in Acronyms}
<1>a. \A i \in 1..Len(u) : u[i].sign \in Acronyms => u[i].accent = "none" /\ v[i].accent = "none"
  <2>. SUFFICES ASSUME NEW i \in 1..Len(u), u[i].sign \in Acronyms
                PROVE  u[i].accent = "none" /\ v[i].accent = "none"
    OBVIOUS
  <2>1. u[i].sign \in NameSigns /\ v[i].sign \in NameSigns /\ v[i].sign \in Acronyms
    BY <1>1 DEF NameSigns
  <2>2. Seen(u[i]).accent = "none" /\ Seen(v[i]).accent = "none"
    BY <1>1, <2>1 DEF HidesName
  <2>. QED BY <1>1, <2>1, <2>2, SeenFacts
<1>2. at(u) = at(v)
  BY <1>1, <1>a
<1>3. FirstAcronym(u) = (IF at(u) = {} THEN 0 ELSE Min(at(u)))
      /\ FirstAcronym(v) = (IF at(v) = {} THEN 0 ELSE Min(at(v)))
  BY DEF FirstAcronym
<1>4. at(u) \subseteq 1..Len(u) /\ at(u) \subseteq Nat
      /\ \A i \in at(u) : u[i].sign \in Acronyms
  BY <1>1
<1>5. IsFiniteSet(at(u))
  BY <1>1, <1>4, UpTo, FS_Subset
<1>. HIDE DEF at
<1>6. at(u) # {} => Min(at(u)) \in at(u)
  BY <1>4, <1>5, LeastOf
<1>. QED
  BY <1>1, <1>2, <1>3, <1>4, <1>6

\* What the steps keep of two spellings, when neither hides a name.
Alike(u, v) == Like(u, v) /\ ~HidesName(u) /\ ~HidesName(v)

LEMMA AlikeTrim ==
  ASSUME NEW u, NEW v, Alike(u, v)
  PROVE  Alike(Trim(u), Trim(v))
  BY LikeTrim, TrimHidesNothing DEF Alike, Like

LEMMA AlikeCourts ==
  ASSUME NEW sign \in Signs
  PROVE  Alike(Court(sign), Court(sign))
  BY CourtType, LikeItself DEF Alike

-------------------------------------------------------------------------------
(* The names of regions.                                                   *)

SameAccents(u, v) == \A i \in 1..Len(u) : u[i].accent = v[i].accent

LEMMA WordSigns ==
  ASSUME NEW signs, NEW n \in Nat, DOMAIN signs = 1..n
  PROVE  DOMAIN Words(signs) = 1..n /\ \A i \in 1..n : Words(signs)[i].sign = signs[i]
  BY DEF Words, Mark, Lower

\* Phrases made of words that courts are recognised by.
OfNames(phrase) ==
  /\ Len(phrase) \in Nat
  /\ \A k \in DOMAIN phrase : phrase[k] = Space \/ phrase[k].sign \in NameSigns

LEMMA WordsOfNames ==
  ASSUME NEW signs, NEW n \in Nat, DOMAIN signs = 1..n, Len(Words(signs)) = n,
         \A k \in 1..n : signs[k] = " " \/ signs[k] \in NameSigns
  PROVE  OfNames(Words(signs))
<1>1. DOMAIN Words(signs) = 1..n /\ \A k \in 1..n : Words(signs)[k].sign = signs[k]
  BY WordSigns
<1>2. \A k \in 1..n : signs[k] = " " => Words(signs)[k] = Space
  BY DEF Words, Space
<1>. QED
  BY <1>1, <1>2 DEF OfNames

LEMMA WordsLengths ==
  ASSUME NEW signs, NEW n \in Nat, DOMAIN signs = 1..n
  PROVE  Len(Words(signs)) = n
  BY DEF Words

LEMMA RegionsOfNames ==
  /\ OfNames(RegionShort) /\ OfNames(RegionLong) /\ OfNames(RegionEnd)
  /\ Len(RegionShort) = 5 /\ Len(RegionLong) = 5
<1>1. \A k \in 1..5 : k = 1 \/ k = 2 \/ k = 3 \/ k = 4 \/ k = 5
  OBVIOUS
<1>2. {"tribunal", "regional", "federal", "1", "regiao", "trf"} \subseteq NameSigns
  BY DEF NameSigns, Acronyms
<1>3. OfNames(RegionShort) /\ Len(RegionShort) = 5
  <2>. DEFINE signs == <<"trf", " ", "1", " ", "regiao">>
  <2>1. DOMAIN signs = 1..5 /\ 5 \in Nat /\ signs[1] = "trf" /\ signs[2] = " "
        /\ signs[3] = "1" /\ signs[4] = " " /\ signs[5] = "regiao"
    OBVIOUS
  <2>2. RegionShort = Words(signs)
    BY DEF RegionShort
  <2>. HIDE DEF signs
  <2>3. \A k \in 1..5 : signs[k] = " " \/ signs[k] \in NameSigns
    BY <1>1, <1>2, <2>1
  <2>4. Len(Words(signs)) = 5
    BY <2>1, WordsLengths
  <2>5. OfNames(Words(signs))
    BY <2>1, <2>3, <2>4, WordsOfNames
  <2>. QED BY <2>2, <2>4, <2>5
<1>4. OfNames(RegionLong) /\ Len(RegionLong) = 5
  <2>. DEFINE signs == <<"tribunal", " ", "regional", " ", "federal">>
  <2>1. DOMAIN signs = 1..5 /\ 5 \in Nat /\ signs[1] = "tribunal" /\ signs[2] = " "
        /\ signs[3] = "regional" /\ signs[4] = " " /\ signs[5] = "federal"
    OBVIOUS
  <2>2. RegionLong = Words(signs)
    BY DEF RegionLong
  <2>. HIDE DEF signs
  <2>3. \A k \in 1..5 : signs[k] = " " \/ signs[k] \in NameSigns
    BY <1>1, <1>2, <2>1
  <2>4. Len(Words(signs)) = 5
    BY <2>1, WordsLengths
  <2>5. OfNames(Words(signs))
    BY <2>1, <2>3, <2>4, WordsOfNames
  <2>. QED BY <2>2, <2>4, <2>5
<1>5. OfNames(RegionEnd)
  <2>. DEFINE signs == <<"1", " ", "regiao">>
  <2>1. DOMAIN signs = 1..3 /\ 3 \in Nat /\ signs[1] = "1" /\ signs[2] = " "
        /\ signs[3] = "regiao"
    OBVIOUS
  <2>2. RegionEnd = Words(signs)
    BY DEF RegionEnd
  <2>. HIDE DEF signs
  <2>3. \A k \in 1..3 : k = 1 \/ k = 2 \/ k = 3
    OBVIOUS
  <2>4. \A k \in 1..3 : signs[k] = " " \/ signs[k] \in NameSigns
    BY <1>2, <2>1, <2>3
  <2>5. Len(Words(signs)) = 3
    BY <2>1, WordsLengths
  <2>6. OfNames(Words(signs))
    BY <2>1, <2>4, <2>5, WordsOfNames
  <2>. QED BY <2>2, <2>6
<1>. QED
  BY <1>3, <1>4, <1>5

LEMMA SightType ==
  ASSUME NEW u \in Seq(Glyph)
  PROVE  /\ Sight(u) \in Seq(Glyph) /\ Len(Sight(u)) = Len(u)
         /\ \A i \in 1..Len(u) : Sight(u)[i] = Seen(u[i])
<1>1. Len(u) \in Nat /\ DOMAIN u = 1..Len(u) /\ \A i \in DOMAIN u : u[i] \in Glyph
  BY LenProperties, ElementOfSeq
<1>2. Sight(u) = [i \in 1..Len(u) |-> Seen(u[i])]
  BY <1>1 DEF Sight, Each
<1>3. \A i \in 1..Len(u) : Seen(u[i]) \in Glyph
  BY <1>1, SeenFacts
<1>. QED
  BY <1>1, <1>2, <1>3

\* Two spellings of a symbol are seen as a word of a name, or neither is.
LEMMA SeenAlike ==
  ASSUME NEW s \in Glyph, NEW t \in Glyph, Folded(s) = Folded(t),
         \/ s.accent = t.accent
         \/ s.sign \in NameSigns => Seen(s).accent = "none" /\ Seen(t).accent = "none",
         NEW x, x = Space \/ x.sign \in NameSigns
  PROVE  Seen(s) = x <=> Seen(t) = x
<1>1. s.sign = t.sign /\ (s.case = "none" <=> t.case = "none") /\ (s.case = "none" => s = t)
  BY SameFolded
<1>2. CASE s.accent = t.accent
  <2>1. Lowered(s) = Lowered(t)
    <3>1. /\ Lowered(s) \in Glyph /\ Lowered(s).sign = s.sign /\ Lowered(s).accent = s.accent
          /\ Lowered(s).case = IF s.case = "none" THEN "none" ELSE "lower"
      BY LoweredFacts
    <3>2. /\ Lowered(t) \in Glyph /\ Lowered(t).sign = t.sign /\ Lowered(t).accent = t.accent
          /\ Lowered(t).case = IF t.case = "none" THEN "none" ELSE "lower"
      BY LoweredFacts
    <3>. QED BY <1>1, <1>2, <3>1, <3>2, SameSymbol
  <2>. QED BY <1>1, <1>2, <2>1 DEF Seen
<1>3. CASE s.sign \in NameSigns /\ Seen(s).accent = "none" /\ Seen(t).accent = "none"
  <2>1. Seen(s) = Folded(s) /\ Seen(t) = Folded(t)
    BY <1>3, SeenFacts
  <2>. QED BY <2>1
<1>4. CASE s.sign \notin NameSigns
  <2>1. /\ Seen(s).sign = s.sign /\ Seen(t).sign = s.sign
        /\ Seen(s).case = IF s.case = "none" THEN "none" ELSE "lower"
        /\ Seen(t).case = IF s.case = "none" THEN "none" ELSE "lower"
    BY <1>1, SeenFacts
  <2>2. CASE x.sign \in NameSigns
    BY <1>4, <2>1, <2>2
  <2>3. CASE x = Space
    <3>1. Space.case = "none"
      BY DEF Space, Mark
    <3>. QED BY <1>1, <2>1, <2>3, <3>1
  <2>. QED BY <2>2, <2>3
<1>. QED
  BY <1>2, <1>3, <1>4

LEMMA SameOccurrences ==
  ASSUME NEW u \in Seq(Glyph), NEW v \in Seq(Glyph), Len(u) = Len(v),
         NEW phrase, Len(phrase) \in Nat,
         \A k \in DOMAIN phrase : \A i \in 1..Len(u) : u[i] = phrase[k] => v[i] = phrase[k]
  PROVE  Occurrences(phrase, u) \subseteq Occurrences(phrase, v)
<1>1. Len(u) \in Nat
  BY LenProperties
<1>2. ASSUME NEW i \in 1..Len(u) - Len(phrase) + 1, SubSeq(u, i, i + Len(phrase) - 1) = phrase
      PROVE  SubSeq(v, i, i + Len(phrase) - 1) = phrase
  <2>. PICK j : j = i + Len(phrase) - 1
    OBVIOUS
  <2>1. i \in Nat /\ i >= 1 /\ j \in Int /\ j <= Len(u)
    BY <1>1
  <2>2. \A l \in i..j : l \in 1..Len(u) /\ u[l] \in Glyph /\ v[l] \in Glyph
    BY <1>1, <2>1, LenProperties, ElementOfSeq
  <2>. PICK a, b : a = SubSeq(u, i, j) /\ b = SubSeq(v, i, j)
    OBVIOUS
  <2>3. /\ a \in Seq(Glyph) /\ Len(a) = IF i <= j THEN j - i + 1 ELSE 0
        /\ \A k \in 1..j - i + 1 : a[k] = u[i + k - 1]
        /\ b \in Seq(Glyph) /\ Len(b) = IF i <= j THEN j - i + 1 ELSE 0
        /\ \A k \in 1..j - i + 1 : b[k] = v[i + k - 1]
    BY <1>1, <2>1, <2>2, SubSeqProperties
  <2>4. a = phrase
    BY <1>2
  <2>5. \A k \in 1..Len(a) : a[k] = b[k]
    <3>. SUFFICES ASSUME NEW k \in 1..Len(a)
                  PROVE  a[k] = b[k]
      OBVIOUS
    <3>1. DOMAIN a = 1..Len(a)
      BY <2>3, LenProperties
    <3>2. k \in 1..j - i + 1 /\ i + k - 1 \in 1..Len(u)
      BY <1>1, <2>1, <2>3
    <3>3. k \in DOMAIN phrase /\ u[i + k - 1] = phrase[k]
      BY <2>3, <2>4, <3>1, <3>2
    <3>. QED BY <2>3, <2>4, <3>2, <3>3
  <2>6. a \in Seq(Glyph) /\ b \in Seq(Glyph) /\ Len(a) = Len(b)
    BY <2>3
  <2>7. a = b
    BY <2>6, <2>5, SeqEqual
  <2>. QED BY <2>4, <2>7
<1>. QED
  BY <1>2 DEF Occurrences

\* Spellings with the same accents, and those that hide no name, name the same
\* regions.
LEMMA SameNames ==
  ASSUME NEW u, NEW v, Like(u, v), SameAccents(u, v) \/ Alike(u, v), NEW phrase, OfNames(phrase)
  PROVE  Occurrences(phrase, Sight(u)) = Occurrences(phrase, Sight(v))
<1>1. /\ u \in Seq(Glyph) /\ v \in Seq(Glyph) /\ Len(u) = Len(v) /\ Len(u) \in Nat
      /\ DOMAIN u = 1..Len(u) /\ DOMAIN v = 1..Len(u)
      /\ \A i \in 1..Len(u) : u[i] \in Glyph /\ v[i] \in Glyph /\ Folded(u[i]) = Folded(v[i])
                               /\ u[i].sign = v[i].sign
  BY LikeFacts
<1>2. /\ Sight(u) \in Seq(Glyph) /\ Len(Sight(u)) = Len(u)
      /\ Sight(v) \in Seq(Glyph) /\ Len(Sight(v)) = Len(u)
      /\ \A i \in 1..Len(u) : Sight(u)[i] = Seen(u[i]) /\ Sight(v)[i] = Seen(v[i])
  BY <1>1, SightType
<1>3. ASSUME NEW i \in 1..Len(u), NEW k \in DOMAIN phrase
      PROVE  Seen(u[i]) = phrase[k] <=> Seen(v[i]) = phrase[k]
  <2>1. \/ u[i].accent = v[i].accent
        \/ u[i].sign \in NameSigns => Seen(u[i]).accent = "none" /\ Seen(v[i]).accent = "none"
    BY <1>1 DEF SameAccents, Alike, HidesName
  <2>2. phrase[k] = Space \/ phrase[k].sign \in NameSigns
    BY DEF OfNames
  <2>. QED BY <1>1, <2>1, <2>2, SeenAlike
<1>4. Len(phrase) \in Nat
  BY DEF OfNames
<1>5. Occurrences(phrase, Sight(u)) \subseteq Occurrences(phrase, Sight(v))
  BY <1>2, <1>3, <1>4, SameOccurrences
<1>6. Occurrences(phrase, Sight(v)) \subseteq Occurrences(phrase, Sight(u))
  BY <1>2, <1>3, <1>4, SameOccurrences
<1>. QED
  BY <1>5, <1>6

LEMMA SameRegion ==
  ASSUME NEW u, NEW v, Like(u, v), SameAccents(u, v) \/ Alike(u, v)
  PROVE  /\ NamesShortRegion(u) <=> NamesShortRegion(v)
         /\ NamesRegion(u) <=> NamesRegion(v)
<1>1. /\ Occurrences(RegionShort, Sight(u)) = Occurrences(RegionShort, Sight(v))
      /\ Occurrences(RegionLong, Sight(u)) = Occurrences(RegionLong, Sight(v))
      /\ Occurrences(RegionEnd, Sight(u)) = Occurrences(RegionEnd, Sight(v))
  BY SameNames, RegionsOfNames
<1>. QED
  BY <1>1 DEF NamesShortRegion, NamesRegion

-------------------------------------------------------------------------------
(* Suffixes and courts.                                                    *)

\* The separators of suffixes.
Dash == <<Space, Hyphen, Space>>

LEMMA SeparatorsType ==
  \A phrase \in {Dash, <<Hyphen>>, <<Slash>>, <<Bar>>} :
    /\ phrase \in Seq(Glyph) /\ Len(phrase) >= 1
    /\ \A k \in DOMAIN phrase : phrase[k].case = "none"
<1>1. \A s \in {Space, Hyphen, Slash, Bar} : s \in Glyph /\ s.case = "none"
  BY MarkFacts DEF Space, Hyphen, Slash, Bar, Signs
<1>2. \A s \in {Space, Hyphen, Slash, Bar} :
        /\ <<s>> \in Seq(Glyph) /\ Len(<<s>>) >= 1 /\ \A k \in DOMAIN <<s>> : <<s>>[k].case = "none"
  BY <1>1
<1>3. /\ Dash \in Seq(Glyph) /\ Len(Dash) >= 1
      /\ \A k \in DOMAIN Dash : Dash[k].case = "none"
  <2>1. Space \in Glyph /\ Space.case = "none" /\ Hyphen \in Glyph /\ Hyphen.case = "none"
    BY <1>1
  <2>2. Dash \in Seq(Glyph) /\ Len(Dash) = 3
    BY <2>1 DEF Dash
  <2>3. DOMAIN Dash = 1..3 /\ Dash[1] = Space /\ Dash[2] = Hyphen /\ Dash[3] = Space
    BY <2>2, LenProperties DEF Dash
  <2>4. \A k \in 1..3 : k = 1 \/ k = 2 \/ k = 3
    OBVIOUS
  <2>5. \A k \in 1..3 : Dash[k].case = "none"
    BY <2>1, <2>3, <2>4
  <2>. QED BY <2>2, <2>3, <2>5
<1>. QED
  BY <1>2, <1>3

\* What stands before a separator is alike in all spellings.
LEMMA AlikeBeforeFirst ==
  ASSUME NEW u, NEW v, Alike(u, v), NEW phrase \in {Dash, <<Hyphen>>, <<Slash>>},
         Occurrences(phrase, u) # {}
  PROVE  Alike(BeforeFirst(phrase, u), BeforeFirst(phrase, v))
<1>. PICK m : m = Min(Occurrences(phrase, u))
  OBVIOUS
<1>1. phrase \in Seq(Glyph) /\ Len(phrase) >= 1
      /\ \A k \in DOMAIN phrase : phrase[k].case = "none"
  BY SeparatorsType
<1>2. Like(u, v) /\ u \in Seq(Glyph) /\ v \in Seq(Glyph) /\ Len(u) = Len(v) /\ Len(u) \in Nat
  BY LikeFacts DEF Alike
<1>3. m = Min(Occurrences(phrase, v)) /\ m \in 1..Len(u)
  BY <1>1, <1>2, LikeOccurrences, OccurrencesType
<1>4. 1 \in Nat /\ m - 1 \in Int /\ 1 >= 1 /\ m - 1 <= Len(u)
  BY <1>2, <1>3
<1>5. Like(SubSeq(u, 1, m - 1), SubSeq(v, 1, m - 1))
  BY <1>2, <1>4, LikeSub
<1>6. ~HidesName(SubSeq(u, 1, m - 1)) /\ ~HidesName(SubSeq(v, 1, m - 1))
  BY <1>2, <1>4, SubSeqHidesNothing DEF Alike
<1>7. Alike(Trim(SubSeq(u, 1, m - 1)), Trim(SubSeq(v, 1, m - 1)))
  BY <1>5, <1>6, AlikeTrim DEF Alike
<1>. QED
  BY <1>3, <1>7 DEF BeforeFirst

\* RemoveSuffixes, by cases.
LEMMA SuffixesByCases ==
  ASSUME NEW u, NEW t, t = Trim(u)
  PROVE  RemoveSuffixes(u) =
           IF NamesShortRegion(t) THEN Court("trf1")
           ELSE IF FirstAcronym(t) = 1 THEN Court(Head(t).sign)
           ELSE IF Occurrences(Dash, t) # {} THEN BeforeFirst(Dash, t)
           ELSE IF Occurrences(<<Hyphen>>, t) # {} THEN BeforeFirst(<<Hyphen>>, t)
           ELSE IF Occurrences(<<Slash>>, t) # {} THEN BeforeFirst(<<Slash>>, t)
           ELSE t
  BY DEF RemoveSuffixes, Dash

\* Spellings lose the same suffixes.
LEMMA AlikeSuffixes ==
  ASSUME NEW u, NEW v, Alike(u, v)
  PROVE  Alike(RemoveSuffixes(u), RemoveSuffixes(v))
<1>. PICK t, w : t = Trim(u) /\ w = Trim(v)
  OBVIOUS
<1>1. Alike(t, w) /\ Like(t, w) /\ Fold(t) = Fold(w) /\ t \in Seq(Glyph) /\ w \in Seq(Glyph)
  BY AlikeTrim DEF Alike, Like
<1>2. "trf1" \in Signs /\ Acronyms \subseteq Signs
  BY DEF Signs, Acronyms
<1>3. FirstAcronym(t) = FirstAcronym(w)
      /\ (FirstAcronym(t) = 1 => Head(t).sign = Head(w).sign /\ Head(t).sign \in Signs)
  BY <1>1, <1>2, LikeAcronym DEF Alike
<1>4. \A phrase \in {Dash, <<Hyphen>>, <<Slash>>} : Occurrences(phrase, t) = Occurrences(phrase, w)
  <2>1. ASSUME NEW phrase \in {Dash, <<Hyphen>>, <<Slash>>}
        PROVE  Occurrences(phrase, t) = Occurrences(phrase, w)
    <3>1. phrase \in Seq(Glyph) /\ Len(phrase) >= 1
          /\ \A k \in DOMAIN phrase : phrase[k].case = "none"
      BY SeparatorsType
    <3>. QED BY <1>1, <3>1, LikeOccurrences
  <2>. QED BY <2>1
<1>a. NamesShortRegion(t) <=> NamesShortRegion(w)
  BY <1>1, SameRegion
<1>5. CASE NamesShortRegion(t)
  <2>1. RemoveSuffixes(u) = Court("trf1") /\ RemoveSuffixes(v) = Court("trf1")
    BY <1>1, <1>5, <1>a, SuffixesByCases
  <2>. QED BY <1>2, <2>1, AlikeCourts
<1>6. CASE ~NamesShortRegion(t) /\ FirstAcronym(t) = 1
  <2>1. RemoveSuffixes(u) = Court(Head(t).sign) /\ RemoveSuffixes(v) = Court(Head(t).sign)
    BY <1>1, <1>3, <1>6, <1>a, SuffixesByCases
  <2>. QED BY <1>3, <1>6, <2>1, AlikeCourts
<1>7. CASE ~NamesShortRegion(t) /\ FirstAcronym(t) # 1
  <2>1. ASSUME NEW phrase \in {Dash, <<Hyphen>>, <<Slash>>},
               RemoveSuffixes(u) = BeforeFirst(phrase, t),
               RemoveSuffixes(v) = BeforeFirst(phrase, w), Occurrences(phrase, t) # {}
        PROVE  Alike(RemoveSuffixes(u), RemoveSuffixes(v))
    BY <1>1, <2>1, AlikeBeforeFirst
  <2>2. CASE Occurrences(Dash, t) # {}
    BY <1>1, <1>3, <1>4, <1>7, <1>a, <2>1, <2>2, SuffixesByCases
  <2>3. CASE Occurrences(Dash, t) = {} /\ Occurrences(<<Hyphen>>, t) # {}
    BY <1>1, <1>3, <1>4, <1>7, <1>a, <2>1, <2>3, SuffixesByCases
  <2>4. CASE Occurrences(Dash, t) = {} /\ Occurrences(<<Hyphen>>, t) = {}
             /\ Occurrences(<<Slash>>, t) # {}
    BY <1>1, <1>3, <1>4, <1>7, <1>a, <2>1, <2>4, SuffixesByCases
  <2>5. CASE Occurrences(Dash, t) = {} /\ Occurrences(<<Hyphen>>, t) = {}
             /\ Occurrences(<<Slash>>, t) = {}
    <3>1. RemoveSuffixes(u) = t /\ RemoveSuffixes(v) = w
      BY <1>1, <1>3, <1>4, <1>7, <1>a, <2>5, SuffixesByCases
    <3>. QED BY <1>1, <3>1
  <2>. QED BY <2>2, <2>3, <2>4, <2>5
<1>. QED
  BY <1>5, <1>6, <1>7

LEMMA StatesType ==
  /\ DOMAIN STATE_TO_UF = 1..5
  /\ \A k \in 1..5 : STATE_TO_UF[k].court \in Acronyms
<1>1. DOMAIN STATE_TO_UF = 1..5
  BY DEF STATE_TO_UF
<1>2. /\ STATE_TO_UF[1].court = "tjmt" /\ STATE_TO_UF[2].court = "tjms"
      /\ STATE_TO_UF[3].court = "tjpa" /\ STATE_TO_UF[4].court = "tjpr"
      /\ STATE_TO_UF[5].court = "tjsp"
  BY DEF STATE_TO_UF
<1>3. \A k \in 1..5 : k = 1 \/ k = 2 \/ k = 3 \/ k = 4 \/ k = 5
  OBVIOUS
<1>. QED
  BY <1>1, <1>2, <1>3 DEF Acronyms

\* Spellings have the same abbreviation.
LEMMA AlikeAbbreviate ==
  ASSUME NEW u, NEW v, Alike(u, v)
  PROVE  Alike(Abbreviate(u), Abbreviate(v))
<1>. PICK t, w : t = Trim(u) /\ w = Trim(v)
  OBVIOUS
<1>. DEFINE f == Fold(t)
            region == NamesShortRegion(t) \/ NamesRegion(t)
            states == {s \in DOMAIN STATE_TO_UF : Within(STATE_TO_UF[s].name, f)}
            tribunal == Within(Words(<<"tribunal", " ", "de", " ", "justica">>), f)
            abbreviated(x) ==
              IF region THEN Court("trf1")
              ELSE IF FirstAcronym(x) # 0 THEN Court(x[FirstAcronym(x)].sign)
              ELSE IF tribunal /\ states # {} THEN Court(STATE_TO_UF[Min(states)].court)
              ELSE x
<1>1. Alike(t, w) /\ Like(t, w) /\ Fold(w) = f /\ t \in Seq(Glyph) /\ w \in Seq(Glyph)
  BY AlikeTrim DEF Alike, Like
<1>2. "trf1" \in Signs /\ Acronyms \subseteq Signs
  BY DEF Signs, Acronyms
<1>a. region <=> NamesShortRegion(w) \/ NamesRegion(w)
  BY <1>1, SameRegion
<1>3. Abbreviate(u) = abbreviated(t) /\ Abbreviate(v) = abbreviated(w)
  BY <1>1, <1>a DEF Abbreviate
<1>4. FirstAcronym(t) = FirstAcronym(w)
      /\ (FirstAcronym(t) # 0 => t[FirstAcronym(t)].sign = w[FirstAcronym(t)].sign
                                 /\ t[FirstAcronym(t)].sign \in Signs)
  BY <1>1, <1>2, LikeAcronym DEF Alike
<1>5. states # {} => STATE_TO_UF[Min(states)].court \in Signs
  <2>1. states \subseteq 1..5
    BY StatesType
  <2>. HIDE DEF states
  <2>2. states \subseteq Nat /\ IsFiniteSet(states)
    <3>1. 1..5 \subseteq Nat /\ 5 \in Nat
      OBVIOUS
    <3>2. IsFiniteSet(1..5)
      BY <3>1, UpTo
    <3>. QED BY <2>1, <3>1, <3>2, FS_Subset
  <2>. QED BY <1>2, <2>1, <2>2, LeastOf, StatesType
<1>. HIDE DEF region, states, tribunal, f
<1>. QED
  BY <1>1, <1>2, <1>3, <1>4, <1>5, AlikeCourts

-------------------------------------------------------------------------------
(* Accents and capitals.                                                   *)

\* Removing accents leaves a spelling without any.
LEMMA AccentsGone ==
  ASSUME NEW u \in Seq(Glyph)
  PROVE  /\ Like(u, RemoveAccents(u))
         /\ \A i \in 1..Len(u) : RemoveAccents(u)[i].accent = "none"
<1>1. Len(u) \in Nat /\ DOMAIN u = 1..Len(u) /\ \A i \in 1..Len(u) : u[i] \in Glyph
  BY LenProperties, ElementOfSeq
<1>2. RemoveAccents(u) = [i \in 1..Len(u) |-> Unaccented(u[i])]
  BY <1>1 DEF RemoveAccents, Each
<1>3. \A i \in 1..Len(u) :
        /\ Unaccented(u[i]) \in Glyph /\ Unaccented(u[i]).accent = "none"
        /\ Folded(u[i]) = Folded(Unaccented(u[i]))
  BY <1>1, SymbolFacts, FoldedOfFolded
<1>4. RemoveAccents(u) \in Seq(Glyph) /\ Len(RemoveAccents(u)) = Len(u)
  BY <1>1, <1>2, <1>3
<1>. QED
  BY <1>2, <1>3, <1>4, LikeFrom

\* What Capitalize makes of a symbol of a trimmed text.
Cased(t, i) ==
  LET alone == /\ i > 1 /\ t[i - 1] = Space
               /\ i < Len(t) => t[i + 1] = Space
      initial == i = 1 \/ t[i - 1] \in {Space, Hyphen}
  IN  IF ~IsWord(t[i]) THEN t[i]
      ELSE IF initial /\ ~(alone /\ IsPreposition(t[i]))
      THEN [t[i] EXCEPT !.case = "capital"]
      ELSE Lowered(t[i])

LEMMA CapitalType ==
  ASSUME NEW s \in Glyph, s.case # "none", NEW c, c = [s EXCEPT !.case = "capital"]
  PROVE  c \in Glyph /\ c.sign = s.sign /\ c.accent = s.accent /\ c.case = "capital"
  BY SymbolFacts

LEMMA CapitalizeByCases ==
  ASSUME NEW u
  PROVE  Capitalize(u) = [i \in DOMAIN Trim(u) |-> Cased(Trim(u), i)]
  BY DEF Capitalize, Cased

LEMMA SameCased ==
  ASSUME NEW t, NEW w, Like(t, w), SameAccents(t, w), NEW i \in 1..Len(t)
  PROVE  Cased(t, i) = Cased(w, i)
<1>1. /\ Len(t) = Len(w) /\ Len(t) \in Nat /\ t[i] \in Glyph /\ w[i] \in Glyph
      /\ t[i].sign = w[i].sign /\ t[i].accent = w[i].accent
      /\ t[i].case = "none" <=> w[i].case = "none"
      /\ t[i].case = "none" => t[i] = w[i]
  BY LikeFacts DEF SameAccents
<1>2. ASSUME NEW j \in 1..Len(t)
      PROVE  (t[j] = Space <=> w[j] = Space) /\ (t[j] = Hyphen <=> w[j] = Hyphen)
  BY LikeSeparators
<1>. DEFINE alone(x) == i > 1 /\ x[i - 1] = Space /\ (i < Len(x) => x[i + 1] = Space)
            initial(x) == i = 1 \/ x[i - 1] \in {Space, Hyphen}
            small(x) == ~(initial(x) /\ ~(alone(x) /\ IsPreposition(x[i])))
<1>3. \A x : Cased(x, i) = IF ~IsWord(x[i]) THEN x[i]
                           ELSE IF small(x) THEN Lowered(x[i])
                           ELSE [x[i] EXCEPT !.case = "capital"]
  BY DEF Cased
<1>4. small(t) <=> small(w)
  <2>1. i > 1 => i - 1 \in 1..Len(t)
    BY <1>1
  <2>2. i < Len(t) => i + 1 \in 1..Len(t)
    BY <1>1
  <2>3. alone(t) <=> alone(w)
    BY <1>1, <1>2, <2>1, <2>2
  <2>4. initial(t) <=> initial(w)
    <3>1. i = 1 \/ i > 1
      OBVIOUS
    <3>. QED BY <1>2, <2>1, <3>1
  <2>5. IsPreposition(t[i]) <=> IsPreposition(w[i])
    BY <1>1 DEF IsPreposition
  <2>. QED BY <2>3, <2>4, <2>5
<1>. HIDE DEF small
<1>5. IsWord(t[i]) <=> IsWord(w[i])
  BY <1>1 DEF IsWord
<1>6. ASSUME IsWord(t[i])
      PROVE  /\ Lowered(t[i]) = Lowered(w[i])
             /\ [t[i] EXCEPT !.case = "capital"] = [w[i] EXCEPT !.case = "capital"]
  <2>. PICK a, b : a = t[i] /\ b = w[i]
    OBVIOUS
  <2>1. a \in Glyph /\ b \in Glyph /\ a.sign = b.sign /\ a.accent = b.accent
        /\ a.case # "none" /\ b.case # "none"
    BY <1>1, <1>6 DEF IsWord
  <2>2. Lowered(a) = Lowered(b)
    <3>1. Lowered(a) \in Glyph /\ Lowered(a).sign = a.sign /\ Lowered(a).accent = a.accent
          /\ Lowered(a).case = "lower"
      BY <2>1, SymbolFacts
    <3>2. Lowered(b) \in Glyph /\ Lowered(b).sign = b.sign /\ Lowered(b).accent = b.accent
          /\ Lowered(b).case = "lower"
      BY <2>1, SymbolFacts
    <3>. QED BY <2>1, <3>1, <3>2, SameSymbol
  <2>3. [a EXCEPT !.case = "capital"] = [b EXCEPT !.case = "capital"]
    <3>. PICK c, d : c = [a EXCEPT !.case = "capital"] /\ d = [b EXCEPT !.case = "capital"]
      OBVIOUS
    <3>1. c \in Glyph /\ c.sign = a.sign /\ c.accent = a.accent /\ c.case = "capital"
      BY <2>1, CapitalType
    <3>2. d \in Glyph /\ d.sign = b.sign /\ d.accent = b.accent /\ d.case = "capital"
      BY <2>1, CapitalType
    <3>3. c.sign = d.sign /\ c.accent = d.accent /\ c.case = d.case
      BY <2>1, <3>1, <3>2
    <3>4. c = d
      BY <3>1, <3>2, <3>3, SameSymbol
    <3>. QED BY <3>4
  <2>. QED BY <2>2, <2>3
<1>. QED
  BY <1>1, <1>3, <1>4, <1>5, <1>6 DEF IsWord

LEMMA CasedFacts ==
  ASSUME NEW t \in Seq(Glyph), NEW i \in 1..Len(t)
  PROVE  /\ Cased(t, i) \in Glyph /\ Folded(Cased(t, i)) = Folded(t[i])
         /\ Cased(t, i).sign = t[i].sign /\ Cased(t, i).accent = t[i].accent
<1>. PICK a : a = t[i]
  OBVIOUS
<1>1. a \in Glyph
  BY LenProperties, ElementOfSeq
<1>2. Cased(t, i) \in {Lowered(a), [a EXCEPT !.case = "capital"]} \/ Cased(t, i) = a
  BY DEF Cased
<1>3. Cased(t, i) # a => a.case # "none"
  BY DEF Cased, IsWord
<1>4. /\ Lowered(a) \in Glyph /\ Lowered(a).sign = a.sign /\ Lowered(a).accent = a.accent
      /\ Folded(Lowered(a)) = Folded(a)
  BY <1>1, SymbolFacts, FoldedOfFolded
<1>5. ASSUME a.case # "none"
      PROVE  LET c == [a EXCEPT !.case = "capital"]
             IN  c \in Glyph /\ c.sign = a.sign /\ c.accent = a.accent /\ Folded(c) = Folded(a)
  <2>. PICK c : c = [a EXCEPT !.case = "capital"]
    OBVIOUS
  <2>1. c \in Glyph /\ c.sign = a.sign /\ c.accent = a.accent /\ c.case = "capital"
    BY <1>1, <1>5, CapitalType
  <2>2. Folded(c) = Folded(a)
    BY <1>1, <1>5, <2>1, SameSpelling
  <2>. QED BY <2>1, <2>2
<1>. QED
  BY <1>1, <1>2, <1>3, <1>4, <1>5

\* Capitalizing trims, and leaves a spelling with the same accents.
LEMMA CapitalizeType ==
  ASSUME NEW u \in Seq(Glyph)
  PROVE  /\ Like(Trim(u), Capitalize(u)) /\ SameAccents(Trim(u), Capitalize(u))
         /\ Capitalize(u) = [i \in 1..Len(Trim(u)) |-> Cased(Trim(u), i)]
<1>. PICK t : t = Trim(u)
  OBVIOUS
<1>1. t \in Seq(Glyph) /\ Len(t) \in Nat /\ DOMAIN t = 1..Len(t)
  BY TrimType, LenProperties
<1>2. Capitalize(u) = [i \in 1..Len(t) |-> Cased(t, i)]
  BY <1>1, CapitalizeByCases
<1>3. \A i \in 1..Len(t) : /\ Cased(t, i) \in Glyph /\ Folded(Cased(t, i)) = Folded(t[i])
                           /\ Cased(t, i).accent = t[i].accent
  BY <1>1, CasedFacts
<1>4. Capitalize(u) \in Seq(Glyph) /\ Len(Capitalize(u)) = Len(t)
  BY <1>1, <1>2, <1>3
<1>5. Like(t, Capitalize(u))
  BY <1>1, <1>2, <1>3, <1>4, LikeFrom
<1>. QED
  BY <1>2, <1>3, <1>5 DEF SameAccents

\* Spellings with the same accents are capitalized alike.
LEMMA SameCapitalized ==
  ASSUME NEW u, NEW v, Like(u, v), SameAccents(Trim(u), Trim(v))
  PROVE  Capitalize(u) = Capitalize(v)
<1>. PICK t, w : t = Trim(u) /\ w = Trim(v)
  OBVIOUS
<1>1. Like(t, w)
  BY LikeTrim
<1>2. Len(t) = Len(w) /\ \A i \in 1..Len(t) : Cased(t, i) = Cased(w, i)
  BY <1>1, LikeFacts, SameCased
<1>3. u \in Seq(Glyph) /\ v \in Seq(Glyph)
  BY LikeFacts
<1>. QED
  BY <1>2, <1>3, CapitalizeType

-------------------------------------------------------------------------------
(* Lists.                                                                  *)

\* The ends of the pieces of a text.
Ends(text, Q) == Q \cup {0, Len(text) + 1}

\* The pieces stand between the ends, one after the other.
LEMMA CutType ==
  ASSUME NEW text \in Seq(Glyph), NEW Q \in SUBSET DOMAIN text
  PROVE  LET p == InOrder(Ends(text, Q))
             n == Cardinality(Ends(text, Q))
         IN  /\ n \in Nat /\ Ascending(p, n, Ends(text, Q))
             /\ Cut(text, Q) = [i \in 1..n - 1 |-> SubSeq(text, p[i] + 1, p[i + 1] - 1)]
             /\ \A i \in 1..n - 1 :
                  /\ p[i] \in 0..Len(text) /\ p[i + 1] \in 1..Len(text) + 1 /\ p[i] < p[i + 1]
                  /\ Cut(text, Q)[i] \in Seq(Glyph)
<1>. PICK p, n, S : p = InOrder(S) /\ n = Cardinality(S) /\ S = Ends(text, Q)
  OBVIOUS
<1>1. Len(text) \in Nat /\ DOMAIN text = 1..Len(text) /\ \A i \in DOMAIN text : text[i] \in Glyph
  BY LenProperties, ElementOfSeq
<1>2. S \subseteq 0..Len(text) + 1 /\ S \subseteq Nat /\ IsFiniteSet(S)
  <2>1. S \subseteq 0..Len(text) + 1 /\ S \subseteq Nat
    BY <1>1 DEF Ends
  <2>2. IsFiniteSet(0..Len(text) + 1)
    <3>1. 0 \in Int /\ Len(text) + 1 \in Int
      BY <1>1
    <3>. QED BY <3>1, FS_Interval
  <2>. QED BY <2>1, <2>2, FS_Subset
<1>3. n \in Nat /\ Ascending(p, n, S) /\ Len(p) = n
  BY <1>2, InOrderAscends
<1>4. Cut(text, Q) = [i \in 1..n - 1 |-> SubSeq(text, p[i] + 1, p[i + 1] - 1)]
  BY <1>3 DEF Cut, Ends
<1>5. ASSUME NEW i \in 1..n - 1
      PROVE  /\ p[i] \in 0..Len(text) /\ p[i + 1] \in 1..Len(text) + 1 /\ p[i] < p[i + 1]
             /\ Cut(text, Q)[i] \in Seq(Glyph)
  <2>1. i \in 1..n /\ i + 1 \in 1..n /\ i < i + 1
    BY <1>3
  <2>2. p[i] \in S /\ p[i + 1] \in S /\ p[i] < p[i + 1]
    BY <1>3, <2>1 DEF Ascending
  <2>3. p[i] \in 0..Len(text) /\ p[i + 1] \in 1..Len(text) + 1
    BY <1>1, <1>2, <2>2
  <2>4. \A j \in p[i] + 1..p[i + 1] - 1 : text[j] \in Glyph
    BY <1>1, <2>3
  <2>5. p[i] + 1 \in Int /\ p[i + 1] - 1 \in Int
    BY <1>1, <2>3
  <2>6. SubSeq(text, p[i] + 1, p[i + 1] - 1) \in Seq(Glyph)
    BY <2>4, <2>5, SubSeqProperties
  <2>. QED BY <1>4, <2>2, <2>3, <2>6
<1>. QED
  BY <1>3, <1>4, <1>5

\* Where the separators of a text stand.
Separated(text, separators) == {i \in DOMAIN text : text[i] \in separators}

\* Spellings of a list have as many values, and they are alike.
LEMMA LikeSplit ==
  ASSUME NEW u, NEW v, Like(u, v), NEW separators \in SUBSET {Bar, Slash}
  PROVE  /\ DOMAIN SplitText(u, separators) = DOMAIN SplitText(v, separators)
         /\ \A i \in DOMAIN SplitText(u, separators) :
              /\ Like(SplitText(u, separators)[i], SplitText(v, separators)[i])
              /\ Alike(u, v) => Alike(SplitText(u, separators)[i], SplitText(v, separators)[i])
<1>1. /\ u \in Seq(Glyph) /\ v \in Seq(Glyph) /\ Len(u) = Len(v) /\ Len(u) \in Nat
      /\ DOMAIN u = 1..Len(u) /\ DOMAIN v = 1..Len(u)
  BY LikeFacts
<1>. PICK Q : Q = Separated(u, separators)
  OBVIOUS
<1>2. Q = Separated(v, separators)
  <2>1. \A i \in 1..Len(u) : \A s \in separators : u[i] = s <=> v[i] = s
    BY LikeSeparators
  <2>. QED BY <1>1, <2>1 DEF Separated
<1>3. SplitText(u, separators) = Cut(u, Q) /\ SplitText(v, separators) = Cut(v, Q)
  BY <1>2 DEF SplitText, Separated
<1>4. Q \in SUBSET DOMAIN u /\ Q \in SUBSET DOMAIN v /\ Ends(u, Q) = Ends(v, Q)
  BY <1>1, <1>2 DEF Separated, Ends
<1>. PICK p, n : p = InOrder(Ends(u, Q)) /\ n = Cardinality(Ends(u, Q))
  OBVIOUS
<1>5. /\ n \in Nat
      /\ Cut(u, Q) = [i \in 1..n - 1 |-> SubSeq(u, p[i] + 1, p[i + 1] - 1)]
      /\ \A i \in 1..n - 1 : p[i] \in 0..Len(u) /\ p[i + 1] \in 1..Len(u) + 1
  <2>1. n \in Nat
    BY <1>1, <1>4, CutType
  <2>3. Cut(u, Q) = [i \in 1..n - 1 |-> SubSeq(u, p[i] + 1, p[i + 1] - 1)]
    <3>1. u \in Seq(Glyph) /\ Q \in SUBSET DOMAIN u
      BY <1>1, <1>4
    <3>. QED BY <3>1, CutType
  <2>2. \A i \in 1..n - 1 : p[i] \in 0..Len(u) /\ p[i + 1] \in 1..Len(u) + 1
    BY <1>1, <1>4, CutType
  <2>. QED BY <2>1, <2>2, <2>3
<1>6. Cut(v, Q) = [i \in 1..n - 1 |-> SubSeq(v, p[i] + 1, p[i + 1] - 1)]
  BY <1>1, <1>4, CutType
<1>7. ASSUME NEW i \in 1..n - 1
      PROVE  /\ Like(Cut(u, Q)[i], Cut(v, Q)[i])
             /\ Alike(u, v) => Alike(Cut(u, Q)[i], Cut(v, Q)[i])
  <2>1. p[i] + 1 \in Nat /\ p[i] + 1 >= 1 /\ p[i + 1] - 1 \in Int /\ p[i + 1] - 1 <= Len(u)
    BY <1>1, <1>5
  <2>2. Like(SubSeq(u, p[i] + 1, p[i + 1] - 1), SubSeq(v, p[i] + 1, p[i + 1] - 1))
    BY <2>1, LikeSub
  <2>3. ASSUME Alike(u, v)
        PROVE  /\ ~HidesName(SubSeq(u, p[i] + 1, p[i + 1] - 1))
               /\ ~HidesName(SubSeq(v, p[i] + 1, p[i + 1] - 1))
    BY <1>1, <2>1, <2>3, SubSeqHidesNothing DEF Alike
  <2>. QED BY <1>5, <1>6, <2>2, <2>3 DEF Alike
<1>. QED
  BY <1>3, <1>5, <1>6, <1>7

-------------------------------------------------------------------------------
(* Spellings of one value become one.                                      *)

\* NormalizeScalar, step by step.
LEMMA ScalarSteps ==
  ASSUME NEW u, NEW steps
  PROVE  \E a, b, c :
           /\ a = IF "remove_suffixes" \in steps THEN RemoveSuffixes(u) ELSE u
           /\ b = IF "abbreviate" \in steps THEN Abbreviate(a) ELSE a
           /\ c = IF "remove_accents" \in steps THEN RemoveAccents(b) ELSE b
           /\ NormalizeScalar(u, steps) = IF "capitalize_pt_br" \in steps THEN Capitalize(c) ELSE c
  BY DEF NormalizeScalar

\* The steps that look for names want to see them.
Shared(u, v, steps) ==
  Like(u, v) /\ ({"abbreviate", "remove_suffixes"} \cap steps # {} => Alike(u, v))

\* The steps of a value make spellings equal.
LEMMA MergeScalar ==
  ASSUME NEW u, NEW v, NEW steps, Shared(u, v, steps),
         {"remove_accents", "capitalize_pt_br"} \subseteq steps
  PROVE  NormalizeScalar(u, steps) = NormalizeScalar(v, steps)
<1>1. PICK a, b, c :
        /\ a = IF "remove_suffixes" \in steps THEN RemoveSuffixes(u) ELSE u
        /\ b = IF "abbreviate" \in steps THEN Abbreviate(a) ELSE a
        /\ c = IF "remove_accents" \in steps THEN RemoveAccents(b) ELSE b
        /\ NormalizeScalar(u, steps) = IF "capitalize_pt_br" \in steps THEN Capitalize(c) ELSE c
  BY ScalarSteps, Zenon
<1>2. PICK d, e, f :
        /\ d = IF "remove_suffixes" \in steps THEN RemoveSuffixes(v) ELSE v
        /\ e = IF "abbreviate" \in steps THEN Abbreviate(d) ELSE d
        /\ f = IF "remove_accents" \in steps THEN RemoveAccents(e) ELSE e
        /\ NormalizeScalar(v, steps) = IF "capitalize_pt_br" \in steps THEN Capitalize(f) ELSE f
  BY ScalarSteps, Zenon
<1>3. Shared(a, d, steps)
  <2>1. CASE "remove_suffixes" \in steps
    <3>1. Alike(u, v)
      BY <2>1 DEF Shared
    <3>2. Alike(a, d)
      BY <1>1, <1>2, <2>1, <3>1, AlikeSuffixes
    <3>. QED BY <3>2 DEF Shared, Alike
  <2>2. CASE "remove_suffixes" \notin steps
    BY <1>1, <1>2, <2>2
  <2>. QED BY <2>1, <2>2
<1>4. Like(b, e)
  <2>1. CASE "abbreviate" \in steps
    <3>1. Alike(a, d)
      BY <1>3, <2>1 DEF Shared
    <3>2. Alike(b, e)
      BY <1>1, <1>2, <2>1, <3>1, AlikeAbbreviate
    <3>. QED BY <3>2 DEF Alike
  <2>2. CASE "abbreviate" \notin steps
    BY <1>1, <1>2, <1>3, <2>2 DEF Shared
  <2>. QED BY <2>1, <2>2
<1>5. c = RemoveAccents(b) /\ f = RemoveAccents(e) /\ b \in Seq(Glyph) /\ e \in Seq(Glyph)
  BY <1>1, <1>2, <1>4 DEF Like
<1>6. Like(b, c) /\ Like(e, f) /\ Len(c) = Len(b) /\ Len(f) = Len(e)
      /\ (\A i \in 1..Len(b) : c[i].accent = "none") /\ (\A i \in 1..Len(e) : f[i].accent = "none")
  <2>1. Like(b, c) /\ \A i \in 1..Len(b) : c[i].accent = "none"
    BY <1>5, AccentsGone
  <2>2. Like(e, f) /\ \A i \in 1..Len(e) : f[i].accent = "none"
    BY <1>5, AccentsGone
  <2>. QED BY <2>1, <2>2, LikeFacts
<1>7. Like(c, f)
  BY <1>4, <1>6 DEF Like
<1>8. SameAccents(Trim(c), Trim(f))
  <2>1. ASSUME NEW w \in Seq(Glyph), \A i \in 1..Len(w) : w[i].accent = "none"
        PROVE  \A k \in 1..Len(Trim(w)) : Trim(w)[k].accent = "none"
    <3>1. Trim(w) = At(w, Kept(w)) /\ Kept(w) \in SUBSET DOMAIN w /\ DOMAIN w = 1..Len(w)
          /\ DOMAIN Trim(w) = 1..Len(Trim(w))
      BY TrimType, LenProperties
    <3>2. \A k \in DOMAIN At(w, Kept(w)) : \E i \in DOMAIN w : At(w, Kept(w))[k] = w[i]
      BY <3>1, ElementsOfAt
    <3>. QED BY <2>1, <3>1, <3>2
  <2>2. Len(Trim(c)) = Len(Trim(f))
    BY <1>7, LikeTrim, LikeFacts
  <2>3. c \in Seq(Glyph) /\ f \in Seq(Glyph)
    BY <1>7 DEF Like
  <2>. QED BY <1>6, <2>1, <2>2, <2>3 DEF SameAccents
<1>. QED
  BY <1>1, <1>2, <1>7, <1>8, SameCapitalized

LEMMA MergeToken ==
  ASSUME NEW u, NEW v, NEW steps, Shared(u, v, steps),
         {"trim", "remove_accents", "capitalize_pt_br"} \subseteq steps
  PROVE  NormalizeToken(u, steps) = NormalizeToken(v, steps)
<1>1. /\ NormalizeToken(u, steps) = IF "nulls" \in steps /\ IsNullAlias(Trim(u)) THEN <<>>
                                    ELSE NormalizeScalar(Trim(u), steps)
      /\ NormalizeToken(v, steps) = IF "nulls" \in steps /\ IsNullAlias(Trim(v)) THEN <<>>
                                    ELSE NormalizeScalar(Trim(v), steps)
  BY DEF NormalizeToken
<1>2. Shared(Trim(u), Trim(v), steps)
  BY AlikeTrim, LikeTrim DEF Shared
<1>3. Fold(Trim(Trim(u))) = Fold(Trim(Trim(v)))
  BY <1>2, LikeTrim DEF Shared, Like
<1>4. NormalizeScalar(Trim(u), steps) = NormalizeScalar(Trim(v), steps)
  BY <1>2, MergeScalar
<1>. QED
  BY <1>1, <1>3, <1>4 DEF IsNullAlias

LEMMA MergeCell ==
  ASSUME NEW u, NEW v, NEW steps, Shared(u, v, steps),
         {"trim", "remove_accents", "capitalize_pt_br"} \subseteq steps
  PROVE  NormalizeCell(u, steps) = NormalizeCell(v, steps)
<1>. PICK t, w : t = Trim(u) /\ w = Trim(v)
  OBVIOUS
<1>1. \A x : NormalizeCell(x, steps) =
               IF "split" \notin steps THEN NormalizeToken(x, steps)
               ELSE IF "nulls" \in steps /\ IsNullAlias(Trim(x)) THEN <<>>
               ELSE NormalizeSplitValues(Trim(x), steps)
  BY DEF NormalizeCell
<1>2. Shared(t, w, steps)
  BY AlikeTrim, LikeTrim DEF Shared
<1>3. IsNullAlias(t) <=> IsNullAlias(w)
  BY <1>2, LikeTrim DEF Shared, Like, IsNullAlias
<1>4. NormalizeSplitValues(t, steps) = NormalizeSplitValues(w, steps)
  <2>. DEFINE S == DEFAULT_SPLIT_SEPARATORS
              tokens(x) == [i \in DOMAIN SplitText(x, S) |-> NormalizeToken(SplitText(x, S)[i], steps)]
              joined(x) == Joined(At(x, {i \in DOMAIN x : x[i] # <<>>}), Bar)
  <2>1. S \in SUBSET {Bar, Slash}
    BY DEF DEFAULT_SPLIT_SEPARATORS
  <2>. HIDE DEF S
  <2>2. DOMAIN SplitText(t, S) = DOMAIN SplitText(w, S)
        /\ \A i \in DOMAIN SplitText(t, S) : Shared(SplitText(t, S)[i], SplitText(w, S)[i], steps)
    BY <1>2, <2>1, LikeSplit DEF Shared
  <2>3. tokens(t) = tokens(w)
    BY <2>2, MergeToken
  <2>4. NormalizeSplitValues(t, steps) = joined(tokens(t))
        /\ NormalizeSplitValues(w, steps) = joined(tokens(w))
    BY DEF NormalizeSplitValues, S
  <2>. QED BY <2>3, <2>4
<1>5. NormalizeToken(u, steps) = NormalizeToken(v, steps)
  BY MergeToken
<1>. QED
  BY <1>1, <1>3, <1>4, <1>5

LEMMA TrimmedCell ==
  ASSUME NEW u \in Seq(Glyph), NEW steps, "trim" \in steps
  PROVE  NormalizeCell(Trim(u), steps) = NormalizeCell(u, steps)
<1>1. Trim(Trim(u)) = Trim(u)
  BY TrimAgain
<1>. QED
  BY <1>1 DEF NormalizeCell, NormalizeToken

\* A cell comes out as its trimmed and folded text does.
LEMMA MergedText ==
  ASSUME NEW u \in Seq(Glyph), NEW steps,
         {"trim", "remove_accents", "capitalize_pt_br"} \subseteq steps,
         HidesName(u) => {"abbreviate", "remove_suffixes"} \cap steps = {}
  PROVE  NormalizeCell(u, steps) = NormalizeCell(Fold(Trim(u)), steps)
<1>. PICK t : t = Trim(u)
  OBVIOUS
<1>1. t \in Seq(Glyph) /\ Like(t, Fold(t))
  BY TrimType, FoldType
<1>2. ~HidesName(Fold(t))
  <2>1. /\ DOMAIN Fold(t) = DOMAIN t
        /\ \A i \in DOMAIN t : t[i] \in Glyph /\ Fold(t)[i] = Folded(t[i])
    <3>1. t \in Seq(Glyph)
      BY <1>1
    <3>. QED BY <3>1, FoldType
  <2>2. ASSUME NEW i \in DOMAIN t
        PROVE  Fold(t)[i].accent = "none"
    <3>1. Folded(t[i]).accent = "none"
      BY <2>1, FoldedFacts
    <3>. QED BY <2>1, <3>1
  <2>3. \A i \in DOMAIN t : Seen(Fold(t)[i]).accent = "none"
    <3>1. \A i \in DOMAIN t : Fold(t)[i] \in Glyph
      BY <2>1, FoldedFacts
    <3>. QED BY <2>2, <3>1, SeenFacts
  <2>. QED BY <2>1, <2>3 DEF HidesName
<1>3. ~HidesName(u) => Alike(t, Fold(t))
  BY <1>1, <1>2, TrimHidesNothing DEF Alike
<1>4. Shared(t, Fold(t), steps)
  BY <1>1, <1>3 DEF Shared
<1>. QED
  BY <1>4, MergeCell, TrimmedCell

-------------------------------------------------------------------------------
(* Joining and cutting.                                                    *)

\* Induction over the numbers, as a fact about sets.
LEMMA Induction ==
  ASSUME NEW S \in SUBSET Nat, 0 \in S, \A n \in S : n + 1 \in S
  PROVE  S = Nat
<1>. SUFFICES ASSUME NEW x \in Nat, x \notin S PROVE FALSE
  OBVIOUS
<1>. DEFINE R == {y \in 0..x : y \notin S}
<1>1. R \subseteq 0..x /\ R \subseteq Nat /\ x \in R /\ IsFiniteSet(0..x)
  <2>1. 0 \in Int /\ x \in Int
    OBVIOUS
  <2>. QED BY <2>1, FS_Interval
<1>2. IsFiniteSet(R) /\ R # {}
  BY <1>1, FS_Subset
<1>. PICK m : m = Min(R)
  OBVIOUS
<1>3. m \in R /\ \A y \in R : m <= y
  BY <1>1, <1>2, LeastOf
<1>4. m \in Nat /\ m # 0 /\ m \notin S /\ m <= x
  BY <1>1, <1>3
<1>5. m - 1 \in 0..x /\ m - 1 \notin R
  BY <1>3, <1>4
<1>6. m - 1 \in S
  BY <1>5
<1>7. m - 1 + 1 \in S /\ m - 1 + 1 = m
  BY <1>4, <1>6
<1>. QED
  BY <1>4, <1>7

\* The pieces joined so far.
Joins(join, pieces, mark, n) ==
  /\ join \in [1..n -> Seq(Glyph)]
  /\ n >= 1 => join[1] = pieces[1]
  /\ \A k \in 2..n : join[k] = join[k - 1] \o <<mark>> \o pieces[k]

LEMMA ConcatType ==
  ASSUME NEW u \in Seq(Glyph), NEW s \in Glyph, NEW v \in Seq(Glyph)
  PROVE  LET w == u \o <<s>> \o v IN
         /\ w \in Seq(Glyph) /\ Len(w) = Len(u) + Len(v) + 1
         /\ Len(u) \in Nat /\ Len(v) \in Nat /\ DOMAIN w = 1..Len(w)
         /\ \A i \in 1..Len(u) : w[i] = u[i]
         /\ w[Len(u) + 1] = s
         /\ \A i \in 1..Len(v) : w[Len(u) + 1 + i] = v[i]
<1>. PICK a : a = u \o <<s>>
  OBVIOUS
<1>. PICK w : w = a \o v
  OBVIOUS
<1>1. <<s>> \in Seq(Glyph) /\ Len(<<s>>) = 1 /\ <<s>>[1] = s
  OBVIOUS
<1>2. Len(u) \in Nat /\ Len(v) \in Nat
  BY LenProperties
<1>3. /\ a \in Seq(Glyph) /\ Len(a) = Len(u) + 1
      /\ \A i \in 1..Len(u) : a[i] = u[i]
      /\ a[Len(u) + 1] = s
  BY <1>1, <1>2, ConcatProperties
<1>4. /\ w \in Seq(Glyph) /\ Len(w) = Len(u) + 1 + Len(v)
      /\ \A i \in 1..Len(u) + 1 : w[i] = a[i]
      /\ \A i \in 1..Len(v) : w[Len(u) + 1 + i] = v[i]
  <2>1. /\ w \in Seq(Glyph) /\ Len(w) = Len(a) + Len(v)
        /\ \A i \in 1..Len(a) + Len(v) :
             w[i] = IF i <= Len(a) THEN a[i] ELSE v[i - Len(a)]
    BY <1>3, ConcatProperties
  <2>2. \A i \in 1..Len(v) : /\ Len(u) + 1 + i \in 1..Len(a) + Len(v)
                             /\ ~(Len(u) + 1 + i <= Len(a)) /\ Len(u) + 1 + i - Len(a) = i
    BY <1>2, <1>3
  <2>. QED BY <1>2, <1>3, <2>1, <2>2
<1>5. DOMAIN w = 1..Len(w)
  BY <1>4, LenProperties
<1>6. /\ \A i \in 1..Len(u) : w[i] = u[i]
      /\ w[Len(u) + 1] = s
  BY <1>2, <1>3, <1>4
<1>. QED
  BY <1>2, <1>4, <1>5, <1>6

\* What Joined builds up piece by piece exists.
LEMMA JoinsExist ==
  ASSUME NEW pieces \in Seq(Seq(Glyph)), NEW mark \in Glyph
  PROVE  \A n \in Nat : n <= Len(pieces) => \E join : Joins(join, pieces, mark, n)
<1>. DEFINE S == {n \in Nat : n <= Len(pieces) => \E join : Joins(join, pieces, mark, n)}
<1>1. Len(pieces) \in Nat /\ \A k \in 1..Len(pieces) : pieces[k] \in Seq(Glyph)
  BY LenProperties, ElementOfSeq
<1>2. 0 \in S
  <2>1. [k \in 1..0 |-> <<>>] \in [1..0 -> Seq(Glyph)]
    BY 1..0 = {}
  <2>2. Joins([k \in 1..0 |-> <<>>], pieces, mark, 0)
    BY <2>1 DEF Joins
  <2>. QED BY <2>2
<1>3. ASSUME NEW n \in S
      PROVE  n + 1 \in S
  <2>1. n \in Nat
    OBVIOUS
  <2>2. SUFFICES ASSUME n + 1 <= Len(pieces)
                 PROVE  \E join : Joins(join, pieces, mark, n + 1)
    BY <2>1
  <2>3. PICK join : Joins(join, pieces, mark, n)
    BY <1>1, <2>1, <2>2
  <2>. DEFINE next == IF n = 0 THEN pieces[1] ELSE join[n] \o <<mark>> \o pieces[n + 1]
              more == [k \in 1..n + 1 |-> IF k = n + 1 THEN next ELSE join[k]]
  <2>4. next \in Seq(Glyph)
    <3>1. n + 1 \in 1..Len(pieces) /\ (n # 0 => n \in 1..n)
      BY <1>1, <2>1, <2>2
    <3>2. pieces[n + 1] \in Seq(Glyph) /\ (n # 0 => join[n] \in Seq(Glyph))
      BY <1>1, <2>3, <3>1 DEF Joins
    <3>. QED BY <3>2, ConcatType
  <2>. HIDE DEF next
  <2>5. more \in [1..n + 1 -> Seq(Glyph)]
    <3>1. \A k \in 1..n + 1 : k # n + 1 => k \in 1..n
      BY <2>1
    <3>. QED BY <2>3, <2>4, <3>1 DEF Joins
  <2>6. more[1] = pieces[1]
    <3>1. CASE n = 0
      BY <3>1 DEF next
    <3>2. CASE n # 0
      <4>1. 1 \in 1..n + 1 /\ 1 # n + 1 /\ n >= 1
        BY <2>1, <3>2
      <4>. QED BY <2>3, <4>1 DEF Joins
    <3>. QED BY <3>1, <3>2
  <2>7. ASSUME NEW k \in 2..n + 1
        PROVE  more[k] = more[k - 1] \o <<mark>> \o pieces[k]
    <3>1. k - 1 \in 1..n /\ k - 1 \in 1..n + 1 /\ k - 1 # n + 1 /\ k \in 1..n + 1
      BY <2>1
    <3>2. more[k - 1] = join[k - 1]
      BY <3>1
    <3>3. CASE k = n + 1
      <4>1. n # 0 /\ n = k - 1
        BY <2>1, <3>3
      <4>2. more[k] = next /\ next = join[n] \o <<mark>> \o pieces[n + 1]
        BY <3>1, <3>3, <4>1 DEF next
      <4>. QED BY <3>2, <3>3, <4>1, <4>2
    <3>4. CASE k # n + 1
      <4>1. k \in 2..n /\ more[k] = join[k]
        BY <2>1, <3>1, <3>4
      <4>. QED BY <2>3, <3>2, <4>1 DEF Joins
    <3>. QED BY <3>3, <3>4
  <2>8. Joins(more, pieces, mark, n + 1)
    BY <2>5, <2>6, <2>7 DEF Joins
  <2>. QED BY <2>8
<1>4. S = Nat
  BY <1>2, <1>3, Induction
<1>. QED
  BY <1>4

\* Joined is the last of them.
LEMMA JoinedType ==
  ASSUME NEW pieces \in Seq(Seq(Glyph)), pieces # <<>>, NEW mark \in Glyph
  PROVE  \E join : /\ Joins(join, pieces, mark, Len(pieces))
                   /\ Joined(pieces, mark) = join[Len(pieces)]
<1>. PICK n : n = Len(pieces)
  OBVIOUS
<1>1. n \in Nat /\ n >= 1 /\ DOMAIN pieces = 1..n
  BY LenProperties, EmptySeq
<1>. DEFINE step(g) == [k \in DOMAIN pieces |->
                          IF k = 1 THEN pieces[1] ELSE g[k - 1] \o <<mark>> \o pieces[k]]
            join == CHOOSE g : g = step(g)
<1>2. \E g : g = step(g)
  <2>1. PICK g : Joins(g, pieces, mark, n)
    BY <1>1, JoinsExist
  <2>2. g = [k \in 1..n |-> g[k]]
    BY <2>1 DEF Joins
  <2>3. \A k \in 1..n : g[k] = IF k = 1 THEN pieces[1] ELSE g[k - 1] \o <<mark>> \o pieces[k]
    <3>1. \A k \in 1..n : k # 1 => k \in 2..n
      BY <1>1
    <3>. QED BY <1>1, <2>1, <3>1 DEF Joins
  <2>4. g = step(g)
    BY <1>1, <2>2, <2>3
  <2>. QED BY <2>4
<1>3. join = step(join)
  BY <1>2
<1>4. Joined(pieces, mark) = join[n]
  BY DEF Joined
<1>. HIDE DEF join
<1>5. \A k \in 1..n : join[k] = IF k = 1 THEN pieces[1] ELSE join[k - 1] \o <<mark>> \o pieces[k]
  BY <1>1, <1>3
<1>6. ASSUME NEW k \in Nat
      PROVE  k \in 1..n => join[k] \in Seq(Glyph)
  <2>. DEFINE S == {l \in Nat : l \in 1..n => join[l] \in Seq(Glyph)}
  <2>1. 0 \in S
    OBVIOUS
  <2>2. ASSUME NEW l \in S
        PROVE  l + 1 \in S
    <3>1. l \in Nat
      OBVIOUS
    <3>2. SUFFICES ASSUME l + 1 \in 1..n PROVE join[l + 1] \in Seq(Glyph)
      BY <3>1
    <3>3. \A i \in 1..n : pieces[i] \in Seq(Glyph)
      BY <1>1, ElementOfSeq
    <3>4. CASE l = 0
      <4>1. l + 1 = 1 /\ 1 \in 1..n
        BY <3>2, <3>4
      <4>2. join[1] = pieces[1] /\ pieces[1] \in Seq(Glyph)
        BY <1>5, <3>3, <4>1
      <4>. QED BY <4>1, <4>2
    <3>5. CASE l # 0
      <4>1. l \in 1..n /\ l + 1 # 1 /\ l + 1 - 1 = l
        BY <1>1, <3>1, <3>2, <3>5
      <4>2. join[l] \in Seq(Glyph)
        BY <4>1
      <4>. PICK i : i = l + 1
        OBVIOUS
      <4>3. i \in 1..n /\ i # 1 /\ i - 1 = l
        BY <3>2, <4>1
      <4>4. join[i] = join[i - 1] \o <<mark>> \o pieces[i]
        BY <1>5, <4>3
      <4>. QED BY <3>3, <4>2, <4>3, <4>4, ConcatType
    <3>. QED BY <3>4, <3>5
  <2>3. S = Nat
    BY <2>1, <2>2, Induction
  <2>. QED BY <2>3
<1>7. join = [k \in 1..n |-> join[k]]
  BY <1>1, <1>3
<1>8. join \in [1..n -> Seq(Glyph)]
  BY <1>1, <1>6, <1>7
<1>9. Joins(join, pieces, mark, n)
  <2>1. \A k \in 2..n : k \in 1..n /\ k # 1
    BY <1>1
  <2>2. 1 \in 1..n
    BY <1>1
  <2>. QED BY <1>5, <1>8, <2>1, <2>2 DEF Joins
<1>. QED
  BY <1>4, <1>9

LEMMA PieceType ==
  ASSUME NEW u \in Seq(Glyph), NEW c \in Int, NEW d \in Int, c >= 1, d <= Len(u),
         NEW n, n = IF c <= d THEN d - c + 1 ELSE 0
  PROVE  /\ SubSeq(u, c, d) \in Seq(Glyph) /\ Len(SubSeq(u, c, d)) = n /\ n \in Nat
         /\ DOMAIN SubSeq(u, c, d) = 1..n
         /\ \A j \in 1..n : c + j - 1 \in c..d /\ c + j - 1 \in DOMAIN u
                          /\ SubSeq(u, c, d)[j] = u[c + j - 1]
<1>1. Len(u) \in Nat /\ DOMAIN u = 1..Len(u) /\ n \in Nat
  BY LenProperties
<1>2. \A i \in c..d : u[i] \in Glyph
  BY <1>1, ElementOfSeq
<1>3. /\ SubSeq(u, c, d) \in Seq(Glyph) /\ Len(SubSeq(u, c, d)) = n
      /\ \A j \in 1..d - c + 1 : SubSeq(u, c, d)[j] = u[c + j - 1]
  BY <1>2, SubSeqProperties
<1>4. \A j \in 1..n : j \in 1..d - c + 1 /\ c + j - 1 \in c..d /\ c + j - 1 \in DOMAIN u
  BY <1>1
<1>5. DOMAIN SubSeq(u, c, d) = 1..n
  BY <1>3, LenProperties
<1>. QED
  BY <1>1, <1>3, <1>4, <1>5

LEMMA SamePiece ==
  ASSUME NEW u \in Seq(Glyph), NEW w \in Seq(Glyph), NEW c \in Int, NEW d \in Int,
         c >= 1, d <= Len(u), d <= Len(w), \A i \in c..d : w[i] = u[i]
  PROVE  SubSeq(w, c, d) = SubSeq(u, c, d)
<1>. PICK n, x, y : /\ n = (IF c <= d THEN d - c + 1 ELSE 0)
                    /\ x = SubSeq(u, c, d) /\ y = SubSeq(w, c, d)
  OBVIOUS
<1>1. /\ x \in Seq(Glyph) /\ Len(x) = n
      /\ \A j \in 1..n : c + j - 1 \in c..d /\ x[j] = u[c + j - 1]
  BY PieceType
<1>2. /\ y \in Seq(Glyph) /\ Len(y) = n
      /\ \A j \in 1..n : c + j - 1 \in c..d /\ y[j] = w[c + j - 1]
  BY PieceType
<1>3. \A j \in 1..n : y[j] = x[j]
  BY <1>1, <1>2
<1>. QED
  BY <1>1, <1>2, <1>3, SeqEqual

\* A piece that is a text of its own.
LEMMA PieceIs ==
  ASSUME NEW w \in Seq(Glyph), NEW v \in Seq(Glyph), NEW c \in Nat,
         c + Len(v) <= Len(w), \A i \in 1..Len(v) : w[c + i] = v[i]
  PROVE  SubSeq(w, c + 1, c + Len(v)) = v
<1>. PICK b, x : b = Len(v) /\ x = SubSeq(w, c + 1, c + b)
  OBVIOUS
<1>1. b \in Nat /\ c + 1 \in Int /\ c + b \in Int /\ c + 1 >= 1
      /\ b = IF c + 1 <= c + b THEN c + b - (c + 1) + 1 ELSE 0
  BY LenProperties
<1>2. /\ x \in Seq(Glyph) /\ Len(x) = b
      /\ \A j \in 1..b : x[j] = w[c + 1 + j - 1]
  BY <1>1, PieceType
<1>3. ASSUME NEW j \in 1..b
      PROVE  x[j] = v[j]
  <2>1. c + 1 + j - 1 = c + j
    BY <1>1
  <2>. QED BY <1>2, <2>1
<1>. QED
  BY <1>2, <1>3, SeqEqual

\* A text without separators.
Whole(u, separators) == \A i \in DOMAIN u : u[i] \notin separators

\* Without separators a text is its only piece.
LEMMA SplitWhole ==
  ASSUME NEW u \in Seq(Glyph), NEW separators, Whole(u, separators)
  PROVE  SplitText(u, separators) = <<u>>
<1>. PICK m : m = Len(u)
  OBVIOUS
<1>. DEFINE p == [k \in 1..2 |-> IF k = 1 THEN 0 ELSE m + 1]
<1>1. m \in Nat /\ DOMAIN u = 1..m
  BY LenProperties
<1>2. Separated(u, separators) = {} /\ SplitText(u, separators) = Cut(u, {})
  BY DEF Whole, Separated, SplitText
<1>3. Ends(u, {}) = {0, m + 1} /\ Ends(u, {}) \subseteq Nat
  BY <1>1 DEF Ends
<1>4. Ascending(p, 2, {0, m + 1})
  <2>1. p \in [1..2 -> {0, m + 1}]
    OBVIOUS
  <2>2. \A k, l \in 1..2 : k < l => k = 1 /\ l = 2
    OBVIOUS
  <2>3. p[1] = 0 /\ p[2] = m + 1 /\ 1 \in 1..2 /\ 2 \in 1..2
    OBVIOUS
  <2>. HIDE DEF p
  <2>4. \A k, l \in 1..2 : k < l => p[k] < p[l]
    BY <1>1, <2>2, <2>3
  <2>5. \A i \in {0, m + 1} : \E k \in 1..2 : p[k] = i
    BY <2>3
  <2>. QED BY <2>1, <2>4, <2>5 DEF Ascending
<1>5. InOrder(Ends(u, {})) = p /\ Cardinality(Ends(u, {})) = 2
  BY <1>3, <1>4, OneOrder
<1>6. Cut(u, {}) = [i \in 1..2 - 1 |-> SubSeq(u, p[i] + 1, p[i + 1] - 1)]
  <2>1. {} \in SUBSET DOMAIN u
    OBVIOUS
  <2>. HIDE DEF p
  <2>. QED BY <1>5, <2>1, CutType
<1>7. p[1] + 1 = 1 /\ p[1 + 1] - 1 = m
  BY <1>1
<1>8. SubSeq(u, 1, m) = u
  <2>1. 0 \in Nat /\ 0 + m <= m /\ \A i \in 1..m : u[0 + i] = u[i]
    BY <1>1
  <2>2. SubSeq(u, 0 + 1, 0 + m) = u
    BY <2>1, PieceIs
  <2>3. 0 + 1 = 1 /\ 0 + m = m
    BY <1>1
  <2>. QED BY <2>2, <2>3
<1>9. Cut(u, {}) = [i \in 1..1 |-> u]
  <2>1. \A i \in 1..1 : i = 1
    OBVIOUS
  <2>. HIDE DEF p
  <2>2. 2 - 1 = 1
    OBVIOUS
  <2>3. SubSeq(u, p[1] + 1, p[1 + 1] - 1) = u
    BY <1>7, <1>8
  <2>4. \A i \in 1..1 : SubSeq(u, p[i] + 1, p[i + 1] - 1) = u
    BY <2>1, <2>3
  <2>. QED BY <1>6, <2>2, <2>4
<1>. QED
  BY <1>2, <1>9

\* A cut by its ends.
Pieces(c, text, p, n) ==
  /\ DOMAIN c = 1..n - 1
  /\ \A i \in 1..n - 1 : c[i] = SubSeq(text, p[i] + 1, p[i + 1] - 1)

LEMMA CutPieces ==
  ASSUME NEW text \in Seq(Glyph), NEW Q \in SUBSET DOMAIN text
  PROVE  Pieces(Cut(text, Q), text, InOrder(Ends(text, Q)), Cardinality(Ends(text, Q)))
<1>. PICK p, n : p = InOrder(Ends(text, Q)) /\ n = Cardinality(Ends(text, Q))
  OBVIOUS
<1>1. Cut(text, Q) = [i \in 1..n - 1 |-> SubSeq(text, p[i] + 1, p[i + 1] - 1)]
  BY CutType
<1>. QED
  BY <1>1 DEF Pieces

Appended(w, u, v, separators) ==
  /\ Len(w) = Len(u) + Len(v) + 1
  /\ \A i \in 1..Len(u) : w[i] = u[i]
  /\ w[Len(u) + 1] \in separators
  /\ \A i \in 1..Len(v) : w[Len(u) + 1 + i] = v[i]

\* A list with one more.
Followed(c, d, v) ==
  /\ Len(d) \in Nat /\ DOMAIN d = 1..Len(d) /\ DOMAIN c = 1..Len(d) + 1
  /\ \A i \in 1..Len(d) : c[i] = d[i]
  /\ c[Len(d) + 1] = v

\* One more separator and text without any, one more piece.
LEMMA SplitExtended ==
  ASSUME NEW u \in Seq(Glyph), NEW v \in Seq(Glyph), NEW w \in Seq(Glyph), NEW separators,
         Appended(w, u, v, separators), Whole(v, separators)
  PROVE  Followed(SplitText(w, separators), SplitText(u, separators), v)
<1>. PICK a, b : a = Len(u) /\ b = Len(v)
  OBVIOUS
<1>1. /\ a \in Nat /\ b \in Nat /\ Len(w) = a + b + 1
      /\ DOMAIN w = 1..a + b + 1 /\ DOMAIN u = 1..a /\ DOMAIN v = 1..b
  BY LenProperties DEF Appended
<1>a. /\ \A i \in 1..a : w[i] = u[i]
      /\ w[a + 1] \in separators
      /\ \A i \in 1..b : w[a + 1 + i] = v[i]
  BY DEF Appended
<1>. PICK Q, R : Q = Separated(u, separators) /\ R = Separated(w, separators)
  OBVIOUS
<1>2. Q \in SUBSET DOMAIN u /\ R \in SUBSET DOMAIN w
      /\ SplitText(u, separators) = Cut(u, Q) /\ SplitText(w, separators) = Cut(w, R)
  BY DEF Separated, SplitText
<1>3. R = Q \cup {a + 1}
  <2>1. \A i \in 1..a : i \in R <=> i \in Q
    BY <1>1, <1>a DEF Separated
  <2>2. a + 1 \in R
    BY <1>1, <1>a DEF Separated
  <2>3. ASSUME NEW i \in R, i > a + 1
        PROVE  FALSE
    <3>1. i - (a + 1) \in 1..b /\ a + 1 + (i - (a + 1)) = i
      BY <1>1, <2>3 DEF Separated
    <3>2. w[i] = v[i - (a + 1)]
      BY <1>a, <3>1
    <3>3. w[i] \in separators
      BY DEF Separated
    <3>. QED BY <1>1, <3>1, <3>2, <3>3 DEF Whole
  <2>4. R \subseteq 1..a + b + 1 /\ Q \subseteq 1..a
    BY <1>1, <1>2
  <2>5. ASSUME NEW i \in R
        PROVE  i \in 1..a \/ i = a + 1
    <3>1. i \in 1..a + b + 1 /\ ~(i > a + 1)
      BY <2>3, <2>4
    <3>. QED BY <1>a, <3>1
  <2>. QED BY <2>1, <2>2, <2>4, <2>5
<1>4. Ends(w, R) = Ends(u, Q) \cup {a + b + 2}
  BY <1>1, <1>3 DEF Ends
<1>. PICK S, p, n : S = Ends(u, Q) /\ p = InOrder(S) /\ n = Cardinality(S)
  OBVIOUS
<1>5. /\ n \in Nat /\ Ascending(p, n, S)
      /\ \A i \in 1..n - 1 : p[i] \in 0..a /\ p[i + 1] \in 1..a + 1
  BY <1>2, CutType
<1>6. Pieces(Cut(u, Q), u, p, n)
  BY <1>2, CutPieces
<1>7. S \subseteq 0..a + 1 /\ 0 \in S /\ a + 1 \in S
  BY <1>1, <1>2 DEF Ends
<1>8. n >= 1 /\ p[n] = a + 1
  <2>1. PICK k \in 1..n : p[k] = a + 1
    BY <1>5, <1>7 DEF Ascending
  <2>2. n >= 1 /\ n \in 1..n
    BY <1>5, <2>1
  <2>3. p[n] \in 0..a + 1
    BY <1>5, <1>7, <2>2 DEF Ascending
  <2>4. k < n => p[k] < p[n]
    BY <1>5, <2>2 DEF Ascending
  <2>5. ~(k < n)
    BY <1>1, <2>1, <2>3, <2>4
  <2>. QED BY <1>5, <2>1, <2>2, <2>5
<1>. DEFINE q == [k \in 1..n + 1 |-> IF k = n + 1 THEN a + b + 2 ELSE p[k]]
<1>9. Ascending(q, n + 1, S \cup {a + b + 2})
  <2>1. ASSUME NEW k \in 1..n
        PROVE  k \in 1..n + 1 /\ k # n + 1 /\ p[k] \in S /\ p[k] <= a + 1 /\ p[k] \in Nat
    <3>1. p[k] \in S
      BY <1>5 DEF Ascending
    <3>2. p[k] \in 0..a + 1
      BY <1>7, <3>1
    <3>. QED BY <1>1, <1>5, <3>1, <3>2
  <2>2. \A k \in 1..n + 1 : k # n + 1 => k \in 1..n
    BY <1>5
  <2>3. /\ n + 1 \in 1..n + 1 /\ q[n + 1] = a + b + 2
        /\ \A k \in 1..n : q[k] = p[k]
    BY <1>5, <2>1
  <2>4. q \in [1..n + 1 -> S \cup {a + b + 2}]
    BY <2>1, <2>2
  <2>. HIDE DEF q
  <2>5. ASSUME NEW k \in 1..n + 1, NEW l \in 1..n + 1, k < l
        PROVE  q[k] < q[l]
    <3>1. k \in 1..n
      BY <1>5, <2>5
    <3>2. CASE l = n + 1
      BY <1>1, <2>1, <2>3, <3>1, <3>2
    <3>3. CASE l # n + 1
      BY <1>5, <2>2, <2>3, <2>5, <3>1, <3>3 DEF Ascending
    <3>. QED BY <3>2, <3>3
  <2>6. ASSUME NEW i \in S \cup {a + b + 2}
        PROVE  \E k \in 1..n + 1 : q[k] = i
    <3>1. CASE i \in S
      <4>1. PICK k \in 1..n : p[k] = i
        BY <1>5, <3>1 DEF Ascending
      <4>. QED BY <2>1, <2>3, <4>1
    <3>. QED BY <2>3, <3>1
  <2>. QED BY <2>4, <2>5, <2>6 DEF Ascending
<1>. HIDE DEF q
<1>10. n + 1 \in Nat /\ Ends(w, R) \subseteq Nat /\ Ascending(q, n + 1, Ends(w, R))
  <2>1. n + 1 \in Nat /\ S \cup {a + b + 2} \subseteq Nat
    BY <1>1, <1>5, <1>7
  <2>. QED BY <1>4, <1>9, <2>1
<1>11. Pieces(Cut(w, R), w, q, n + 1)
  <2>. PICK P, m : P = InOrder(Ends(w, R)) /\ m = Cardinality(Ends(w, R))
    OBVIOUS
  <2>1. Pieces(Cut(w, R), w, P, m)
    BY <1>2, CutPieces
  <2>2. P = q /\ m = n + 1
    <3>. PICK N, E, g : N = n + 1 /\ E = Ends(w, R) /\ g = q
      OBVIOUS
    <3>1. N \in Nat /\ E \subseteq Nat /\ Ascending(g, N, E)
      BY <1>10
    <3>2. InOrder(E) = g /\ Cardinality(E) = N
      BY <3>1, OneOrder
    <3>. QED BY <3>2
  <2>. QED BY <2>1, <2>2
<1>b. ASSUME NEW c \in Int, NEW d \in Int, c >= 1, d <= a
      PROVE  SubSeq(w, c, d) = SubSeq(u, c, d)
  <2>1. \A j \in c..d : j \in 1..a
    BY <1>1, <1>b
  <2>2. \A j \in c..d : w[j] = u[j]
    BY <1>a, <2>1
  <2>3. d <= Len(u) /\ d <= Len(w)
    BY <1>1, <1>b
  <2>. QED BY <1>b, <2>2, <2>3, SamePiece
<1>c. \A i \in 1..n : Cut(w, R)[i] = SubSeq(w, q[i] + 1, q[i + 1] - 1)
  <2>. PICK m : m = n + 1
    OBVIOUS
  <2>1. Pieces(Cut(w, R), w, q, m)
    BY <1>11
  <2>2. m - 1 = n
    BY <1>5
  <2>3. \A i \in 1..m - 1 : Cut(w, R)[i] = SubSeq(w, q[i] + 1, q[i + 1] - 1)
    BY <2>1 DEF Pieces
  <2>. QED BY <2>2, <2>3
<1>12. ASSUME NEW i \in 1..n - 1
       PROVE  Cut(w, R)[i] = Cut(u, Q)[i]
  <2>1. i \in 1..n /\ i + 1 \in 1..n + 1 /\ i # n + 1 /\ i + 1 # n + 1 /\ i \in 1..n + 1
    BY <1>5
  <2>2. q[i] = p[i] /\ q[i + 1] = p[i + 1]
    BY <2>1 DEF q
  <2>3. p[i] \in 0..a /\ p[i + 1] \in 1..a + 1
    BY <1>5
  <2>4. /\ p[i] + 1 \in Int /\ p[i + 1] - 1 \in Int
        /\ p[i] + 1 >= 1 /\ p[i + 1] - 1 <= a
    BY <1>1, <2>3
  <2>5. SubSeq(w, p[i] + 1, p[i + 1] - 1) = SubSeq(u, p[i] + 1, p[i + 1] - 1)
    BY <1>b, <2>4
  <2>6. Cut(u, Q)[i] = SubSeq(u, p[i] + 1, p[i + 1] - 1)
    BY <1>6 DEF Pieces
  <2>7. Cut(w, R)[i] = SubSeq(w, q[i] + 1, q[i + 1] - 1)
    BY <1>c, <2>1
  <2>. QED BY <2>2, <2>5, <2>6, <2>7
<1>13. Cut(w, R)[n] = v
  <2>1. n \in 1..n /\ n \in 1..n + 1 /\ n + 1 \in 1..n + 1 /\ n # n + 1
    BY <1>5, <1>8
  <2>2. q[n] = a + 1 /\ q[n + 1] = a + b + 2
    BY <1>8, <2>1 DEF q
  <2>3. a + 1 \in Nat /\ q[n + 1] - 1 = a + 1 + b /\ a + 1 + b <= Len(w)
    BY <1>1, <2>2
  <2>4. Cut(w, R)[n] = SubSeq(w, q[n] + 1, q[n + 1] - 1)
    BY <1>11, <2>1 DEF Pieces
  <2>5. SubSeq(w, a + 1 + 1, a + 1 + b) = v
    <3>. PICK c : c = a + 1
      OBVIOUS
    <3>1. c \in Nat /\ c + Len(v) <= Len(w) /\ \A i \in 1..Len(v) : w[c + i] = v[i]
      BY <1>1, <1>a, <2>3
    <3>2. SubSeq(w, c + 1, c + Len(v)) = v
      BY <1>1, <3>1, PieceIs
    <3>. QED BY <3>2
  <2>. QED BY <2>2, <2>3, <2>4, <2>5
<1>14. /\ n - 1 \in Nat /\ n - 1 + 1 = n
       /\ DOMAIN Cut(u, Q) = 1..n - 1 /\ DOMAIN Cut(w, R) = 1..n
  BY <1>5, <1>6, <1>8, <1>11 DEF Pieces
<1>15. Len(Cut(u, Q)) = n - 1
  BY <1>14, LenProperties
<1>. QED
  BY <1>2, <1>12, <1>13, <1>14, <1>15 DEF Followed

LEMMA SplitAppend ==
  ASSUME NEW u \in Seq(Glyph), NEW v \in Seq(Glyph), NEW separators,
         NEW s \in Glyph, s \in separators, Whole(v, separators)
  PROVE  Followed(SplitText(u \o <<s>> \o v, separators), SplitText(u, separators), v)
<1>. PICK w, a, b : w = u \o <<s>> \o v /\ a = Len(u) /\ b = Len(v)
  OBVIOUS
<1>1. /\ w \in Seq(Glyph) /\ Len(w) = a + b + 1
      /\ \A i \in 1..a : w[i] = u[i]
      /\ w[a + 1] = s
      /\ \A i \in 1..b : w[a + 1 + i] = v[i]
  BY ConcatType
<1>2. Appended(w, u, v, separators)
  BY <1>1 DEF Appended
<1>3. w \in Seq(Glyph)
  BY <1>1
<1>. QED
  BY <1>2, <1>3, SplitExtended

-------------------------------------------------------------------------------
(* A list comes apart as it was put together.                              *)

\* A list that has begun to come out again.
Begins(c, pieces, k) ==
  /\ DOMAIN c = 1..k /\ Len(c) = k
  /\ \A l \in 1..k : c[l] = pieces[l]

LEMMA SplitOneMore ==
  ASSUME NEW c, NEW d, NEW pieces, NEW k \in Nat, k >= 1,
         Followed(c, d, pieces[k + 1]), Begins(d, pieces, k)
  PROVE  DOMAIN c = 1..k + 1 /\ \A l \in 1..k + 1 : c[l] = pieces[l]
<1>1. /\ DOMAIN c = 1..k + 1 /\ c[k + 1] = pieces[k + 1]
      /\ \A i \in 1..k : c[i] = pieces[i]
  BY DEF Followed, Begins
<1>2. \A l \in 1..k + 1 : l \in 1..k \/ l = k + 1
  OBVIOUS
<1>. QED
  BY <1>1, <1>2

LEMMA SplitIsList ==
  ASSUME NEW u \in Seq(Glyph), NEW separators, NEW k \in Nat,
         DOMAIN SplitText(u, separators) = 1..k
  PROVE  /\ Len(SplitText(u, separators)) = k
         /\ SplitText(u, separators) = [l \in 1..k |-> SplitText(u, separators)[l]]
<1>3. SplitText(u, separators) = [l \in DOMAIN SplitText(u, separators) |-> SplitText(u, separators)[l]]
  BY DEF SplitText, Cut
<1>4. \A s : s = [l \in 1..k |-> s[l]] => Len(s) = k
  OBVIOUS
<1>. QED
  BY <1>3, <1>4

\* Splitting gives back the pieces that were joined.
LEMMA SplitOfJoin ==
  ASSUME NEW pieces \in Seq(Seq(Glyph)), pieces # <<>>, NEW mark \in Glyph,
         NEW separators, mark \in separators,
         \A k \in DOMAIN pieces : Whole(pieces[k], separators)
  PROVE  SplitText(Joined(pieces, mark), separators) = pieces
<1>. PICK n : n = Len(pieces)
  OBVIOUS
<1>1. n \in Nat /\ n >= 1 /\ DOMAIN pieces = 1..n /\ \A k \in 1..n : pieces[k] \in Seq(Glyph)
  BY LenProperties, EmptySeq, ElementOfSeq
<1>2. PICK join : Joins(join, pieces, mark, n) /\ Joined(pieces, mark) = join[n]
  BY JoinedType
<1>3. \A k \in 1..n : join[k] \in Seq(Glyph)
  BY <1>2 DEF Joins
<1>. DEFINE split(k) == SplitText(join[k], separators)
            S == {k \in Nat : k \in 1..n => Begins(split(k), pieces, k)}
<1>4. 0 \in S
  OBVIOUS
<1>5. ASSUME NEW k \in S
      PROVE  k + 1 \in S
  <2>1. k \in Nat
    OBVIOUS
  <2>2. SUFFICES ASSUME k + 1 \in 1..n PROVE Begins(split(k + 1), pieces, k + 1)
    BY <2>1
  <2>3. pieces[k + 1] \in Seq(Glyph) /\ Whole(pieces[k + 1], separators) /\ join[k + 1] \in Seq(Glyph)
    BY <1>1, <1>3, <2>2
  <2>4. /\ DOMAIN split(k + 1) = 1..k + 1
        /\ \A l \in 1..k + 1 : split(k + 1)[l] = pieces[l]
    <3>1. CASE k = 0
      <4>1. join[k + 1] = pieces[1] /\ pieces[1] \in Seq(Glyph) /\ Whole(pieces[1], separators)
        BY <1>1, <1>2, <2>3, <3>1 DEF Joins
      <4>2. split(k + 1) = <<pieces[1]>>
        BY <4>1, SplitWhole
      <4>3. k + 1 = 1 /\ \A l \in 1..1 : l = 1
        BY <3>1
      <4>. QED BY <4>2, <4>3
    <3>2. CASE k # 0
      <4>1. k \in 1..n /\ k >= 1
        BY <1>1, <2>1, <2>2, <3>2
      <4>2. Begins(split(k), pieces, k)
        BY <4>1
      <4>3. join[k + 1] = join[k] \o <<mark>> \o pieces[k + 1]
        <5>. PICK l : l = k + 1
          OBVIOUS
        <5>1. l \in 2..n /\ l - 1 = k
          BY <2>2, <4>1
        <5>2. join[l] = join[l - 1] \o <<mark>> \o pieces[l]
          BY <1>2, <5>1 DEF Joins
        <5>. QED BY <5>1, <5>2
      <4>4. join[k] \in Seq(Glyph)
        BY <1>3, <4>1
      <4>5. Followed(SplitText(join[k] \o <<mark>> \o pieces[k + 1], separators), split(k), pieces[k + 1])
        BY <2>3, <4>4, SplitAppend
      <4>6. Followed(split(k + 1), split(k), pieces[k + 1])
        BY <4>3, <4>5
      <4>. HIDE DEF split
      <4>. QED BY <2>1, <4>1, <4>2, <4>6, SplitOneMore
    <3>. QED BY <3>1, <3>2
  <2>5. Len(split(k + 1)) = k + 1
    BY <2>1, <2>3, <2>4, SplitIsList
  <2>. QED BY <2>4, <2>5 DEF Begins
<1>6. S = Nat
  BY <1>4, <1>5, Induction
<1>7. Begins(split(n), pieces, n)
  BY <1>1, <1>6
<1>8. split(n) = [l \in 1..n |-> split(n)[l]]
  <2>1. n \in 1..n /\ join[n] \in Seq(Glyph)
    BY <1>1, <1>3
  <2>2. DOMAIN split(n) = 1..n
    BY <1>7 DEF Begins
  <2>. QED BY <1>1, <2>1, <2>2, SplitIsList
<1>9. pieces = [l \in 1..n |-> pieces[l]]
  BY <1>1
<1>. HIDE DEF split
<1>10. split(n) = pieces
  BY <1>7, <1>8, <1>9 DEF Begins
<1>. QED
  BY <1>2, <1>10 DEF split

LEMMA PieceElements ==
  ASSUME NEW u \in Seq(Glyph), NEW c \in Int, NEW d \in Int, c >= 1, d <= Len(u),
         NEW j \in DOMAIN SubSeq(u, c, d)
  PROVE  \E k \in c..d : k \in DOMAIN u /\ SubSeq(u, c, d)[j] = u[k]
  BY PieceType

LEMMA PieceBetween ==
  ASSUME NEW u \in Seq(Glyph), NEW a \in Nat, NEW b \in Nat, b <= Len(u) + 1
  PROVE  \A j \in DOMAIN SubSeq(u, a + 1, b - 1) :
           \E k \in DOMAIN u : a < k /\ k < b /\ SubSeq(u, a + 1, b - 1)[j] = u[k]
<1>1. Len(u) \in Nat
  BY LenProperties
<1>2. ASSUME NEW c \in Int, NEW d \in Int, c = a + 1, d = b - 1
      PROVE  \A j \in DOMAIN SubSeq(u, c, d) :
               \E k \in DOMAIN u : a < k /\ k < b /\ SubSeq(u, c, d)[j] = u[k]
  <2>1. c >= 1 /\ d <= Len(u)
    BY <1>1, <1>2
  <2>2. \A j \in DOMAIN SubSeq(u, c, d) :
          \E k \in c..d : k \in DOMAIN u /\ SubSeq(u, c, d)[j] = u[k]
    BY <2>1, PieceElements
  <2>3. \A k \in c..d : a < k /\ k < b
    BY <1>2
  <2>. QED BY <2>2, <2>3
<1>. QED
  BY <1>1, <1>2

\* No piece has a separator.
LEMMA SplitType ==
  ASSUME NEW u \in Seq(Glyph), NEW separators, NEW c, c = SplitText(u, separators)
  PROVE  /\ c \in Seq(Seq(Glyph)) /\ Len(c) \in Nat /\ DOMAIN c = 1..Len(c)
         /\ \A i \in DOMAIN c : c[i] \in Seq(Glyph) /\ Whole(c[i], separators)
<1>. PICK Q, p, n, S : /\ Q = Separated(u, separators) /\ S = Ends(u, Q)
                       /\ p = InOrder(S) /\ n = Cardinality(S)
  OBVIOUS
<1>1. Q \in SUBSET DOMAIN u /\ c = Cut(u, Q) /\ Len(u) \in Nat /\ DOMAIN u = 1..Len(u)
  BY LenProperties DEF Separated, SplitText
<1>2. /\ n \in Nat /\ Ascending(p, n, S)
      /\ \A i \in 1..n - 1 : p[i] \in 0..Len(u) /\ p[i + 1] \in 1..Len(u) + 1
                             /\ p[i] < p[i + 1] /\ Cut(u, Q)[i] \in Seq(Glyph)
  BY <1>1, CutType
<1>3. Pieces(Cut(u, Q), u, p, n)
  BY <1>1, CutPieces
<1>4. n >= 1
  <2>1. 0 \in S
    BY DEF Ends
  <2>2. \E k \in 1..n : p[k] = 0
    BY <1>2, <2>1 DEF Ascending
  <2>. QED BY <1>2, <2>2
<1>5. c = [i \in DOMAIN c |-> c[i]]
  BY DEF SplitText, Cut
<1>6. DOMAIN c = 1..n - 1 /\ n - 1 \in Nat
  BY <1>1, <1>2, <1>3, <1>4 DEF Pieces
<1>7. \A i \in 1..n - 1 : c[i] \in Seq(Glyph)
  BY <1>1, <1>2
<1>8. c \in Seq(Seq(Glyph)) /\ Len(c) = n - 1
  <2>. PICK m : m = n - 1
    OBVIOUS
  <2>1. m \in Nat /\ c = [i \in 1..m |-> c[i]] /\ \A i \in 1..m : c[i] \in Seq(Glyph)
    BY <1>5, <1>6, <1>7
  <2>2. c \in [1..m -> Seq(Glyph)]
    BY <2>1
  <2>. QED BY <2>1, <2>2
<1>9. ASSUME NEW i \in 1..n - 1
      PROVE  Whole(c[i], separators)
  <2>1. c[i] = SubSeq(u, p[i] + 1, p[i + 1] - 1)
    BY <1>1, <1>3 DEF Pieces
  <2>0. PICK a, b : a = p[i] /\ b = p[i + 1]
    OBVIOUS
  <2>2. a \in 0..Len(u) /\ b \in 1..Len(u) + 1 /\ a < b
    BY <1>2, <2>0
  <2>3. \A j \in DOMAIN SubSeq(u, a + 1, b - 1) :
          \E k \in DOMAIN u : a < k /\ k < b /\ SubSeq(u, a + 1, b - 1)[j] = u[k]
    <3>1. a \in Nat /\ b \in Nat /\ b <= Len(u) + 1
      BY <1>1, <2>2
    <3>. QED BY <3>1, PieceBetween
  <2>4. ASSUME NEW j \in Int, a < j, j < b
        PROVE  j \notin S
    <3>1. SUFFICES ASSUME j \in S PROVE FALSE
      OBVIOUS
    <3>2. PICK k \in 1..n : p[k] = j
      BY <1>2, <3>1 DEF Ascending
    <3>3. i \in 1..n /\ i + 1 \in 1..n /\ k \in Int /\ i \in Int
      BY <1>2
    <3>4. a < p[k] /\ p[k] < b
      BY <2>4, <3>2
    <3>5. ~(k < i) /\ k # i /\ ~(i + 1 < k) /\ k # i + 1
      <4>1. k < i => p[k] < a
        BY <1>2, <2>0, <3>3 DEF Ascending
      <4>2. i + 1 < k => b < p[k]
        BY <1>2, <2>0, <3>3 DEF Ascending
      <4>3. a \in Int /\ b \in Int /\ p[k] \in Int
        BY <1>1, <2>2, <3>2
      <4>4. k # i /\ k # i + 1
        BY <2>0, <3>4, <4>3
      <4>5. ~(p[k] < a) /\ ~(b < p[k])
        BY <2>0, <3>4, <4>3
      <4>. QED BY <4>1, <4>2, <4>4, <4>5
    <3>. QED BY <3>3, <3>5
  <2>5. \A j \in DOMAIN u : j \notin S => u[j] \notin separators
    BY DEF Ends, Separated
  <2>6. ASSUME NEW j \in DOMAIN c[i]
        PROVE  c[i][j] \notin separators
    <3>0. c[i] = SubSeq(u, a + 1, b - 1)
      BY <2>0, <2>1
    <3>1. PICK k \in DOMAIN u : a < k /\ k < b /\ c[i][j] = u[k]
      BY <2>3, <2>6, <3>0
    <3>2. k \in Int
      BY <1>1
    <3>. QED BY <2>4, <2>5, <3>1, <3>2
  <2>. QED BY <2>6 DEF Whole
<1>. QED
  BY <1>6, <1>7, <1>8, <1>9

-------------------------------------------------------------------------------
(* Trimmed texts.                                                          *)

Trimmed(u) == Kept(u) = DOMAIN u

LEMMA TrimmedFacts ==
  ASSUME NEW u \in Seq(Glyph)
  PROVE  /\ Trim(u) \in Seq(Glyph) /\ Trimmed(Trim(u))
         /\ Trimmed(u) => Trim(u) = u
<1>1. Trimmed(u) => Trim(u) = u
  BY TrimType, AtAll DEF Trimmed
<1>. QED
  BY <1>1, TrimType, TrimAgain DEF Trimmed

\* All spellings of a trimmed text are trimmed.
LEMMA LikeTrimmed ==
  ASSUME NEW u, NEW v, Like(u, v), Trimmed(u)
  PROVE  Trimmed(v)
<1>1. Len(u) = Len(v) /\ Len(u) \in Nat /\ DOMAIN u = 1..Len(u) /\ DOMAIN v = 1..Len(u)
  BY LikeFacts
<1>2. \A i \in 1..Len(u) : u[i] = Space <=> v[i] = Space
  BY LikeSeparators
<1>3. ASSUME NEW i \in 1..Len(u)
      PROVE  i \in Kept(v)
  <2>1. i \in Kept(u)
    BY <1>1 DEF Trimmed
  <2>2. CASE u[i] # Space
    BY <1>1, <1>2, <2>2 DEF Kept
  <2>3. CASE u[i] = Space
    <3>1. i > 1 /\ u[i - 1] # Space
      BY <2>1, <2>3 DEF Kept
    <3>2. PICK j \in i..Len(u) : u[j] # Space
      BY <2>1, <2>3 DEF Kept
    <3>3. i - 1 \in 1..Len(u) /\ j \in 1..Len(u)
      BY <1>1, <3>1
    <3>4. v[i - 1] # Space /\ v[j] # Space /\ j \in i..Len(v)
      BY <1>1, <1>2, <3>1, <3>2, <3>3
    <3>. QED BY <1>1, <3>1, <3>4 DEF Kept
  <2>. QED BY <2>2, <2>3
<1>. QED
  BY <1>1, <1>3 DEF Trimmed, Kept

LEMMA TrimmedAppend ==
  ASSUME NEW u \in Seq(Glyph), NEW v \in Seq(Glyph), NEW s \in Glyph, s # Space,
         Trimmed(u), Trimmed(v)
  PROVE  Trimmed(u \o <<s>> \o v)
<1>. PICK w, a, b : w = u \o <<s>> \o v /\ a = Len(u) /\ b = Len(v)
  OBVIOUS
<1>1. /\ Len(w) = a + b + 1 /\ a \in Nat /\ b \in Nat /\ DOMAIN w = 1..Len(w)
      /\ DOMAIN u = 1..a /\ DOMAIN v = 1..b
  BY ConcatType, LenProperties
<1>2. /\ \A i \in 1..a : w[i] = u[i]
      /\ w[a + 1] = s
      /\ \A i \in 1..b : w[a + 1 + i] = v[i]
  BY ConcatType
<1>3. ASSUME NEW i \in 1..a
      PROVE  i \in Kept(w)
  <2>1. i \in Kept(u) /\ w[i] = u[i] /\ i \in DOMAIN w
    BY <1>1, <1>2 DEF Trimmed
  <2>2. CASE u[i] = Space
    <3>1. i > 1 /\ u[i - 1] # Space
      BY <2>1, <2>2 DEF Kept
    <3>2. i - 1 \in 1..a /\ a + 1 \in i..Len(w)
      BY <1>1, <3>1
    <3>3. w[i - 1] # Space /\ w[a + 1] # Space
      BY <1>2, <3>1, <3>2
    <3>. QED BY <2>1, <3>1, <3>2, <3>3 DEF Kept
  <2>. QED BY <2>1, <2>2 DEF Kept
<1>4. a + 1 \in Kept(w)
  <2>1. a + 1 \in DOMAIN w
    BY <1>1
  <2>. QED BY <1>2, <2>1 DEF Kept
<1>5. ASSUME NEW l \in 1..b, NEW i, i = a + 1 + l
      PROVE  i \in Kept(w)
  <2>1. l \in Kept(v) /\ w[i] = v[l] /\ i \in DOMAIN w /\ i > 1 /\ i \in Nat
    BY <1>1, <1>2, <1>5 DEF Trimmed
  <2>2. CASE v[l] = Space
    <3>1. l > 1 /\ v[l - 1] # Space
      BY <2>1, <2>2 DEF Kept
    <3>2. PICK j \in l..Len(v) : v[j] # Space
      BY <2>1, <2>2 DEF Kept
    <3>3. l - 1 \in 1..b /\ a + 1 + (l - 1) = i - 1 /\ j \in 1..b /\ a + 1 + j \in i..Len(w)
      BY <1>1, <1>5, <3>1
    <3>4. w[i - 1] # Space /\ w[a + 1 + j] # Space
      <4>1. w[a + 1 + (l - 1)] = v[l - 1] /\ w[a + 1 + j] = v[j]
        BY <1>2, <3>3
      <4>. QED BY <3>1, <3>2, <3>3, <4>1
    <3>. QED BY <2>1, <3>3, <3>4 DEF Kept
  <2>. QED BY <2>1, <2>2 DEF Kept
<1>6. ASSUME NEW i \in DOMAIN w
      PROVE  i \in Kept(w)
  <2>1. i \in 1..a \/ i = a + 1 \/ (i - (a + 1) \in 1..b /\ i = a + 1 + (i - (a + 1)))
    BY <1>1
  <2>. QED BY <1>3, <1>4, <1>5, <2>1
<1>7. Kept(w) \subseteq DOMAIN w
  BY DEF Kept
<1>. QED
  BY <1>6, <1>7 DEF Trimmed

\* A list of trimmed values is trimmed.
LEMMA TrimmedJoined ==
  ASSUME NEW pieces \in Seq(Seq(Glyph)), pieces # <<>>, NEW mark \in Glyph, mark # Space,
         \A k \in DOMAIN pieces : Trimmed(pieces[k])
  PROVE  Joined(pieces, mark) \in Seq(Glyph) /\ Trimmed(Joined(pieces, mark))
<1>. PICK n : n = Len(pieces)
  OBVIOUS
<1>1. n \in Nat /\ n >= 1 /\ DOMAIN pieces = 1..n /\ \A k \in 1..n : pieces[k] \in Seq(Glyph)
  BY LenProperties, EmptySeq, ElementOfSeq
<1>2. PICK join : Joins(join, pieces, mark, n) /\ Joined(pieces, mark) = join[n]
  BY JoinedType
<1>3. \A k \in 1..n : join[k] \in Seq(Glyph)
  BY <1>2 DEF Joins
<1>. DEFINE S == {k \in Nat : k \in 1..n => Trimmed(join[k])}
<1>4. 0 \in S
  OBVIOUS
<1>5. ASSUME NEW k \in S
      PROVE  k + 1 \in S
  <2>1. k \in Nat
    OBVIOUS
  <2>2. SUFFICES ASSUME k + 1 \in 1..n PROVE Trimmed(join[k + 1])
    BY <2>1
  <2>. PICK l : l = k + 1
    OBVIOUS
  <2>3. l \in 1..n /\ pieces[l] \in Seq(Glyph) /\ Trimmed(pieces[l])
    BY <1>1, <2>2
  <2>4. CASE k = 0
    <3>1. l = 1
      BY <2>4
    <3>. QED BY <1>1, <1>2, <2>3, <3>1 DEF Joins
  <2>5. CASE k # 0
    <3>1. k \in 1..n /\ l \in 2..n /\ l - 1 = k
      BY <1>1, <2>1, <2>2, <2>5
    <3>2. Trimmed(join[k]) /\ join[k] \in Seq(Glyph)
      BY <1>3, <3>1
    <3>3. join[l] = join[l - 1] \o <<mark>> \o pieces[l]
      BY <1>2, <3>1 DEF Joins
    <3>. QED BY <2>3, <3>1, <3>2, <3>3, TrimmedAppend
  <2>. QED BY <2>4, <2>5
<1>6. S = Nat
  BY <1>4, <1>5, Induction
<1>7. n \in 1..n
  BY <1>1
<1>. QED
  BY <1>1, <1>2, <1>3, <1>6, <1>7

-------------------------------------------------------------------------------
(* Short texts.                                                            *)

\* A phrase is not in a text that is shorter.
LEMMA LongPhrase ==
  ASSUME NEW phrase, NEW x \in Seq(Glyph), Len(phrase) \in Nat, Len(phrase) > Len(x)
  PROVE  Occurrences(phrase, x) = {} /\ ~Within(phrase, x)
<1>1. \A y : Len(y) = Len(x) => Occurrences(phrase, y) = {}
  <2>. SUFFICES ASSUME NEW y, Len(y) = Len(x)
                PROVE  1..Len(y) - Len(phrase) + 1 = {}
    BY DEF Occurrences
  <2>1. Len(x) \in Nat
    BY LenProperties
  <2>. QED BY <2>1
<1>2. Len(Letters(x)) = Len(x)
  <2>1. Len(x) \in Nat /\ DOMAIN x = 1..Len(x)
    BY LenProperties
  <2>2. DOMAIN Letters(x) = 1..Len(x) /\ Letters(x) = [i \in 1..Len(x) |-> Letters(x)[i]]
    BY <2>1 DEF Letters
  <2>. QED BY <2>1, <2>2
<1>. QED
  BY <1>1, <1>2 DEF Within

Region(t) == NamesShortRegion(t) \/ NamesRegion(t)

\* What is too short names no region.
LEMMA NoRegion ==
  ASSUME NEW w \in Seq(Glyph), Len(w) \in {0, 1}
  PROVE  ~Region(w)
<1>1. Sight(w) \in Seq(Glyph) /\ Len(Sight(w)) = Len(w)
  BY SightType
<1>. PICK x : x = Sight(w)
  OBVIOUS
<1>. PICK s, l : s = RegionShort /\ l = RegionLong
  OBVIOUS
<1>2. Len(RegionShort) = 5 /\ Len(RegionLong) = 5
  BY ONLY RegionsOfNames
<1>3. Len(s) = 5 /\ Len(l) = 5
  BY <1>2, Zenon
<1>4. PICK n : n = Len(x)
  OBVIOUS
<1>5. n \in {0, 1}
  BY <1>1, <1>4, Zenon
<1>6. 5 \in Nat /\ 5 > n
  BY ONLY <1>5, SMT
<1>7. Len(s) \in Nat /\ Len(s) > Len(x) /\ Len(l) \in Nat /\ Len(l) > Len(x)
  BY <1>3, <1>4, <1>6, Zenon
<1>8. x \in Seq(Glyph)
  BY <1>1, Zenon
<1>9. Occurrences(s, x) = {} /\ Occurrences(l, x) = {}
  BY <1>7, <1>8, LongPhrase
<1>. QED
  BY <1>9 DEF Region, NamesRegion, NamesShortRegion

-------------------------------------------------------------------------------
(* Abbreviating.                                                           *)

NamedStates(f) == {s \in DOMAIN STATE_TO_UF : Within(STATE_TO_UF[s].name, f)}
NamesTribunal(f) ==
  Within(Words(<<"tribunal", " ", "de", " ", "justica">>), f) /\ NamedStates(f) # {}

LEMMA AbbreviateByCases ==
  ASSUME NEW u, NEW t, t = Trim(u), NEW f, f = Fold(t)
  PROVE  Abbreviate(u) =
           IF Region(t) THEN Court("trf1")
           ELSE IF FirstAcronym(t) # 0 THEN Court(t[FirstAcronym(t)].sign)
           ELSE IF NamesTribunal(f) THEN Court(STATE_TO_UF[Min(NamedStates(f))].court)
           ELSE t
  BY DEF Abbreviate, Region, NamedStates, NamesTribunal

\* The first acronym is one, and found if there is any.
LEMMA AcronymType ==
  ASSUME NEW t \in Seq(Glyph)
  PROVE  /\ FirstAcronym(t) # 0 =>
              FirstAcronym(t) \in 1..Len(t) /\ t[FirstAcronym(t)].sign \in Acronyms
         /\ \A i \in DOMAIN t : t[i].accent = "none" /\ t[i].sign \in Acronyms => FirstAcronym(t) # 0
<1>. DEFINE at == {i \in DOMAIN t : t[i].accent = "none" /\ t[i].sign \in Acronyms}
<1>1. Len(t) \in Nat /\ DOMAIN t = 1..Len(t)
  BY LenProperties
<1>2. FirstAcronym(t) = IF at = {} THEN 0 ELSE Min(at)
  BY DEF FirstAcronym
<1>3. at \subseteq 1..Len(t) /\ at \subseteq Nat /\ \A i \in at : t[i].sign \in Acronyms /\ i # 0
  BY <1>1
<1>4. IsFiniteSet(at)
  BY <1>1, <1>3, UpTo, FS_Subset
<1>5. \A i \in DOMAIN t : t[i].accent = "none" /\ t[i].sign \in Acronyms => i \in at
  OBVIOUS
<1>. HIDE DEF at
<1>6. at # {} => Min(at) \in at
  BY <1>3, <1>4, LeastOf
<1>. QED
  BY <1>2, <1>3, <1>5, <1>6

\* Abbreviating leaves a text as it is, trimmed, or the acronym of a court.
LEMMA AbbreviateShape ==
  ASSUME NEW u \in Seq(Glyph), NEW t, t = Trim(u)
  PROVE  \/ /\ Abbreviate(u) = t
            /\ ~Region(t) /\ ~NamesTribunal(Fold(t)) /\ FirstAcronym(t) = 0
         \/ \E sign \in Acronyms : Abbreviate(u) = Court(sign)
<1>. PICK f : f = Fold(t)
  OBVIOUS
<1>1. t \in Seq(Glyph)
  BY TrimType
<1>2. "trf1" \in Acronyms
  BY DEF Acronyms
<1>3. FirstAcronym(t) # 0 => t[FirstAcronym(t)].sign \in Acronyms
  BY <1>1, AcronymType
<1>4. ASSUME NamesTribunal(f)
      PROVE  STATE_TO_UF[Min(NamedStates(f))].court \in Acronyms
  <2>1. NamedStates(f) \subseteq 1..5 /\ NamedStates(f) # {}
    BY <1>4, StatesType DEF NamedStates, NamesTribunal
  <2>2. 1..5 \subseteq Nat /\ 5 \in Nat
    OBVIOUS
  <2>3. IsFiniteSet(1..5)
    BY <2>2, UpTo
  <2>4. NamedStates(f) \subseteq Nat /\ IsFiniteSet(NamedStates(f))
    BY <2>1, <2>2, <2>3, FS_Subset
  <2>. QED BY <2>1, <2>4, LeastOf, StatesType
<1>. QED
  BY <1>2, <1>3, <1>4, AbbreviateByCases

LEMMA TrimmedSymbol ==
  ASSUME NEW w \in Seq(Glyph), Len(w) = 1, w[1].sign \in Acronyms
  PROVE  Trimmed(w) /\ DOMAIN w = 1..1 /\ \A i \in 1..1 : i = 1 /\ w[i] = w[1]
<1>1. DOMAIN w = 1..1 /\ \A i \in 1..1 : i = 1
  BY LenProperties
<1>2. w[1] # Space
  <2>1. Space.sign = " " /\ " " \notin Acronyms
    BY DEF Acronyms, Space, Mark
  <2>. QED BY <2>1
<1>3. \A i \in DOMAIN w : i = 1 /\ w[i] # Space
  BY <1>1, <1>2
<1>4. Kept(w) = DOMAIN w
  BY <1>3 DEF Kept
<1>. QED
  BY <1>1, <1>4 DEF Trimmed

\* An acronym stays one.
LEMMA CourtStays ==
  ASSUME NEW w \in Seq(Glyph), Len(w) = 1, w[1].sign \in Acronyms, w[1].accent = "none"
  PROVE  Abbreviate(w) = Court(w[1].sign)
<1>1. Trim(w) = w /\ DOMAIN w = 1..1
  BY TrimmedSymbol, TrimmedFacts
<1>2. ~Region(w)
  BY NoRegion
<1>3. FirstAcronym(w) # 0 /\ FirstAcronym(w) \in 1..1
  BY <1>1, AcronymType
<1>4. FirstAcronym(w) = 1
  BY <1>3
<1>. QED
  BY <1>1, <1>2, <1>3, <1>4, AbbreviateByCases

LEMMA SameAcronym ==
  ASSUME NEW u, NEW v, Like(u, v), SameAccents(u, v) \/ Alike(u, v)
  PROVE  FirstAcronym(u) = FirstAcronym(v)
<1>1. CASE Alike(u, v)
  BY <1>1, LikeAcronym DEF Alike
<1>2. CASE SameAccents(u, v)
  <2>1. /\ Len(u) \in Nat /\ DOMAIN u = 1..Len(u) /\ DOMAIN v = 1..Len(u)
        /\ \A i \in 1..Len(u) : u[i].sign = v[i].sign
    BY LikeFacts
  <2>2. \A i \in 1..Len(u) : u[i].accent = v[i].accent
    BY <1>2 DEF SameAccents
  <2>3. {i \in DOMAIN u : u[i].accent = "none" /\ u[i].sign \in Acronyms}
        = {i \in DOMAIN v : v[i].accent = "none" /\ v[i].sign \in Acronyms}
    BY <2>1, <2>2
  <2>. QED BY <2>3 DEF FirstAcronym
<1>. QED
  BY <1>1, <1>2

\* What came out of abbreviating is abbreviated no further, in whatever spelling.
LEMMA AbbreviateAgain ==
  ASSUME NEW u \in Seq(Glyph), NEW b, b = Abbreviate(u), NEW w, Like(b, w),
         SameAccents(b, w) \/ Alike(b, w)
  PROVE  Abbreviate(w) = w \/ Abbreviate(w) = b
<1>. PICK t : t = Trim(u)
  OBVIOUS
<1>1. w \in Seq(Glyph) /\ Fold(w) = Fold(b) /\ Len(w) = Len(b)
  BY LikeFacts DEF Like
<1>2. CASE b = t /\ ~Region(t) /\ ~NamesTribunal(Fold(t)) /\ FirstAcronym(t) = 0
  <2>1. Trimmed(t)
    BY TrimmedFacts
  <2>2. Trim(w) = w
    BY <1>1, <1>2, <2>1, LikeTrimmed, TrimmedFacts
  <2>3. FirstAcronym(w) = 0
    BY <1>2, SameAcronym
  <2>4. ~Region(w)
    BY <1>2, SameRegion DEF Region
  <2>. QED BY <1>1, <1>2, <2>2, <2>3, <2>4, AbbreviateByCases
<1>3. ASSUME NEW sign \in Acronyms, b = Court(sign)
      PROVE  Abbreviate(w) = b
  <2>1. sign \in Signs
    BY DEF Signs
  <2>2. Len(b) = 1 /\ b[1] = Upper(sign) /\ DOMAIN b = 1..1 /\ 1 \in 1..1
    BY <1>3, <2>1, CourtType
  <2>3. w[1].sign = b[1].sign /\ DOMAIN w = 1..1
    BY <2>2, LikeFacts
  <2>4. b[1].sign = sign /\ b[1].accent = "none"
    BY <2>2 DEF Upper
  <2>5. w[1].accent = "none"
    <3>1. SameAccents(b, w) => w[1].accent = "none"
      BY <2>2, <2>4 DEF SameAccents
    <3>2. Alike(b, w) => w[1].accent = "none"
      <4>. SUFFICES ASSUME ~HidesName(w)
                    PROVE  w[1].accent = "none"
        BY DEF Alike
      <4>1. w[1].sign \in Acronyms /\ w[1].sign \in NameSigns /\ 1 \in DOMAIN w
        BY <2>2, <2>3, <2>4 DEF NameSigns
      <4>2. w[1] \in Glyph /\ Seen(w[1]).accent = "none"
        BY <1>1, <4>1, ElementOfSeq DEF HidesName
      <4>. QED BY <4>1, <4>2, SeenFacts
    <3>. QED BY <3>1, <3>2
  <2>. QED BY <1>1, <1>3, <2>2, <2>3, <2>4, <2>5, CourtStays
<1>. QED
  BY <1>2, <1>3, AbbreviateShape

-------------------------------------------------------------------------------
(* The steps, a second time.                                               *)

LEMMA NoAccents ==
  ASSUME NEW u \in Seq(Glyph), \A i \in 1..Len(u) : u[i].accent = "none"
  PROVE  RemoveAccents(u) = u
<1>1. Len(u) \in Nat /\ DOMAIN u = 1..Len(u) /\ u = [i \in 1..Len(u) |-> u[i]]
      /\ \A i \in 1..Len(u) : u[i] \in Glyph
  BY LenProperties, ElementOfSeq
<1>2. ASSUME NEW i \in 1..Len(u)
      PROVE  Unaccented(u[i]) = u[i]
  <2>1. /\ Unaccented(u[i]) \in Glyph /\ Unaccented(u[i]).sign = u[i].sign
        /\ Unaccented(u[i]).accent = "none" /\ Unaccented(u[i]).case = u[i].case
    BY <1>1, SymbolFacts
  <2>. QED BY <1>1, <2>1, SameSymbol
<1>3. RemoveAccents(u) = [i \in 1..Len(u) |-> Unaccented(u[i])]
  BY <1>1 DEF RemoveAccents, Each
<1>. QED
  BY <1>1, <1>2, <1>3

\* Capitalizing twice is capitalizing once.
LEMMA CapitalizeAgain ==
  ASSUME NEW c \in Seq(Glyph), NEW y, y = Capitalize(c)
  PROVE  /\ y \in Seq(Glyph) /\ Trimmed(y) /\ Like(Trim(c), y) /\ SameAccents(Trim(c), y)
         /\ Capitalize(y) = y
<1>. PICK t : t = Trim(c)
  OBVIOUS
<1>1. Like(t, y) /\ SameAccents(t, y) /\ t \in Seq(Glyph) /\ y \in Seq(Glyph)
  BY CapitalizeType DEF Like
<1>2. Trimmed(t) /\ Trimmed(y) /\ Trim(t) = t /\ Trim(y) = y
  BY <1>1, TrimmedFacts, LikeTrimmed
<1>3. Capitalize(t) = Capitalize(y)
  BY <1>1, <1>2, SameCapitalized
<1>4. Capitalize(t) = y
  BY <1>2, CapitalizeByCases
<1>. QED
  BY <1>1, <1>2, <1>3, <1>4

\* What becomes of a text whose suffixes stay.
Stems(x, y) ==
  Like(x, y) \/ Like(Trim(x), y) \/ \E sign \in Acronyms : Like(Court(sign), y)

LEMMA LikeAlso ==
  ASSUME NEW u, NEW v, NEW w, Like(u, v), Like(v, w)
  PROVE  Like(u, w)
  BY DEF Like

LEMMA AbbreviateType ==
  ASSUME NEW x \in Seq(Glyph), NEW b, b = Abbreviate(x)
  PROVE  b \in Seq(Glyph) /\ Trimmed(b)
<1>1. CASE b = Trim(x)
  BY <1>1, TrimmedFacts
<1>2. ASSUME NEW sign \in Acronyms, b = Court(sign)
      PROVE  b \in Seq(Glyph) /\ Trimmed(b)
  <2>1. b \in Seq(Glyph) /\ Len(b) = 1 /\ b[1] = Upper(sign)
    BY <1>2, CourtType DEF Signs
  <2>2. b[1].sign = sign
    BY <2>1 DEF Upper
  <2>. QED BY <2>1, <2>2, TrimmedSymbol
<1>. QED
  BY <1>1, <1>2, AbbreviateShape

\* Without suffixes the steps leave a spelling of the text, or of an acronym.
LEMMA ScalarShape ==
  ASSUME NEW x \in Seq(Glyph), NEW steps, "remove_suffixes" \notin steps,
         NEW y, y = NormalizeScalar(x, steps)
  PROVE  y \in Seq(Glyph) /\ Stems(x, y) /\ (Trimmed(x) => Trimmed(y))
<1>1. PICK a, b, c :
        /\ a = IF "remove_suffixes" \in steps THEN RemoveSuffixes(x) ELSE x
        /\ b = IF "abbreviate" \in steps THEN Abbreviate(a) ELSE a
        /\ c = IF "remove_accents" \in steps THEN RemoveAccents(b) ELSE b
        /\ NormalizeScalar(x, steps) = IF "capitalize_pt_br" \in steps THEN Capitalize(c) ELSE c
  BY ScalarSteps, Zenon
<1>2. a = x
  BY <1>1
<1>3. b \in Seq(Glyph) /\ (b = x \/ Trimmed(b))
      /\ (b = x \/ b = Trim(x) \/ \E sign \in Acronyms : b = Court(sign))
  <2>1. CASE "abbreviate" \notin steps
    BY <1>1, <1>2, <2>1
  <2>2. CASE "abbreviate" \in steps
    <3>1. b = Abbreviate(x)
      BY <1>1, <1>2, <2>2
    <3>. QED BY <3>1, AbbreviateType, AbbreviateShape
  <2>. QED BY <2>1, <2>2
<1>4. Like(b, c)
  BY <1>1, <1>3, AccentsGone, LikeItself
<1>5. c \in Seq(Glyph) /\ (Trimmed(b) => Trimmed(c))
  BY <1>4, LikeFacts, LikeTrimmed
<1>6. y \in Seq(Glyph) /\ (Like(c, y) \/ Like(Trim(c), y)) /\ (Trimmed(c) => Trimmed(y) /\ Like(c, y))
  <2>1. CASE "capitalize_pt_br" \notin steps
    BY <1>1, <1>5, <2>1, LikeItself
  <2>2. CASE "capitalize_pt_br" \in steps
    <3>1. y = Capitalize(c)
      BY <1>1, <2>2
    <3>2. y \in Seq(Glyph) /\ Trimmed(y) /\ Like(Trim(c), y)
      BY <1>5, <3>1, CapitalizeAgain
    <3>3. Trimmed(c) => Trim(c) = c
      BY <1>5, TrimmedFacts
    <3>. QED BY <3>2, <3>3
  <2>. QED BY <2>1, <2>2
<1>7. Trimmed(x) => Trimmed(y)
  BY <1>3, <1>5, <1>6
<1>8. Stems(x, y)
  <2>1. CASE b = x
    <3>1. Like(x, c) /\ Like(Trim(x), Trim(c))
      BY <1>4, <2>1, LikeTrim
    <3>. QED BY <1>6, <3>1, LikeAlso DEF Stems
  <2>2. CASE b # x
    <3>1. Like(c, y)
      BY <1>3, <1>5, <1>6, <2>2
    <3>2. Like(b, y)
      BY <1>4, <3>1, LikeAlso
    <3>. QED BY <1>3, <2>2, <3>2 DEF Stems
  <2>. QED BY <2>1, <2>2
<1>. QED
  BY <1>6, <1>7, <1>8

\* The steps of a value change nothing the second time.
LEMMA ScalarAgain ==
  ASSUME NEW x \in Seq(Glyph), NEW steps, "remove_suffixes" \notin steps,
         HidesName(x) => ~({"abbreviate", "remove_accents"} \subseteq steps),
         NEW y, y = NormalizeScalar(x, steps)
  PROVE  NormalizeScalar(y, steps) = y
<1>1. PICK a, b, c :
        /\ a = IF "remove_suffixes" \in steps THEN RemoveSuffixes(x) ELSE x
        /\ b = IF "abbreviate" \in steps THEN Abbreviate(a) ELSE a
        /\ c = IF "remove_accents" \in steps THEN RemoveAccents(b) ELSE b
        /\ NormalizeScalar(x, steps) = IF "capitalize_pt_br" \in steps THEN Capitalize(c) ELSE c
  BY ScalarSteps, Zenon
<1>a. \A z : \E d, e, f :
        /\ d = IF "remove_suffixes" \in steps THEN RemoveSuffixes(z) ELSE z
        /\ e = IF "abbreviate" \in steps THEN Abbreviate(d) ELSE d
        /\ f = IF "remove_accents" \in steps THEN RemoveAccents(e) ELSE e
        /\ NormalizeScalar(z, steps) = IF "capitalize_pt_br" \in steps THEN Capitalize(f) ELSE f
  BY ScalarSteps, Zenon
<1>2. PICK d, e, f :
        /\ d = IF "remove_suffixes" \in steps THEN RemoveSuffixes(y) ELSE y
        /\ e = IF "abbreviate" \in steps THEN Abbreviate(d) ELSE d
        /\ f = IF "remove_accents" \in steps THEN RemoveAccents(e) ELSE e
        /\ NormalizeScalar(y, steps) = IF "capitalize_pt_br" \in steps THEN Capitalize(f) ELSE f
  BY <1>a
<1>3. a = x /\ d = y
  BY <1>1, <1>2
<1>4. b \in Seq(Glyph) /\ ("abbreviate" \in steps => b = Abbreviate(x) /\ Trimmed(b))
  <2>1. CASE "abbreviate" \notin steps
    BY <1>1, <1>3, <2>1
  <2>2. CASE "abbreviate" \in steps
    <3>1. b = Abbreviate(x)
      BY <1>1, <1>3, <2>2
    <3>. QED BY <3>1, AbbreviateType
  <2>. QED BY <2>1, <2>2
<1>5. /\ Like(b, c) /\ c \in Seq(Glyph) /\ Len(c) = Len(b) /\ Len(c) \in Nat
      /\ "remove_accents" \in steps => \A i \in 1..Len(c) : c[i].accent = "none"
      /\ "remove_accents" \notin steps => c = b
  <2>1. CASE "remove_accents" \in steps
    <3>1. c = RemoveAccents(b)
      BY <1>1, <2>1
    <3>2. Like(b, c) /\ \A i \in 1..Len(b) : c[i].accent = "none"
      BY <1>4, <3>1, AccentsGone
    <3>3. c \in Seq(Glyph) /\ Len(b) = Len(c) /\ Len(b) \in Nat
      BY <3>2, LikeFacts
    <3>. QED BY <2>1, <3>2, <3>3
  <2>2. CASE "remove_accents" \notin steps
    <3>1. c = b
      BY <1>1, <2>2
    <3>. QED BY <1>4, <2>2, <3>1, LikeItself, LenProperties
  <2>. QED BY <2>1, <2>2
<1>6. PICK g : /\ g \in Seq(Glyph) /\ Like(g, y) /\ SameAccents(g, y) /\ y \in Seq(Glyph)
               /\ Trimmed(c) => g = c
               /\ "remove_accents" \in steps => \A i \in 1..Len(g) : g[i].accent = "none"
               /\ "capitalize_pt_br" \in steps => Capitalize(y) = y /\ y = Capitalize(c)
               /\ "capitalize_pt_br" \notin steps => y = c
  <2>1. CASE "capitalize_pt_br" \in steps
    <3>. PICK g : g = Trim(c)
      OBVIOUS
    <3>1. y = Capitalize(c)
      BY <1>1, <2>1
    <3>2. y \in Seq(Glyph) /\ Like(g, y) /\ SameAccents(g, y) /\ Capitalize(y) = y
      BY <1>5, <3>1, CapitalizeAgain
    <3>3. g \in Seq(Glyph) /\ (Trimmed(c) => g = c)
      BY <1>5, TrimmedFacts
    <3>4. "remove_accents" \in steps => \A i \in 1..Len(g) : g[i].accent = "none"
      <4>1. \A k \in DOMAIN g : \E i \in DOMAIN c : g[k] = c[i]
        BY <1>5, TrimType, ElementsOfAt
      <4>2. DOMAIN g = 1..Len(g) /\ DOMAIN c = 1..Len(c)
        BY <1>5, <3>3, LenProperties
      <4>. QED BY <1>5, <4>1, <4>2
    <3>. QED BY <2>1, <3>1, <3>2, <3>3, <3>4
  <2>2. CASE "capitalize_pt_br" \notin steps
    <3>1. y = c /\ Like(c, c) /\ SameAccents(c, c)
      BY <1>1, <1>5, <2>2, LikeItself DEF SameAccents
    <3>. QED BY <1>5, <2>2, <3>1
  <2>. QED BY <2>1, <2>2
<1>7. "remove_accents" \in steps => \A i \in 1..Len(y) : y[i].accent = "none"
  <2>1. Len(g) = Len(y)
    BY <1>6, LikeFacts
  <2>. QED BY <1>6, <2>1 DEF SameAccents
<1>8. e = y \/ e = b
  <2>1. CASE "abbreviate" \notin steps
    BY <1>2, <1>3, <2>1
  <2>2. CASE "abbreviate" \in steps
    <3>1. Trimmed(c)
      BY <1>4, <1>5, <2>2, LikeTrimmed
    <3>2. Like(b, y) /\ g = c
      BY <1>5, <1>6, <3>1, LikeAlso
    <3>3. SameAccents(b, y) \/ Alike(b, y)
      <4>1. CASE "remove_accents" \notin steps
        BY <1>5, <1>6, <3>2, <4>1
      <4>2. CASE "remove_accents" \in steps
        <5>1. Alike(x, x)
          BY <2>2, <4>2, LikeItself DEF Alike
        <5>2. ~HidesName(b)
          BY <1>4, <2>2, <5>1, AlikeAbbreviate DEF Alike
        <5>3. ~HidesName(y)
          <6>1. DOMAIN y = 1..Len(y)
            BY <1>6, LenProperties
          <6>2. \A i \in DOMAIN y : y[i] \in Glyph /\ Seen(y[i]).accent = "none"
            BY <1>6, <1>7, <4>2, <6>1, ElementOfSeq, SeenFacts
          <6>. QED BY <6>2 DEF HidesName
        <5>. QED BY <3>2, <5>2, <5>3 DEF Alike
      <4>. QED BY <4>1, <4>2
    <3>4. e = Abbreviate(y) /\ b = Abbreviate(x)
      BY <1>2, <1>3, <1>4, <2>2
    <3>. QED BY <3>2, <3>3, <3>4, AbbreviateAgain
  <2>. QED BY <2>1, <2>2
<1>9. CASE e = b
  BY <1>1, <1>2, <1>9
<1>10. CASE e = y
  <2>1. f = y
    BY <1>2, <1>6, <1>7, <1>10, NoAccents
  <2>. QED BY <1>2, <1>6, <2>1
<1>. QED
  BY <1>8, <1>9, <1>10

-------------------------------------------------------------------------------
(* Nulls.                                                                  *)

\* The words and marks of nulls.
LEMMA NullSigns ==
  ASSUME NEW z \in NULL_ALIASES, NEW i \in DOMAIN z
  PROVE  z[i].sign \in {"-", "n", "/", "a", "na", "nao", " ", "informado"}
<1>. DEFINE signs == {"-", "n", "/", "a", "na", "nao", " ", "informado"}
<1>1. \A k \in 1..1 : k = 1
  OBVIOUS
<1>2. \A k \in 1..2 : k = 1 \/ k = 2
  OBVIOUS
<1>3. \A k \in 1..3 : k = 1 \/ k = 2 \/ k = 3
  OBVIOUS
<1>4. z # <<>>
  OBVIOUS
<1>6. CASE z = Words(<<"-">>)
  <2>1. DOMAIN <<"-">> = 1..1 /\ 1 \in Nat
    OBVIOUS
  <2>2. <<"-">>[1] \in signs
    OBVIOUS
  <2>. HIDE DEF signs
  <2>3. \A k \in 1..1 : <<"-">>[k] \in signs
    BY <1>1, <2>2
  <2>4. DOMAIN z = 1..1 /\ \A k \in 1..1 : z[k].sign = <<"-">>[k]
    BY <1>6, <2>1, WordSigns
  <2>5. z[i].sign \in signs
    BY <2>3, <2>4
  <2>. QED BY <2>5 DEF signs
<1>7. CASE z = Words(<<"-", "-">>)
  <2>1. DOMAIN <<"-", "-">> = 1..2 /\ 2 \in Nat
    OBVIOUS
  <2>2. <<"-", "-">>[1] \in signs /\ <<"-", "-">>[2] \in signs
    OBVIOUS
  <2>. HIDE DEF signs
  <2>3. \A k \in 1..2 : <<"-", "-">>[k] \in signs
    BY <1>2, <2>2
  <2>4. DOMAIN z = 1..2 /\ \A k \in 1..2 : z[k].sign = <<"-", "-">>[k]
    BY <1>7, <2>1, WordSigns
  <2>5. z[i].sign \in signs
    BY <2>3, <2>4
  <2>. QED BY <2>5 DEF signs
<1>5. CASE z = Words(<<"n", "/", "a">>)
  <2>1. DOMAIN <<"n", "/", "a">> = 1..3 /\ 3 \in Nat
    OBVIOUS
  <2>2. <<"n", "/", "a">>[1] \in signs /\ <<"n", "/", "a">>[2] \in signs /\ <<"n", "/", "a">>[3] \in signs
    OBVIOUS
  <2>. HIDE DEF signs
  <2>3. \A k \in 1..3 : <<"n", "/", "a">>[k] \in signs
    BY <1>3, <2>2
  <2>4. DOMAIN z = 1..3 /\ \A k \in 1..3 : z[k].sign = <<"n", "/", "a">>[k]
    BY <1>5, <2>1, WordSigns
  <2>5. z[i].sign \in signs
    BY <2>3, <2>4
  <2>. QED BY <2>5 DEF signs
<1>8. CASE z = Words(<<"na">>)
  <2>1. DOMAIN <<"na">> = 1..1 /\ 1 \in Nat
    OBVIOUS
  <2>2. <<"na">>[1] \in signs
    OBVIOUS
  <2>. HIDE DEF signs
  <2>3. \A k \in 1..1 : <<"na">>[k] \in signs
    BY <1>1, <2>2
  <2>4. DOMAIN z = 1..1 /\ \A k \in 1..1 : z[k].sign = <<"na">>[k]
    BY <1>8, <2>1, WordSigns
  <2>5. z[i].sign \in signs
    BY <2>3, <2>4
  <2>. QED BY <2>5 DEF signs
<1>9. CASE z = Words(<<"nao", " ", "informado">>)
  <2>1. DOMAIN <<"nao", " ", "informado">> = 1..3 /\ 3 \in Nat
    OBVIOUS
  <2>2. <<"nao", " ", "informado">>[1] \in signs /\ <<"nao", " ", "informado">>[2] \in signs /\ <<"nao", " ", "informado">>[3] \in signs
    OBVIOUS
  <2>. HIDE DEF signs
  <2>3. \A k \in 1..3 : <<"nao", " ", "informado">>[k] \in signs
    BY <1>3, <2>2
  <2>4. DOMAIN z = 1..3 /\ \A k \in 1..3 : z[k].sign = <<"nao", " ", "informado">>[k]
    BY <1>9, <2>1, WordSigns
  <2>5. z[i].sign \in signs
    BY <2>3, <2>4
  <2>. QED BY <2>5 DEF signs
<1>. QED
  BY <1>4, <1>5, <1>6, <1>7, <1>8, <1>9 DEF NULL_ALIASES

LEMMA CourtIsNoNull ==
  ASSUME NEW sign \in Acronyms, NEW y, Like(Court(sign), y)
  PROVE  ~IsNullAlias(y) /\ Len(y) = 1 /\ y[1].sign = sign
<1>1. Len(Court(sign)) = 1 /\ Court(sign)[1] = Upper(sign)
  BY CourtType DEF Signs
<1>2. Court(sign)[1].sign = sign
  BY <1>1 DEF Upper
<1>3. y \in Seq(Glyph) /\ Len(y) = 1 /\ y[1].sign = sign
  BY <1>1, <1>2, LikeFacts
<1>4. Trim(y) = y
  BY <1>3, TrimmedSymbol, TrimmedFacts
<1>5. 1 \in DOMAIN Fold(y) /\ Fold(y)[1].sign = sign
  <2>1. DOMAIN y = 1..1
    BY <1>3, LenProperties
  <2>2. DOMAIN Fold(y) = 1..1 /\ y[1] \in Glyph /\ Fold(y)[1] = Folded(y[1]) /\ 1 \in 1..1
    <3>1. 1 \in DOMAIN y
      BY <2>1
    <3>. QED BY <1>3, <2>1, <3>1, FoldType
  <2>3. Folded(y[1]).sign = y[1].sign
    BY <2>2, FoldedFacts
  <2>. QED BY <1>3, <2>2, <2>3
<1>6. sign \notin {"-", "n", "/", "a", "na", "nao", " ", "informado"}
  BY DEF Acronyms
<1>7. Fold(Trim(y)) \notin NULL_ALIASES
  BY <1>4, <1>5, <1>6, NullSigns
<1>. QED
  BY <1>3, <1>7 DEF IsNullAlias

\* A value becomes no null.
LEMMA StemsNull ==
  ASSUME NEW x \in Seq(Glyph), NEW y, Stems(x, y), IsNullAlias(y)
  PROVE  IsNullAlias(x)
<1>1. CASE Like(x, y)
  BY <1>1, LikeTrim DEF Like, IsNullAlias
<1>2. CASE Like(Trim(x), y)
  <2>1. Trim(Trim(x)) = Trim(x)
    BY TrimAgain
  <2>. QED BY <1>2, <2>1, LikeTrim DEF Like, IsNullAlias
<1>. QED
  BY <1>1, <1>2, CourtIsNoNull DEF Stems

LEMMA TrimWhole ==
  ASSUME NEW x \in Seq(Glyph), NEW separators, Space \notin separators
  PROVE  Whole(Trim(x), separators) <=> Whole(x, separators)
<1>. PICK Q, p, n, t : Q = Kept(x) /\ p = InOrder(Q) /\ n = Cardinality(Q) /\ t = Trim(x)
  OBVIOUS
<1>1. /\ DOMAIN t = 1..n /\ \A k \in 1..n : t[k] = x[p[k]]
      /\ Ascending(p, n, Q) /\ Q \subseteq DOMAIN x
  BY TrimType, AtType
<1>2. Whole(x, separators) => Whole(t, separators)
  BY <1>1 DEF Whole, Ascending
<1>3. ASSUME Whole(t, separators), NEW i \in DOMAIN x, x[i] \in separators
      PROVE  FALSE
  <2>1. i \in Q
    BY <1>3 DEF Kept
  <2>2. PICK k \in 1..n : p[k] = i
    BY <1>1, <2>1 DEF Ascending
  <2>. QED BY <1>1, <1>3, <2>2 DEF Whole
<1>. QED
  BY <1>2, <1>3 DEF Whole

LEMMA LikeWhole ==
  ASSUME NEW u, NEW v, Like(u, v), NEW separators \in SUBSET {Bar, Slash}
  PROVE  Whole(u, separators) <=> Whole(v, separators)
<1>1. DOMAIN u = 1..Len(u) /\ DOMAIN v = 1..Len(u)
  BY LikeFacts
<1>2. \A i \in 1..Len(u) : u[i] \in separators <=> v[i] \in separators
  <2>1. \A i \in 1..Len(u) : (u[i] = Bar <=> v[i] = Bar) /\ (u[i] = Slash <=> v[i] = Slash)
    BY LikeSeparators
  <2>. QED BY <2>1
<1>. QED
  BY <1>1, <1>2 DEF Whole

\* A value becomes no list.
LEMMA StemsWhole ==
  ASSUME NEW x \in Seq(Glyph), NEW y, Stems(x, y), NEW separators \in SUBSET {Bar, Slash},
         Whole(x, separators)
  PROVE  Whole(y, separators)
<1>1. Space.sign = " " /\ Bar.sign = "|" /\ Slash.sign = "/"
  BY DEF Space, Bar, Slash, Mark
<1>2. CASE Like(x, y)
  BY <1>2, LikeWhole
<1>3. CASE Like(Trim(x), y)
  <2>1. Space \notin separators
    BY <1>1
  <2>2. Whole(Trim(x), separators)
    BY <2>1, TrimWhole
  <2>. QED BY <1>3, <2>2, LikeWhole
<1>4. ASSUME NEW sign \in Acronyms, Like(Court(sign), y)
      PROVE  Whole(y, separators)
  <2>1. Len(y) = 1 /\ y[1].sign = sign /\ y \in Seq(Glyph)
    BY <1>4, CourtIsNoNull DEF Like
  <2>2. DOMAIN y = 1..1 /\ \A i \in 1..1 : i = 1
    BY <2>1, LenProperties
  <2>3. sign # "|" /\ sign # "/"
    BY DEF Acronyms
  <2>4. y[1] \notin separators
    BY <1>1, <2>1, <2>3
  <2>. QED BY <2>2, <2>4 DEF Whole
<1>. QED
  BY <1>2, <1>3, <1>4 DEF Stems

-------------------------------------------------------------------------------
(* Values, a second time.                                                  *)

LEMMA EmptyText ==
  <<>> \in Seq(Glyph) /\ Trimmed(<<>>) /\ Trim(<<>>) = <<>> /\ ~HidesName(<<>>)
  /\ IsNullAlias(<<>>) /\ \A separators : Whole(<<>>, separators)
<1>1. <<>> \in Seq(Glyph) /\ DOMAIN <<>> = {}
  OBVIOUS
<1>2. Trimmed(<<>>)
  BY <1>1 DEF Trimmed, Kept
<1>3. Trim(<<>>) = <<>>
  BY <1>1, <1>2, TrimmedFacts
<1>4. Fold(<<>>) = <<>>
  BY <1>1 DEF Fold, Each
<1>5. IsNullAlias(<<>>)
  BY <1>3, <1>4 DEF IsNullAlias, NULL_ALIASES
<1>. QED
  BY <1>1, <1>2, <1>3, <1>5 DEF HidesName, Whole

LEMMA TokenByCases ==
  ASSUME NEW x, NEW steps, NEW t, t = IF "trim" \in steps THEN Trim(x) ELSE x
  PROVE  NormalizeToken(x, steps) =
           IF "nulls" \in steps /\ IsNullAlias(t) THEN <<>> ELSE NormalizeScalar(t, steps)
  BY DEF NormalizeToken

\* What a value is like that is left, and that it stays.
LEMMA TokenFacts ==
  ASSUME NEW x \in Seq(Glyph), NEW steps, "remove_suffixes" \notin steps,
         NEW w, w = NormalizeToken(x, steps)
  PROVE  /\ w \in Seq(Glyph)
         /\ "trim" \in steps => Trimmed(w)
         /\ \A separators \in SUBSET {Bar, Slash} : Whole(x, separators) => Whole(w, separators)
         /\ "nulls" \in steps /\ w # <<>> => ~IsNullAlias(w)
         /\ (HidesName(x) => ~({"abbreviate", "remove_accents"} \subseteq steps)) =>
              NormalizeToken(w, steps) = w
<1>. PICK t : t = IF "trim" \in steps THEN Trim(x) ELSE x
  OBVIOUS
<1>1. /\ t \in Seq(Glyph) /\ ("trim" \in steps => Trimmed(t))
      /\ HidesName(t) => HidesName(x)
      /\ \A separators \in SUBSET {Bar, Slash} : Whole(x, separators) => Whole(t, separators)
  <2>1. CASE "trim" \in steps
    <3>1. Space.sign = " " /\ Bar.sign = "|" /\ Slash.sign = "/"
      BY DEF Space, Bar, Slash, Mark
    <3>2. \A separators \in SUBSET {Bar, Slash} : Space \notin separators
      BY <3>1
    <3>. QED BY <2>1, <3>2, TrimmedFacts, TrimHidesNothing, TrimWhole
  <2>2. CASE "trim" \notin steps
    BY <2>2
  <2>. QED BY <2>1, <2>2
<1>2. CASE "nulls" \in steps /\ IsNullAlias(t)
  <2>1. w = <<>>
    BY <1>2, TokenByCases
  <2>2. NormalizeToken(w, steps) = w
    BY <1>2, <2>1, EmptyText, TokenByCases
  <2>. QED BY <2>1, <2>2, EmptyText
<1>3. CASE ~("nulls" \in steps /\ IsNullAlias(t))
  <2>1. w = NormalizeScalar(t, steps)
    BY <1>3, TokenByCases
  <2>2. w \in Seq(Glyph) /\ Stems(t, w) /\ (Trimmed(t) => Trimmed(w))
    BY <1>1, <2>1, ScalarShape
  <2>3. \A separators \in SUBSET {Bar, Slash} : Whole(x, separators) => Whole(w, separators)
    BY <1>1, <2>2, StemsWhole
  <2>4. "nulls" \in steps => ~IsNullAlias(w)
    BY <1>1, <1>3, <2>2, StemsNull
  <2>5. ASSUME HidesName(x) => ~({"abbreviate", "remove_accents"} \subseteq steps)
        PROVE  NormalizeToken(w, steps) = w
    <3>1. NormalizeScalar(w, steps) = w
      BY <1>1, <2>1, <2>5, ScalarAgain
    <3>2. "trim" \in steps => Trim(w) = w
      BY <1>1, <2>2, TrimmedFacts
    <3>3. w = IF "trim" \in steps THEN Trim(w) ELSE w
      BY <3>2
    <3>. QED BY <2>4, <3>1, <3>3, TokenByCases
  <2>. QED BY <1>1, <2>2, <2>3, <2>4, <2>5
<1>. QED
  BY <1>2, <1>3

-------------------------------------------------------------------------------
(* Lists, a second time.                                                   *)

\* The values of a list, before and after those without a text are left out.
Tokens(t, steps) ==
  [i \in DOMAIN SplitText(t, DEFAULT_SPLIT_SEPARATORS) |->
     NormalizeToken(SplitText(t, DEFAULT_SPLIT_SEPARATORS)[i], steps)]
Filled(tokens) == {i \in DOMAIN tokens : tokens[i] # <<>>}
Values(t, steps) == At(Tokens(t, steps), Filled(Tokens(t, steps)))

LEMMA CellByCases ==
  ASSUME NEW x, NEW steps, NEW t, t = IF "trim" \in steps THEN Trim(x) ELSE x
  PROVE  NormalizeCell(x, steps) =
           IF "split" \notin steps THEN NormalizeToken(x, steps)
           ELSE IF "nulls" \in steps /\ IsNullAlias(t) THEN <<>>
           ELSE Joined(Values(t, steps), Bar)
  BY DEF NormalizeCell, NormalizeSplitValues, Values, Tokens, Filled

LEMMA SeparatorsAre ==
  /\ DEFAULT_SPLIT_SEPARATORS \in SUBSET {Bar, Slash} /\ {Bar} \in SUBSET {Bar, Slash}
  /\ Bar \in DEFAULT_SPLIT_SEPARATORS /\ Bar \in Glyph /\ Bar # Space
<1>1. Space.sign = " " /\ Bar.sign = "|"
  BY DEF Space, Bar, Mark
<1>2. Bar \in Glyph
  <2>1. "|" \in Signs
    BY DEF Signs
  <2>. QED BY <2>1, MarkFacts DEF Bar
<1>. QED
  BY <1>1, <1>2 DEF DEFAULT_SPLIT_SEPARATORS

\* What holds of every value.
Settled(w, steps) ==
  /\ w \in Seq(Glyph) /\ w # <<>>
  /\ Whole(w, DEFAULT_SPLIT_SEPARATORS) /\ Whole(w, {Bar})
  /\ "trim" \in steps => Trimmed(w)
  /\ "nulls" \in steps => ~IsNullAlias(w)

LEMMA WholeLess ==
  ASSUME NEW u, Whole(u, DEFAULT_SPLIT_SEPARATORS)
  PROVE  Whole(u, {Bar})
  BY SeparatorsAre DEF Whole

\* The values of a list are settled, but for those without a text.
LEMMA TokensType ==
  ASSUME NEW t \in Seq(Glyph), NEW steps, NEW k, k = Tokens(t, steps), "remove_suffixes" \notin steps
  PROVE  /\ k \in Seq(Seq(Glyph))
         /\ \A i \in DOMAIN k :
              /\ k[i] # <<>> => Settled(k[i], steps)
              /\ (HidesName(t) => ~({"abbreviate", "remove_accents"} \subseteq steps)) =>
                   NormalizeToken(k[i], steps) = k[i]
<1>. PICK c : c = SplitText(t, DEFAULT_SPLIT_SEPARATORS)
  OBVIOUS
<1>1. /\ Len(c) \in Nat /\ DOMAIN c = 1..Len(c)
      /\ \A i \in DOMAIN c : c[i] \in Seq(Glyph) /\ Whole(c[i], DEFAULT_SPLIT_SEPARATORS)
  BY SplitType
<1>2. k = [i \in DOMAIN c |-> NormalizeToken(c[i], steps)]
  BY DEF Tokens
<1>3. \A i \in DOMAIN c : HidesName(c[i]) => HidesName(t)
  <2>1. SUFFICES ASSUME ~HidesName(t)
                 PROVE  \A i \in DOMAIN c : ~HidesName(c[i])
    OBVIOUS
  <2>2. Alike(t, t)
    BY <2>1, LikeItself DEF Alike
  <2>3. \A i \in DOMAIN c : Alike(c[i], c[i])
    BY <2>2, LikeSplit, SeparatorsAre DEF Alike
  <2>. QED BY <2>3 DEF Alike
<1>4. ASSUME NEW i \in DOMAIN c
      PROVE  /\ k[i] \in Seq(Glyph)
             /\ k[i] # <<>> => Settled(k[i], steps)
             /\ (HidesName(t) => ~({"abbreviate", "remove_accents"} \subseteq steps)) =>
                  NormalizeToken(k[i], steps) = k[i]
  <2>. PICK x, w : x = c[i] /\ w = k[i]
    OBVIOUS
  <2>1. x \in Seq(Glyph) /\ Whole(x, DEFAULT_SPLIT_SEPARATORS) /\ w = NormalizeToken(x, steps)
        /\ (HidesName(x) => HidesName(t))
    BY <1>1, <1>2, <1>3
  <2>2. /\ w \in Seq(Glyph)
        /\ "trim" \in steps => Trimmed(w)
        /\ "nulls" \in steps /\ w # <<>> => ~IsNullAlias(w)
        /\ (HidesName(x) => ~({"abbreviate", "remove_accents"} \subseteq steps)) =>
             NormalizeToken(w, steps) = w
    BY <2>1, TokenFacts
  <2>3. Whole(w, DEFAULT_SPLIT_SEPARATORS)
    BY <2>1, TokenFacts, SeparatorsAre
  <2>4. Whole(w, {Bar})
    BY <2>3, WholeLess
  <2>. QED BY <2>1, <2>2, <2>3, <2>4 DEF Settled
<1>5. k \in Seq(Seq(Glyph)) /\ DOMAIN k = DOMAIN c
  <2>. PICK n : n = Len(c)
    OBVIOUS
  <2>1. n \in Nat /\ k \in [1..n -> Seq(Glyph)]
    BY <1>1, <1>2, <1>4
  <2>. QED BY <1>2, <2>1
<1>. QED
  BY <1>4, <1>5

\* Those that are joined are settled.
LEMMA ValuesType ==
  ASSUME NEW t \in Seq(Glyph), NEW steps, NEW v, v = Values(t, steps), "remove_suffixes" \notin steps
  PROVE  /\ v \in Seq(Seq(Glyph))
         /\ \A i \in DOMAIN v :
              /\ Settled(v[i], steps)
              /\ (HidesName(t) => ~({"abbreviate", "remove_accents"} \subseteq steps)) =>
                   NormalizeToken(v[i], steps) = v[i]
<1>. PICK k, Q, p, n : /\ k = Tokens(t, steps) /\ Q = Filled(k)
                       /\ p = InOrder(Q) /\ n = Cardinality(Q)
  OBVIOUS
<1>1. k \in Seq(Seq(Glyph)) /\ Q \in SUBSET DOMAIN k /\ v = At(k, Q)
  BY TokensType DEF Filled, Values
<1>2. /\ v \in Seq(Seq(Glyph)) /\ DOMAIN v = 1..n
      /\ \A i \in 1..n : v[i] = k[p[i]]
      /\ Ascending(p, n, Q)
  BY <1>1, AtType
<1>3. \A i \in 1..n : p[i] \in DOMAIN k /\ k[p[i]] # <<>>
  BY <1>2 DEF Ascending, Filled
<1>4. \A j \in DOMAIN k :
        /\ k[j] # <<>> => Settled(k[j], steps)
        /\ (HidesName(t) => ~({"abbreviate", "remove_accents"} \subseteq steps)) =>
             NormalizeToken(k[j], steps) = k[j]
  BY TokensType
<1>. QED
  BY <1>2, <1>3, <1>4

LEMMA JoinedText ==
  ASSUME NEW pieces \in Seq(Seq(Glyph)), pieces # <<>>, NEW mark \in Glyph
  PROVE  Joined(pieces, mark) \in Seq(Glyph)
<1>. PICK n : n = Len(pieces)
  OBVIOUS
<1>1. n \in 1..n
  BY LenProperties, EmptySeq
<1>2. PICK join : Joins(join, pieces, mark, n) /\ Joined(pieces, mark) = join[n]
  BY JoinedType
<1>. QED
  BY <1>1, <1>2 DEF Joins

\* A list of values comes apart as it was put together.
LEMMA ValuesSplit ==
  ASSUME NEW v \in Seq(Seq(Glyph)), NEW steps, v # <<>>,
         \A i \in DOMAIN v : Settled(v[i], steps)
  PROVE  LET new == Joined(v, Bar)
         IN  /\ SplitText(new, {Bar}) = v /\ SplitText(new, DEFAULT_SPLIT_SEPARATORS) = v
             /\ new \in Seq(Glyph) /\ ("trim" \in steps => Trim(new) = new)
<1>0. Bar \in Glyph /\ \A i \in DOMAIN v : /\ Whole(v[i], {Bar})
                                          /\ Whole(v[i], DEFAULT_SPLIT_SEPARATORS)
  BY SeparatorsAre DEF Settled
<1>1. SplitText(Joined(v, Bar), {Bar}) = v
  <2>1. Bar \in {Bar}
    OBVIOUS
  <2>. QED BY <1>0, <2>1, SplitOfJoin
<1>2. SplitText(Joined(v, Bar), DEFAULT_SPLIT_SEPARATORS) = v
  <2>1. Bar \in DEFAULT_SPLIT_SEPARATORS
    BY SeparatorsAre
  <2>. QED BY <1>0, <2>1, SplitOfJoin
<1>3. "trim" \in steps => Joined(v, Bar) \in Seq(Glyph) /\ Trimmed(Joined(v, Bar))
  BY TrimmedJoined, SeparatorsAre DEF Settled
<1>4. Joined(v, Bar) \in Seq(Glyph)
  BY <1>0, JoinedText
<1>. QED
  BY <1>1, <1>2, <1>3, <1>4, TrimmedFacts

\* No value of a list is a null when it comes out.
LEMMA NullsGoneFromText ==
  ASSUME NEW x \in Seq(Glyph), NEW steps, "remove_suffixes" \notin steps,
         {"nulls", "split"} \subseteq steps,
         NEW new, new = NormalizeCell(x, steps), new # <<>>,
         NEW i \in DOMAIN SplitText(new, {Bar})
  PROVE  ~IsNullAlias(SplitText(new, {Bar})[i])
<1>. PICK t : t = IF "trim" \in steps THEN Trim(x) ELSE x
  OBVIOUS
<1>. PICK v : v = Values(t, steps)
  OBVIOUS
<1>1. t \in Seq(Glyph)
  BY TrimType
<1>2. new = Joined(v, Bar)
  BY CellByCases
<1>3. v # <<>>
  BY <1>2 DEF Joined
<1>4. v \in Seq(Seq(Glyph)) /\ \A k \in DOMAIN v : Settled(v[k], steps)
  BY <1>1, ValuesType
<1>5. SplitText(new, {Bar}) = v
  BY <1>2, <1>3, <1>4, ValuesSplit
<1>. QED
  BY <1>4, <1>5 DEF Settled

LEMMA WordsLength == Len(Words(<<"tribunal", " ", "de", " ", "justica">>)) = 5
<1>1. \A n \in Nat : \A f : DOMAIN f = 1..n => Len([i \in DOMAIN f |-> IF f[i] \in {" ", "-", "/"} THEN Mark(f[i]) ELSE Lower(f[i])]) = n
  OBVIOUS
<1>2. DOMAIN <<"tribunal", " ", "de", " ", "justica">> = 1..5
  OBVIOUS
<1>. QED
  BY <1>1, <1>2 DEF Words

\* A null is no list of values.
LEMMA NullWhole ==
  ASSUME NEW new \in Seq(Glyph), IsNullAlias(new),
         NEW v, SplitText(new, {Bar}) = v
  PROVE  v = <<new>>
<1>1. Whole(Fold(Trim(new)), {Bar})
  <2>1. Fold(Trim(new)) \in NULL_ALIASES
    BY DEF IsNullAlias
  <2>2. Bar.sign = "|"
    BY DEF Bar, Mark
  <2>. QED BY <2>1, <2>2, NullSigns DEF Whole
<1>2. Space \notin {Bar}
  BY SeparatorsAre
<1>3. Like(Trim(new), Fold(Trim(new)))
  BY TrimType, FoldType
<1>4. Whole(new, {Bar})
  BY <1>1, <1>2, <1>3, LikeWhole, TrimWhole, SeparatorsAre
<1>. QED
  BY <1>4, SplitWhole

\* Nothing comes of nothing.
LEMMA EmptyAgain ==
  ASSUME NEW steps, "remove_suffixes" \notin steps
  PROVE  NormalizeToken(<<>>, steps) = <<>> /\ NormalizeCell(<<>>, steps) = <<>>
<1>. DEFINE empty == <<>>
<1>1. NormalizeToken(<<>>, steps) = <<>>
  <2>1. Abbreviate(<<>>) = <<>>
    <3>1. CASE Abbreviate(<<>>) = Trim(<<>>)
      BY <3>1, EmptyText
    <3>2. FirstAcronym(<<>>) = 0
      BY EmptyText DEF FirstAcronym
    <3>3. ~Region(<<>>)
      <4>1. PICK z : z = <<>>
        OBVIOUS
      <4>2. z \in Seq(Glyph) /\ Len(z) = 0
        BY <4>1, EmptyText
      <4>. QED BY <4>1, <4>2, NoRegion
    <3>4. ~NamesTribunal(Fold(<<>>))
      <4>1. Fold(<<>>) \in Seq(Glyph) /\ Len(Fold(<<>>)) = 0
        BY EmptyText, FoldType
      <4>. PICK x : x = Fold(<<>>)
        OBVIOUS
      <4>2. PICK s : s = Words(<<"tribunal", " ", "de", " ", "justica">>)
        OBVIOUS
      <4>3. Len(s) = 5
        BY <4>2, WordsLength, Zenon
      <4>4. Len(s) \in Nat /\ Len(s) > Len(x)
        BY <4>1, <4>3
      <4>5. ~Within(s, x)
        BY <4>1, <4>4, LongPhrase
      <4>. QED BY <4>2, <4>5 DEF NamesTribunal
    <3>. QED BY <3>2, <3>3, <3>4, EmptyText, AbbreviateByCases
  <2>2. RemoveAccents(<<>>) = <<>>
    <3>1. DOMAIN <<>> = {}
      OBVIOUS
    <3>. QED BY <3>1 DEF RemoveAccents, Each
  <2>3. Capitalize(<<>>) = <<>>
    <3>1. PICK z : z = <<>>
      OBVIOUS
    <3>a. PICK y : y = Capitalize(z)
      OBVIOUS
    <3>2. z \in Seq(Glyph) /\ Trim(z) = z /\ Len(z) = 0
      BY <3>1, EmptyText
    <3>3. y \in Seq(Glyph) /\ Like(z, y)
      BY <3>a, <3>2, CapitalizeAgain
    <3>4. Len(y) = 0
      BY <3>2, <3>3, LikeFacts
    <3>. QED BY <3>1, <3>a, <3>3, <3>4, EmptySeq
  <2>4. NormalizeScalar(<<>>, steps) = <<>>
    BY <2>1, <2>2, <2>3 DEF NormalizeScalar
  <2>5. <<>> = IF "trim" \in steps THEN Trim(<<>>) ELSE <<>>
    BY EmptyText
  <2>. QED BY <2>4, <2>5, TokenByCases
<1>2. SplitText(<<>>, DEFAULT_SPLIT_SEPARATORS) = <<empty>>
  BY EmptyText, SplitWhole
<1>3. Tokens(<<>>, steps) = [i \in 1..1 |-> empty]
  <2>1. DOMAIN <<empty>> = 1..1 /\ \A i \in 1..1 : <<empty>>[i] = empty
    OBVIOUS
  <2>. QED BY <1>1, <1>2, <2>1 DEF Tokens
<1>4. Filled(Tokens(<<>>, steps)) = {}
  BY <1>3 DEF Filled
<1>5. Values(<<>>, steps) = <<>>
  <2>. PICK k : k = Tokens(<<>>, steps)
    OBVIOUS
  <2>1. k \in Seq(Seq(Glyph)) /\ {} \in SUBSET DOMAIN k
    BY EmptyText, TokensType
  <2>2. Len(At(k, {})) = Cardinality({}) /\ At(k, {}) \in Seq(Seq(Glyph))
    BY <2>1, AtType
  <2>3. At(k, {}) = <<>>
    BY <2>2, FS_EmptySet, EmptySeq
  <2>. QED BY <1>4, <2>3 DEF Values
<1>6. Joined(<<>>, Bar) = <<>>
  BY DEF Joined
<1>7. <<>> = IF "trim" \in steps THEN Trim(<<>>) ELSE <<>>
  BY EmptyText
<1>. QED
  BY <1>1, <1>5, <1>6, <1>7, CellByCases

\* A cell that was normalized stays as it is.
LEMMA CellAgain ==
  ASSUME NEW x \in Seq(Glyph), NEW steps, "remove_suffixes" \notin steps,
         HidesName(x) => ~({"abbreviate", "remove_accents"} \subseteq steps),
         NEW new, new = NormalizeCell(x, steps)
  PROVE  NormalizeCell(new, steps) = new
<1>. PICK t : t = IF "trim" \in steps THEN Trim(x) ELSE x
  OBVIOUS
<1>. PICK v : v = Values(t, steps)
  OBVIOUS
<1>1. t \in Seq(Glyph) /\ (HidesName(t) => HidesName(x))
  BY TrimType, TrimHidesNothing
<1>2. CASE "split" \notin steps
  <2>1. new = NormalizeToken(x, steps)
    BY <1>2, CellByCases
  <2>2. NormalizeToken(new, steps) = new
    BY <2>1, TokenFacts
  <2>. QED BY <1>2, <2>2, CellByCases
<1>3. CASE new = <<>>
  BY <1>3, EmptyAgain
<1>4. CASE "split" \in steps /\ new # <<>>
  <2>1. new = Joined(v, Bar)
    BY <1>4, CellByCases
  <2>2. v # <<>>
    BY <1>4, <2>1 DEF Joined
  <2>3. /\ v \in Seq(Seq(Glyph))
        /\ \A i \in DOMAIN v : Settled(v[i], steps) /\ NormalizeToken(v[i], steps) = v[i]
    BY <1>1, ValuesType
  <2>4. /\ SplitText(new, {Bar}) = v /\ SplitText(new, DEFAULT_SPLIT_SEPARATORS) = v
        /\ new \in Seq(Glyph) /\ ("trim" \in steps => Trim(new) = new)
    BY <2>1, <2>2, <2>3, ValuesSplit
  <2>5. new = IF "trim" \in steps THEN Trim(new) ELSE new
    BY <2>4
  <2>6. Tokens(new, steps) = v
    <3>1. Tokens(new, steps) = [i \in DOMAIN v |-> v[i]]
      BY <2>3, <2>4 DEF Tokens
    <3>2. v = [i \in DOMAIN v |-> v[i]]
      BY <2>3
    <3>. QED BY <3>1, <3>2
  <2>7. Values(new, steps) = v
    <3>1. Filled(v) = DOMAIN v
      BY <2>3 DEF Filled, Settled
    <3>. QED BY <2>3, <2>6, <3>1, AtAll DEF Values
  <2>8. ASSUME "nulls" \in steps, IsNullAlias(new)
        PROVE  FALSE
    <3>1. v = <<new>>
      BY <2>4, <2>8, NullWhole
    <3>2. 1 \in DOMAIN v /\ v[1] = new
      BY <3>1
    <3>. QED BY <2>3, <2>8, <3>2 DEF Settled
  <2>. QED BY <1>4, <2>1, <2>5, <2>7, <2>8, CellByCases
<1>. QED
  BY <1>2, <1>3, <1>4

-------------------------------------------------------------------------------
(* Where words come from.                                                  *)

\* The plain words of u, in order, each with one of v between two places.
Embeds(e, u, v, lo, hi) ==
  /\ e \in [Plain(u) -> DOMAIN v]
  /\ \A i, j \in Plain(u) : i < j => e[i] < e[j]
  /\ \A i \in Plain(u) : Folded(u[i]) = Folded(v[e[i]]) /\ lo < e[i] /\ e[i] < hi

FromIn(u, v, lo, hi) ==
  u \in Seq(Glyph) /\ v \in Seq(Glyph) /\ \E e : Embeds(e, u, v, lo, hi)

From(u, v) == FromIn(u, v, 0, Len(v) + 1)

LEMMA PlainFacts ==
  ASSUME NEW u \in Seq(Glyph)
  PROVE  /\ Len(u) \in Nat /\ Plain(u) \subseteq 1..Len(u) /\ DOMAIN u = 1..Len(u)
         /\ \A i \in DOMAIN u : u[i] \in Glyph
         /\ \A i \in DOMAIN u : i \in Plain(u) <=> u[i].case # "none" /\ u[i].sign \notin Acronyms
<1>1. Len(u) \in Nat /\ DOMAIN u = 1..Len(u) /\ \A i \in DOMAIN u : u[i] \in Glyph
  BY LenProperties, ElementOfSeq
<1>. QED
  BY <1>1 DEF Plain, IsWord

\* A plain word has only plain spellings.
LEMMA SamePlain ==
  ASSUME NEW u \in Seq(Glyph), NEW v \in Seq(Glyph), NEW i \in Plain(u), NEW j \in DOMAIN v,
         Folded(u[i]) = Folded(v[j])
  PROVE  j \in Plain(v)
<1>1. u[i] \in Glyph /\ v[j] \in Glyph /\ u[i].case # "none" /\ u[i].sign \notin Acronyms
  BY PlainFacts
<1>2. u[i].sign = v[j].sign /\ (u[i].case = "none" <=> v[j].case = "none")
  BY <1>1, SameFolded
<1>. QED
  BY <1>1, <1>2, PlainFacts

LEMMA FromNothing ==
  ASSUME NEW u \in Seq(Glyph), NEW v \in Seq(Glyph), NEW lo, NEW hi, Plain(u) = {}
  PROVE  FromIn(u, v, lo, hi)
<1>1. Embeds([i \in {} |-> i], u, v, lo, hi)
  BY DEF Embeds
<1>. QED
  BY <1>1 DEF FromIn

LEMMA FromCourt ==
  ASSUME NEW sign \in Acronyms, NEW v \in Seq(Glyph)
  PROVE  From(Court(sign), v)
<1>1. Court(sign) \in Seq(Glyph) /\ DOMAIN Court(sign) = 1..1 /\ Court(sign)[1] = Upper(sign)
  BY CourtType DEF Signs
<1>2. Court(sign)[1].sign = sign /\ \A i \in 1..1 : i = 1
  BY <1>1 DEF Upper
<1>3. Plain(Court(sign)) = {}
  BY <1>1, <1>2 DEF Plain
<1>. QED
  BY <1>1, <1>3, FromNothing DEF From

LEMMA FromLike ==
  ASSUME NEW u, NEW v, Like(u, v)
  PROVE  From(u, v)
<1>1. /\ u \in Seq(Glyph) /\ v \in Seq(Glyph) /\ Len(u) = Len(v) /\ Len(u) \in Nat
      /\ DOMAIN u = 1..Len(u) /\ DOMAIN v = 1..Len(u)
      /\ \A i \in 1..Len(u) : Folded(u[i]) = Folded(v[i])
  BY LikeFacts
<1>2. Plain(u) \subseteq 1..Len(u)
  BY <1>1 DEF Plain
<1>3. Embeds([i \in Plain(u) |-> i], u, v, 0, Len(v) + 1)
  BY <1>1, <1>2 DEF Embeds
<1>. QED
  BY <1>1, <1>3 DEF From, FromIn

\* What comes from what came from a text comes from it.
LEMMA FromFrom ==
  ASSUME NEW u, NEW v, NEW w, NEW lo, NEW hi, From(u, v), FromIn(v, w, lo, hi)
  PROVE  FromIn(u, w, lo, hi)
<1>1. u \in Seq(Glyph) /\ v \in Seq(Glyph) /\ w \in Seq(Glyph)
  BY DEF From, FromIn
<1>2. PICK d : Embeds(d, u, v, 0, Len(v) + 1)
  BY DEF From, FromIn
<1>3. PICK e : Embeds(e, v, w, lo, hi)
  BY DEF FromIn
<1>4. ASSUME NEW i \in Plain(u)
      PROVE  d[i] \in Plain(v) /\ d[i] \in Nat /\ i \in Nat
  <2>1. d[i] \in DOMAIN v /\ Folded(u[i]) = Folded(v[d[i]])
    BY <1>2 DEF Embeds
  <2>2. d[i] \in Plain(v)
    BY <1>1, <2>1, SamePlain
  <2>. QED BY <1>1, <2>2, PlainFacts
<1>. DEFINE f == [i \in Plain(u) |-> e[d[i]]]
<1>5. f \in [Plain(u) -> DOMAIN w]
  BY <1>3, <1>4 DEF Embeds
<1>6. \A i, j \in Plain(u) : i < j => f[i] < f[j]
  BY <1>2, <1>3, <1>4 DEF Embeds
<1>7. \A i \in Plain(u) : Folded(u[i]) = Folded(w[f[i]]) /\ lo < f[i] /\ f[i] < hi
  BY <1>2, <1>3, <1>4 DEF Embeds
<1>8. Embeds(f, u, w, lo, hi)
  BY <1>5, <1>6, <1>7 DEF Embeds
<1>. QED
  BY <1>1, <1>8 DEF FromIn

LEMMA FromTrim ==
  ASSUME NEW x \in Seq(Glyph)
  PROVE  From(Trim(x), x)
<1>1. PICK Q, p, n, t : Q = Kept(x) /\ p = InOrder(Q) /\ n = Cardinality(Q) /\ t = Trim(x)
  OBVIOUS
<1>2. /\ t \in Seq(Glyph) /\ DOMAIN t = 1..n /\ \A k \in 1..n : t[k] = x[p[k]]
      /\ Ascending(p, n, Q) /\ Q \subseteq DOMAIN x
  BY <1>1, TrimType, AtType
<1>3. Plain(t) \subseteq 1..n
  BY <1>2 DEF Plain
<1>4. Len(x) \in Nat /\ DOMAIN x = 1..Len(x)
  BY LenProperties
<1>5. \A k \in 1..n : p[k] \in DOMAIN x /\ 0 < p[k] /\ p[k] < Len(x) + 1
  BY <1>2, <1>4 DEF Ascending
<1>6. \A k, l \in 1..n : k < l => p[k] < p[l]
  BY <1>2 DEF Ascending
<1>7. Embeds([k \in Plain(t) |-> p[k]], t, x, 0, Len(x) + 1)
  BY <1>2, <1>3, <1>5, <1>6 DEF Embeds
<1>. QED
  BY <1>1, <1>2, <1>7 DEF From, FromIn

\* A piece comes from between its ends.
LEMMA FromPiece ==
  ASSUME NEW x \in Seq(Glyph), NEW a \in Nat, NEW b \in Nat, b <= Len(x) + 1
  PROVE  FromIn(SubSeq(x, a + 1, b - 1), x, a, b)
<1>1. PICK c, d, n : c = a + 1 /\ d = b - 1 /\ n = (IF c <= d THEN d - c + 1 ELSE 0)
  OBVIOUS
<1>2. Len(x) \in Nat /\ c \in Int /\ d \in Int /\ c >= 1 /\ d <= Len(x)
  BY <1>1, LenProperties
<1>3. PICK u : u = SubSeq(x, c, d)
  OBVIOUS
<1>4. /\ u \in Seq(Glyph) /\ n \in Nat /\ DOMAIN u = 1..n
      /\ \A j \in 1..n : c + j - 1 \in c..d /\ c + j - 1 \in DOMAIN x /\ u[j] = x[c + j - 1]
  <2>1. /\ SubSeq(x, c, d) \in Seq(Glyph) /\ n \in Nat /\ DOMAIN SubSeq(x, c, d) = 1..n
        /\ \A j \in 1..n : c + j - 1 \in c..d /\ c + j - 1 \in DOMAIN x
                           /\ SubSeq(x, c, d)[j] = x[c + j - 1]
    BY <1>1, <1>2, PieceType
  <2>. QED BY <1>3, <2>1
<1>5. Plain(u) \subseteq 1..n
  BY <1>4 DEF Plain
<1>. DEFINE e == [j \in Plain(u) |-> c + j - 1]
<1>6. e \in [Plain(u) -> DOMAIN x]
  BY <1>4, <1>5
<1>7. \A i, j \in Plain(u) : i < j => e[i] < e[j]
  BY <1>2, <1>4, <1>5
<1>8. \A j \in Plain(u) : Folded(u[j]) = Folded(x[e[j]]) /\ a < e[j] /\ e[j] < b
  <2>1. \A j \in 1..n : a < c + j - 1 /\ c + j - 1 < b
    BY <1>1, <1>2, <1>4
  <2>. QED BY <1>4, <1>5, <2>1
<1>9. Embeds(e, u, x, a, b)
  BY <1>6, <1>7, <1>8 DEF Embeds
<1>10. FromIn(u, x, a, b)
  BY <1>4, <1>9 DEF FromIn
<1>. QED
  BY <1>1, <1>3, <1>10

LEMMA FromWider ==
  ASSUME NEW u, NEW v, NEW lo \in Int, NEW hi \in Int, NEW l \in Int, NEW h \in Int,
         l <= lo, hi <= h, FromIn(u, v, lo, hi)
  PROVE  FromIn(u, v, l, h)
<1>1. PICK e : Embeds(e, u, v, lo, hi)
  BY DEF FromIn
<1>2. DOMAIN v \subseteq Nat
  BY LenProperties DEF FromIn
<1>3. \A i \in Plain(u) : e[i] \in Int
  BY <1>1, <1>2 DEF Embeds
<1>4. \A i \in Plain(u) : lo < e[i] /\ e[i] < hi => l < e[i] /\ e[i] < h
  BY <1>3
<1>5. Embeds(e, u, v, l, h)
  BY <1>1, <1>4 DEF Embeds
<1>. QED
  BY <1>5 DEF FromIn

\* What comes from one place and what comes from later.
LEMMA FromAppend ==
  ASSUME NEW x, NEW u, NEW v, NEW s \in Glyph, s.case = "none",
         NEW lo \in Int, NEW m \in Int, NEW n \in Int, NEW hi \in Int,
         lo <= n, m <= n, m <= hi,
         FromIn(u, x, lo, m), FromIn(v, x, n, hi)
  PROVE  FromIn(u \o <<s>> \o v, x, lo, hi)
<1>1. PICK w, a, b : w = u \o <<s>> \o v /\ a = Len(u) /\ b = Len(v)
  OBVIOUS
<1>2. u \in Seq(Glyph) /\ v \in Seq(Glyph) /\ x \in Seq(Glyph)
  BY DEF FromIn
<1>3. /\ w \in Seq(Glyph) /\ Len(w) = a + b + 1 /\ a \in Nat /\ b \in Nat
      /\ DOMAIN w = 1..a + b + 1 /\ DOMAIN u = 1..a /\ DOMAIN v = 1..b
      /\ Len(u) = a /\ Len(v) = b
  BY <1>1, <1>2, ConcatType, LenProperties
<1>4. /\ \A i \in 1..a : w[i] = u[i]
      /\ w[a + 1] = s
      /\ \A i \in 1..b : w[a + 1 + i] = v[i]
  BY <1>1, <1>2, ConcatType
<1>5. PICK d : Embeds(d, u, x, lo, m)
  BY DEF FromIn
<1>6. PICK e : Embeds(e, v, x, n, hi)
  BY DEF FromIn
<1>7. Plain(u) \subseteq 1..a /\ Plain(v) \subseteq 1..b /\ DOMAIN x \subseteq Nat
  BY <1>2, <1>3, PlainFacts, LenProperties
<1>8. ASSUME NEW i \in Plain(w)
      PROVE  \/ i \in Plain(u) /\ i <= a /\ w[i] = u[i]
             \/ i - (a + 1) \in Plain(v) /\ ~(i <= a) /\ w[i] = v[i - (a + 1)]
  <2>1. i \in 1..a + b + 1
    BY <1>3 DEF Plain
  <2>2. CASE i \in 1..a
    BY <1>3, <1>4, <2>2 DEF Plain
  <2>3. CASE i = a + 1
    BY <1>4, <2>3 DEF Plain, IsWord
  <2>4. CASE i > a + 1
    <3>. PICK k : k = i - (a + 1)
      OBVIOUS
    <3>1. k \in 1..b /\ a + 1 + k = i /\ ~(i <= a)
      BY <1>3, <2>1, <2>4
    <3>2. w[i] = v[k]
      BY <1>4, <3>1
    <3>3. k \in Plain(v)
      BY <1>3, <3>1, <3>2 DEF Plain
    <3>. QED BY <3>1, <3>2, <3>3
  <2>. QED BY <1>3, <2>1, <2>2, <2>3, <2>4
<1>. DEFINE f == [i \in Plain(w) |-> IF i <= a THEN d[i] ELSE e[i - (a + 1)]]
<1>9. Plain(w) \subseteq Nat
  BY <1>3, PlainFacts
<1>10. \A i \in Plain(u) : /\ d[i] \in DOMAIN x /\ d[i] \in Nat /\ lo < d[i] /\ d[i] < m
                           /\ Folded(u[i]) = Folded(x[d[i]])
  BY <1>5, <1>7 DEF Embeds
<1>11. \A i \in Plain(v) : /\ e[i] \in DOMAIN x /\ e[i] \in Nat /\ n < e[i] /\ e[i] < hi
                           /\ Folded(v[i]) = Folded(x[e[i]])
  BY <1>6, <1>7 DEF Embeds
<1>12. ASSUME NEW i \in Plain(w)
       PROVE  /\ f[i] \in DOMAIN x /\ f[i] \in Nat /\ lo < f[i] /\ f[i] < hi
              /\ Folded(w[i]) = Folded(x[f[i]])
  <2>1. CASE i \in Plain(u) /\ i <= a /\ w[i] = u[i]
    <3>1. f[i] = d[i]
      BY <2>1
    <3>. QED BY <1>10, <2>1, <3>1
  <2>2. CASE i - (a + 1) \in Plain(v) /\ ~(i <= a) /\ w[i] = v[i - (a + 1)]
    <3>1. f[i] = e[i - (a + 1)]
      BY <2>2
    <3>. QED BY <1>11, <2>2, <3>1
  <2>. QED BY <1>8, <2>1, <2>2
<1>13. ASSUME NEW i \in Plain(w), NEW j \in Plain(w), i < j
       PROVE  f[i] < f[j]
  <2>1. i \in Nat /\ j \in Nat
    BY <1>9
  <2>2. CASE j <= a
    <3>1. i \in Plain(u) /\ j \in Plain(u) /\ f[i] = d[i] /\ f[j] = d[j]
      BY <1>3, <1>8, <1>13, <2>1, <2>2
    <3>. QED BY <1>5, <1>13, <3>1 DEF Embeds
  <2>3. CASE i <= a /\ ~(j <= a)
    <3>1. i \in Plain(u) /\ j - (a + 1) \in Plain(v) /\ f[i] = d[i] /\ f[j] = e[j - (a + 1)]
      BY <1>8, <2>3
    <3>2. d[i] < m /\ n < e[j - (a + 1)] /\ d[i] \in Nat /\ e[j - (a + 1)] \in Nat
      BY <1>10, <1>11, <3>1
    <3>. QED BY <3>1, <3>2
  <2>4. CASE ~(i <= a)
    <3>1. ~(j <= a)
      BY <1>3, <1>13, <2>1, <2>4
    <3>2. /\ i - (a + 1) \in Plain(v) /\ j - (a + 1) \in Plain(v)
          /\ f[i] = e[i - (a + 1)] /\ f[j] = e[j - (a + 1)]
      BY <1>8, <2>4, <3>1
    <3>3. i - (a + 1) < j - (a + 1)
      BY <1>3, <1>13, <2>1
    <3>. QED BY <1>6, <3>2, <3>3 DEF Embeds
  <2>. QED BY <2>2, <2>3, <2>4
<1>14. Embeds(f, w, x, lo, hi)
  <2>1. f \in [Plain(w) -> DOMAIN x]
    BY <1>12
  <2>. HIDE DEF f
  <2>. QED BY <1>12, <1>13, <2>1 DEF Embeds
<1>. QED
  BY <1>1, <1>2, <1>3, <1>14 DEF FromIn

-------------------------------------------------------------------------------
(* The steps bring no words in.                                            *)

LEMMA FromTrimmed ==
  ASSUME NEW u, NEW x \in Seq(Glyph), NEW t, t = Trim(x), From(u, t)
  PROVE  From(u, x)
<1>1. FromIn(t, x, 0, Len(x) + 1)
  BY FromTrim DEF From
<1>. QED
  BY <1>1, FromFrom DEF From

LEMMA FromBeforeFirst ==
  ASSUME NEW t \in Seq(Glyph), NEW phrase \in {Dash, <<Hyphen>>, <<Slash>>},
         Occurrences(phrase, t) # {}, NEW w, w = BeforeFirst(phrase, t)
  PROVE  From(w, t)
<1>1. PICK m, y : m = Min(Occurrences(phrase, t)) /\ y = SubSeq(t, 1, m - 1)
  OBVIOUS
<1>2. phrase \in Seq(Glyph) /\ Len(phrase) >= 1
  BY SeparatorsType
<1>3. m \in 1..Len(t) /\ Len(t) \in Nat
  BY <1>1, <1>2, OccurrencesType, LenProperties
<1>4. y \in Seq(Glyph) /\ FromIn(y, t, 0, m)
  <2>1. 0 \in Nat /\ m \in Nat /\ m <= Len(t) + 1 /\ 0 + 1 = 1
    BY <1>3
  <2>2. FromIn(SubSeq(t, 0 + 1, m - 1), t, 0, m)
    BY <2>1, FromPiece
  <2>. QED BY <1>1, <2>1, <2>2 DEF FromIn
<1>5. From(y, t)
  <2>1. 0 \in Int /\ m \in Int /\ Len(t) + 1 \in Int /\ 0 <= 0 /\ m <= Len(t) + 1
    BY <1>3
  <2>. QED BY <1>4, <2>1, FromWider DEF From
<1>6. From(w, y)
  <2>1. w = Trim(y)
    BY <1>1 DEF BeforeFirst
  <2>. QED BY <1>4, <2>1, FromTrim
<1>. QED
  BY <1>5, <1>6, FromFrom DEF From

LEMMA FromItself ==
  ASSUME NEW x \in Seq(Glyph)
  PROVE  From(x, x)
  BY LikeItself, FromLike

\* Without its suffix a text has no new word.
LEMMA FromSuffixes ==
  ASSUME NEW x \in Seq(Glyph), NEW w, w = RemoveSuffixes(x)
  PROVE  From(w, x)
<1>1. PICK t : t = Trim(x)
  OBVIOUS
<1>2. t \in Seq(Glyph)
  BY <1>1, TrimType
<1>3. "trf1" \in Acronyms
  BY DEF Acronyms
<1>4. ASSUME FirstAcronym(t) = 1
      PROVE  Head(t).sign \in Acronyms
  <2>1. 1 \in 1..Len(t) /\ t[1].sign \in Acronyms
    BY <1>2, <1>4, AcronymType
  <2>2. t # <<>> /\ Head(t) = t[1]
    BY <1>2, <2>1
  <2>. QED BY <2>1, <2>2
<1>5. ASSUME NEW sign \in Acronyms, w = Court(sign)
      PROVE  From(w, x)
  BY <1>5, FromCourt
<1>6. ASSUME NEW phrase \in {Dash, <<Hyphen>>, <<Slash>>},
             Occurrences(phrase, t) # {}, w = BeforeFirst(phrase, t)
      PROVE  From(w, x)
  <2>1. From(w, t)
    BY <1>2, <1>6, FromBeforeFirst
  <2>. QED BY <1>1, <2>1, FromTrimmed
<1>7. CASE w = t
  BY <1>1, <1>7, FromTrim
<1>8. \/ \E sign \in Acronyms : w = Court(sign)
      \/ \E phrase \in {Dash, <<Hyphen>>, <<Slash>>} :
           Occurrences(phrase, t) # {} /\ w = BeforeFirst(phrase, t)
      \/ w = t
  BY <1>1, <1>3, <1>4, SuffixesByCases, Zenon
<1>. QED
  BY <1>5, <1>6, <1>7, <1>8

LEMMA FromAbbreviate ==
  ASSUME NEW x \in Seq(Glyph), NEW w, w = Abbreviate(x)
  PROVE  From(w, x)
<1>1. CASE w = Trim(x)
  BY <1>1, FromTrim
<1>2. ASSUME NEW sign \in Acronyms, w = Court(sign)
      PROVE  From(w, x)
  BY <1>2, FromCourt
<1>. QED
  BY <1>1, <1>2, AbbreviateShape

LEMMA FromTwice ==
  ASSUME NEW u, NEW v, NEW w, From(u, v), From(v, w)
  PROVE  From(u, w)
  BY FromFrom DEF From

\* The steps of a value bring no word in.
LEMMA FromScalar ==
  ASSUME NEW x \in Seq(Glyph), NEW steps, NEW y, y = NormalizeScalar(x, steps)
  PROVE  From(y, x)
<1>1. PICK a, b, c :
        /\ a = IF "remove_suffixes" \in steps THEN RemoveSuffixes(x) ELSE x
        /\ b = IF "abbreviate" \in steps THEN Abbreviate(a) ELSE a
        /\ c = IF "remove_accents" \in steps THEN RemoveAccents(b) ELSE b
        /\ NormalizeScalar(x, steps) = IF "capitalize_pt_br" \in steps THEN Capitalize(c) ELSE c
  BY ScalarSteps, Zenon
<1>2. From(a, x) /\ a \in Seq(Glyph)
  <2>1. From(a, x)
    BY <1>1, FromSuffixes, FromItself
  <2>. QED BY <2>1 DEF From, FromIn
<1>3. From(b, a) /\ b \in Seq(Glyph)
  <2>1. From(b, a)
    BY <1>1, <1>2, FromAbbreviate, FromItself
  <2>. QED BY <2>1 DEF From, FromIn
<1>4. From(c, b) /\ c \in Seq(Glyph)
  <2>1. CASE "remove_accents" \in steps
    <3>1. c = RemoveAccents(b) /\ Like(b, RemoveAccents(b))
      BY <1>1, <1>3, <2>1, AccentsGone
    <3>2. Like(c, b)
      BY <3>1 DEF Like
    <3>. QED BY <3>2, FromLike DEF Like
  <2>2. CASE "remove_accents" \notin steps
    BY <1>1, <1>3, <2>2, FromItself
  <2>. QED BY <2>1, <2>2
<1>5. From(y, c)
  <2>1. CASE "capitalize_pt_br" \in steps
    <3>1. y = Capitalize(c)
      BY <1>1, <2>1
    <3>2. Like(y, Trim(c))
      BY <1>4, <3>1, CapitalizeAgain DEF Like
    <3>3. From(y, Trim(c))
      BY <3>2, FromLike
    <3>. QED BY <1>4, <3>3, FromTrimmed
  <2>2. CASE "capitalize_pt_br" \notin steps
    BY <1>1, <1>4, <2>2, FromItself
  <2>. QED BY <2>1, <2>2
<1>6. From(c, x)
  <2>1. From(b, x)
    BY <1>2, <1>3, FromTwice
  <2>. QED BY <1>4, <2>1, FromTwice
<1>. QED
  BY <1>5, <1>6, FromTwice

LEMMA NothingPlain == Plain(<<>>) = {}
<1>1. DOMAIN <<>> = {}
  OBVIOUS
<1>. QED
  BY <1>1 DEF Plain

LEMMA FromToken ==
  ASSUME NEW x \in Seq(Glyph), NEW steps, NEW w, w = NormalizeToken(x, steps)
  PROVE  From(w, x)
<1>1. PICK t : t = IF "trim" \in steps THEN Trim(x) ELSE x
  OBVIOUS
<1>2. From(t, x) /\ t \in Seq(Glyph)
  BY <1>1, FromTrim, FromItself DEF From, FromIn
<1>3. CASE w = <<>>
  BY <1>3, NothingPlain, EmptyText, FromNothing DEF From
<1>4. CASE w = NormalizeScalar(t, steps)
  <2>1. From(w, t)
    BY <1>2, <1>4, FromScalar
  <2>. QED BY <1>2, <2>1, FromTwice
<1>. QED
  BY <1>1, <1>3, <1>4, TokenByCases

-------------------------------------------------------------------------------
(* Lists bring no words in.                                                *)

\* Values side by side in a text, each between two places of its own.
Placed(v, t, lo, hi, m) ==
  /\ m \in Nat /\ DOMAIN v = 1..m
  /\ lo \in [1..m -> 0..Len(t) + 1] /\ hi \in [1..m -> 0..Len(t) + 1]
  /\ \A l \in 1..m : lo[l] <= hi[l] /\ FromIn(v[l], t, lo[l], hi[l])
  /\ \A k, l \in 1..m : k < l => hi[k] <= lo[l]

\* The values of a list come each from its piece.
LEMMA TokensPlaced ==
  ASSUME NEW t \in Seq(Glyph), NEW steps, NEW k, k = Tokens(t, steps)
  PROVE  k \in Seq(Seq(Glyph)) /\ \E lo, hi, m : Placed(k, t, lo, hi, m)
<1>1. PICK Q, S, c, p, n : /\ Q = Separated(t, DEFAULT_SPLIT_SEPARATORS) /\ S = Ends(t, Q)
                           /\ c = Cut(t, Q) /\ p = InOrder(S) /\ n = Cardinality(S)
  OBVIOUS
<1>2. Len(t) \in Nat /\ Q \in SUBSET DOMAIN t
  BY <1>1, LenProperties DEF Separated
<1>3. k = [i \in DOMAIN c |-> NormalizeToken(c[i], steps)]
  BY <1>1 DEF Tokens, SplitText, Separated
<1>4. n \in Nat /\ Ascending(p, n, S)
  BY <1>1, <1>2, CutType
<1>5. /\ DOMAIN c = 1..n - 1
      /\ \A i \in 1..n - 1 : c[i] = SubSeq(t, p[i] + 1, p[i + 1] - 1)
  BY <1>1, <1>2, CutPieces DEF Pieces
<1>6. \A i \in 1..n - 1 : p[i] \in 0..Len(t) /\ p[i + 1] \in 1..Len(t) + 1 /\ p[i] < p[i + 1]
  BY <1>1, <1>2, CutType
<1>7. PICK m : m = n - 1
  OBVIOUS
<1>8. m \in Nat
  <2>1. 0 \in S
    BY <1>1 DEF Ends
  <2>2. n >= 1
    BY <1>4, <2>1 DEF Ascending
  <2>. QED BY <1>4, <1>7, <2>2
<1>9. ASSUME NEW i \in 1..m
      PROVE  k[i] \in Seq(Glyph) /\ FromIn(k[i], t, p[i], p[i + 1])
  <2>1. PICK a, b : a = p[i] /\ b = p[i + 1]
    OBVIOUS
  <2>2. a \in Nat /\ b \in Nat /\ b <= Len(t) + 1
    BY <1>2, <1>6, <1>7, <2>1
  <2>3. c[i] = SubSeq(t, a + 1, b - 1) /\ k[i] = NormalizeToken(c[i], steps)
    BY <1>3, <1>5, <1>7, <2>1
  <2>4. FromIn(c[i], t, a, b)
    BY <2>2, <2>3, FromPiece
  <2>5. From(k[i], c[i])
    BY <2>3, <2>4, FromToken DEF FromIn
  <2>6. FromIn(k[i], t, a, b)
    BY <2>4, <2>5, FromFrom
  <2>. QED BY <2>1, <2>6 DEF FromIn
<1>10. DOMAIN k = 1..m
  BY <1>3, <1>5, <1>7
<1>11. k \in Seq(Seq(Glyph))
  <2>1. k \in [1..m -> Seq(Glyph)]
    BY <1>3, <1>9, <1>10
  <2>. QED BY <1>8, <2>1
<1>12. Placed(k, t, [i \in 1..m |-> p[i]], [i \in 1..m |-> p[i + 1]], m)
  <2>1. \A i \in 1..m : /\ p[i] \in 0..Len(t) + 1 /\ p[i + 1] \in 0..Len(t) + 1
                        /\ p[i] <= p[i + 1]
    BY <1>2, <1>6, <1>7
  <2>2. ASSUME NEW i \in 1..m, NEW j \in 1..m, i < j
        PROVE  p[i + 1] <= p[j]
    <3>1. i + 1 \in 1..n /\ j \in 1..n /\ (i + 1 = j \/ i + 1 < j)
      BY <1>4, <1>7, <2>2
    <3>2. i + 1 < j => p[i + 1] < p[j]
      BY <1>4, <3>1 DEF Ascending
    <3>3. p[i + 1] \in Int /\ p[j] \in Int
      BY <2>1
    <3>. QED BY <3>1, <3>2, <3>3
  <2>. QED BY <1>8, <1>9, <1>10, <2>1, <2>2 DEF Placed
<1>. QED
  BY <1>11, <1>12

LEMMA ValuesPlaced ==
  ASSUME NEW t \in Seq(Glyph), NEW steps, NEW v, v = Values(t, steps)
  PROVE  v \in Seq(Seq(Glyph)) /\ \E lo, hi, m : Placed(v, t, lo, hi, m)
<1>1. PICK k, Q, q, n : /\ k = Tokens(t, steps) /\ Q = Filled(k)
                        /\ q = InOrder(Q) /\ n = Cardinality(Q)
  OBVIOUS
<1>2. k \in Seq(Seq(Glyph)) /\ Q \in SUBSET DOMAIN k /\ v = At(k, Q)
  BY <1>1, TokensPlaced DEF Filled, Values
<1>3. PICK lo, hi, m : Placed(k, t, lo, hi, m)
  BY <1>1, TokensPlaced
<1>4. /\ v \in Seq(Seq(Glyph)) /\ DOMAIN v = 1..n /\ n \in Nat
      /\ \A i \in 1..n : v[i] = k[q[i]]
      /\ Ascending(q, n, Q)
  BY <1>1, <1>2, AtType
<1>5. \A i \in 1..n : q[i] \in 1..m
  BY <1>2, <1>3, <1>4 DEF Ascending, Placed
<1>6. Placed(v, t, [i \in 1..n |-> lo[q[i]]], [i \in 1..n |-> hi[q[i]]], n)
  BY <1>3, <1>4, <1>5 DEF Placed, Ascending
<1>. QED
  BY <1>4, <1>6

\* Values side by side come from the text in their order when they are joined.
LEMMA FromJoined ==
  ASSUME NEW t \in Seq(Glyph), NEW v \in Seq(Seq(Glyph)), v # <<>>,
         NEW lo, NEW hi, NEW m, Placed(v, t, lo, hi, m)
  PROVE  From(Joined(v, Bar), t)
<1>1. Len(t) \in Nat /\ Len(v) = m /\ m \in Nat /\ m >= 1
  <2>1. Len(v) \in Nat /\ DOMAIN v = 1..Len(v) /\ Len(v) # 0 /\ DOMAIN v = 1..m /\ m \in Nat
    BY LenProperties, EmptySeq DEF Placed
  <2>2. Len(v) \in DOMAIN v
    BY <2>1
  <2>3. Len(v) <= m
    BY <2>1, <2>2
  <2>4. m \in DOMAIN v
    BY <2>1, <2>3
  <2>5. m <= Len(v) /\ m \in Nat
    BY <2>1, <2>4
  <2>6. Len(t) \in Nat
    BY LenProperties
  <2>7. \A a, b \in Nat : a <= b /\ b <= a /\ a # 0 => a = b /\ b >= 1
    OBVIOUS
  <2>. QED BY <2>1, <2>3, <2>5, <2>6, <2>7
<1>2. Bar \in Glyph /\ Bar.case = "none"
  BY SeparatorsAre DEF Bar, Mark
<1>3. PICK join : Joins(join, v, Bar, m) /\ Joined(v, Bar) = join[m]
  BY <1>1, <1>2, JoinedType
<1>4. \A l \in 1..m : /\ lo[l] \in Int /\ hi[l] \in Int /\ 0 <= lo[l] /\ lo[l] <= hi[l]
                      /\ hi[l] <= Len(t) + 1
                      /\ FromIn(v[l], t, lo[l], hi[l])
  BY <1>1 DEF Placed
<1>. DEFINE S == {l \in Nat : l + 1 <= m => FromIn(join[l + 1], t, 0, hi[l + 1])}
<1>5. 0 \in S
  <2>1. 1 \in 1..m /\ join[1] = v[1]
    BY <1>1, <1>3 DEF Joins
  <2>2. FromIn(v[1], t, lo[1], hi[1]) /\ lo[1] \in Int /\ hi[1] \in Int /\ 0 <= lo[1]
    BY <1>4, <2>1
  <2>3. 0 \in Int /\ hi[1] <= hi[1]
    BY <2>2
  <2>4. FromIn(v[1], t, 0, hi[1])
    BY <2>2, <2>3, FromWider
  <2>. QED BY <2>1, <2>4
<1>6. ASSUME NEW l \in S
      PROVE  l + 1 \in S
  <2>. SUFFICES ASSUME l + 1 + 1 <= m
                PROVE  FromIn(join[l + 1 + 1], t, 0, hi[l + 1 + 1])
    OBVIOUS
  <2>1. PICK j, k : j = l + 1 /\ k = l + 1 + 1
    OBVIOUS
  <2>2. j \in 1..m /\ k \in 2..m /\ k \in 1..m /\ j < k /\ j = k - 1
    BY <1>1, <2>1
  <2>3. FromIn(join[j], t, 0, hi[j])
    BY <2>1, <2>2
  <2>4. join[k] = join[j] \o <<Bar>> \o v[k]
    BY <1>3, <2>2 DEF Joins
  <2>5. FromIn(v[k], t, lo[k], hi[k])
    BY <1>4, <2>2
  <2>6. hi[j] <= lo[k]
    BY <2>2 DEF Placed
  <2>7. /\ 0 \in Int /\ hi[j] \in Int /\ lo[k] \in Int /\ hi[k] \in Int
        /\ 0 <= lo[k] /\ hi[j] <= hi[k]
    BY <1>4, <2>2, <2>6
  <2>8. FromIn(join[k], t, 0, hi[k])
    BY <1>2, <2>3, <2>4, <2>5, <2>6, <2>7, FromAppend
  <2>. QED BY <2>1, <2>8
<1>7. S = Nat
  <2>1. S \in SUBSET Nat
    OBVIOUS
  <2>. HIDE DEF S
  <2>. QED BY <1>5, <1>6, <2>1, Induction
<1>8. FromIn(join[m], t, 0, hi[m])
  <2>1. m - 1 \in Nat /\ m - 1 + 1 = m
    BY <1>1
  <2>2. m - 1 \in S
    BY <1>7, <2>1
  <2>. QED BY <2>1, <2>2
<1>9. /\ 0 \in Int /\ hi[m] \in Int /\ Len(t) + 1 \in Int /\ 0 <= 0
      /\ hi[m] <= Len(t) + 1
  BY <1>1, <1>4
<1>. HIDE DEF S
<1>10. PICK w, h, l : w = join[m] /\ h = hi[m] /\ l = Len(t) + 1
  OBVIOUS
<1>11. FromIn(w, t, 0, h) /\ 0 \in Int /\ h \in Int /\ l \in Int /\ 0 <= 0 /\ h <= l
  BY <1>8, <1>9, <1>10
<1>12. FromIn(w, t, 0, l)
  BY <1>11, FromWider
<1>. QED
  BY <1>3, <1>10, <1>12 DEF From

\* A cell that comes out has the words of the one that went in.
LEMMA FromCell ==
  ASSUME NEW x \in Seq(Glyph), NEW steps, NEW new, new = NormalizeCell(x, steps)
  PROVE  From(new, x)
<1>1. PICK t, v : t = (IF "trim" \in steps THEN Trim(x) ELSE x) /\ v = Values(t, steps)
  OBVIOUS
<1>2. From(t, x) /\ t \in Seq(Glyph)
  BY <1>1, FromTrim, FromItself DEF From, FromIn
<1>3. CASE new = NormalizeToken(x, steps)
  BY <1>3, FromToken
<1>4. CASE new = <<>>
  BY <1>4, NothingPlain, EmptyText, FromNothing DEF From
<1>5. CASE new = Joined(v, Bar) /\ new # <<>>
  <2>1. v # <<>>
    BY <1>5 DEF Joined
  <2>2. v \in Seq(Seq(Glyph)) /\ \E lo, hi, m : Placed(v, t, lo, hi, m)
    BY <1>1, <1>2, ValuesPlaced
  <2>3. From(new, t)
    BY <1>2, <1>5, <2>1, <2>2, FromJoined
  <2>. QED BY <1>2, <2>3, FromTwice
<1>. QED
  BY <1>1, <1>3, <1>4, <1>5, CellByCases

\* The words of u are words of v in their order.
LEMMA WordsFrom ==
  ASSUME NEW u, NEW v, From(u, v)
  PROVE  \E places \in SUBSET Plain(v) : Fold(At(v, places)) = Fold(At(u, Plain(u)))
<1>1. u \in Seq(Glyph) /\ v \in Seq(Glyph)
  BY DEF From, FromIn
<1>2. PICK e : Embeds(e, u, v, 0, Len(v) + 1)
  BY DEF From, FromIn
<1>3. PICK q, n, places : /\ q = InOrder(Plain(u)) /\ n = Cardinality(Plain(u))
                          /\ places = {e[i] : i \in Plain(u)}
  OBVIOUS
<1>4. places \in SUBSET Plain(v)
  <2>1. \A i \in Plain(u) : e[i] \in DOMAIN v /\ Folded(u[i]) = Folded(v[e[i]])
    BY <1>2 DEF Embeds
  <2>2. \A i \in Plain(u) : e[i] \in Plain(v)
    BY <1>1, <2>1, SamePlain
  <2>. QED BY <1>3, <2>2
<1>5. Plain(u) \in SUBSET DOMAIN u /\ places \in SUBSET DOMAIN v
  BY <1>4 DEF Plain
<1>6. /\ n \in Nat /\ Ascending(q, n, Plain(u))
      /\ At(u, Plain(u)) \in Seq(Glyph) /\ Len(At(u, Plain(u))) = n
      /\ \A k \in 1..n : At(u, Plain(u))[k] = u[q[k]]
  BY <1>1, <1>3, <1>5, AtType
<1>7. InOrder(places) = [k \in 1..n |-> e[q[k]]] /\ Cardinality(places) = n
  <2>1. places \subseteq Nat
    BY <1>1, <1>5, LenProperties
  <2>2. Ascending([k \in 1..n |-> e[q[k]]], n, places)
    <3>1. \A k \in 1..n : q[k] \in Plain(u)
      BY <1>6 DEF Ascending
    <3>2. \A k, l \in 1..n : k < l => e[q[k]] < e[q[l]]
      BY <1>2, <1>6, <3>1 DEF Ascending, Embeds
    <3>3. \A i \in places : \E k \in 1..n : e[q[k]] = i
      BY <1>3, <1>6 DEF Ascending
    <3>. QED BY <1>3, <3>1, <3>2, <3>3 DEF Ascending
  <2>. QED BY <1>6, <2>1, <2>2, OneOrder
<1>8. /\ At(v, places) \in Seq(Glyph) /\ Len(At(v, places)) = n
      /\ \A k \in 1..n : At(v, places)[k] = v[e[q[k]]]
  <2>1. /\ At(v, places) \in Seq(Glyph) /\ Len(At(v, places)) = Cardinality(places)
        /\ \A k \in 1..Cardinality(places) : At(v, places)[k] = v[InOrder(places)[k]]
    BY <1>1, <1>5, AtType
  <2>. QED BY <1>7, <2>1
<1>9. \A k \in 1..n : Folded(u[q[k]]) = Folded(v[e[q[k]]])
  BY <1>2, <1>6 DEF Embeds, Ascending
<1>10. Like(At(v, places), At(u, Plain(u)))
  BY <1>6, <1>8, <1>9, LikeFrom
<1>. QED
  BY <1>4, <1>10 DEF Like
===============================================================================
