------------------------------- MODULE CellText -------------------------------
(***************************************************************************)
(* How the normalization processor rewrites the text of a cell.            *)
(*                                                                         *)
(* A text is a sequence of words and marks (spaces, hyphens, separators),  *)
(* no two words side by side.  Of a word it matters which letters it has,  *)
(* whether it bears an accent, as one character with its letter or as one  *)
(* that follows it within the word, and how it is capitalised.  The lists  *)
(* of the code are cut down to a few members of each; acronyms are single  *)
(* words, those written with a hyphen or a space are left out, and the     *)
(* number of a region is a word of its own, without an ordinal sign.       *)
(***************************************************************************)
EXTENDS Naturals, Sequences, SequencesExt

Mark(sign) == [sign |-> sign, accent |-> "none", case |-> "none"]
Lower(sign) == [sign |-> sign, accent |-> "none", case |-> "lower"]
Upper(sign) == [sign |-> sign, accent |-> "none", case |-> "upper"]

Space == Mark(" ")
Hyphen == Mark("-")
Slash == Mark("/")
Bar == Mark("|")

IsWord(s) == s.case # "none"

\* str.lower() of a symbol, and its comparison form.
Lowered(s) == IF IsWord(s) THEN [s EXCEPT !.case = "lower"] ELSE s
Unaccented(s) == [s EXCEPT !.accent = "none"]
Folded(s) == Unaccented(Lowered(s))

Each(Op(_), text) == [i \in DOMAIN text |-> Op(text[i])]

Fold(text) == Each(Folded, text)

\* The places in ascending order.
InOrder(places) ==
  [k \in 1..Cardinality(places) |->
     CHOOSE i \in places : Cardinality({j \in places : j < i}) = k - 1]

\* The symbols at some of the places.
At(text, places) == [k \in DOMAIN InOrder(places) |-> text[InOrder(places)[k]]]

\* The pieces between the symbols at some of the places.
Cut(text, places) ==
  LET p == InOrder(places \cup {0, Len(text) + 1})
  IN  [i \in 1..Len(p) - 1 |-> SubSeq(text, p[i] + 1, p[i + 1] - 1)]

\* Faulty variant: the pieces come out in reverse.
FaultyJoined(pieces, mark) ==
  LET join[n \in DOMAIN pieces] ==
        IF n = 1 THEN pieces[1] ELSE pieces[n] \o <<mark>> \o join[n - 1]
  IN  IF pieces = <<>> THEN <<>> ELSE join[Len(pieces)]

Joined(pieces, mark) ==
  LET join[n \in DOMAIN pieces] ==
        IF n = 1 THEN pieces[1] ELSE join[n - 1] \o <<mark>> \o pieces[n]
  IN  IF pieces = <<>> THEN <<>> ELSE join[Len(pieces)]

\* Where a phrase occurs.
Occurrences(phrase, text) ==
  {i \in 1..Len(text) - Len(phrase) + 1 : SubSeq(text, i, i + Len(phrase) - 1) = phrase}

-------------------------------------------------------------------------------
(* The lists of the processor.                                             *)

Words(signs) ==
  [i \in DOMAIN signs |->
     IF signs[i] \in {" ", "-", "/"} THEN Mark(signs[i]) ELSE Lower(signs[i])]

NULL_ALIASES == {<<>>, Words(<<"-">>), Words(<<"-", "-">>), Words(<<"n", "/", "a">>),
                 Words(<<"na">>), Words(<<"nao", " ", "informado">>)}

LOWERCASE_WORDS == {"de", "do", "na", "para"}

Acronyms == {"stf", "trf", "trf1", "tjsp", "tjmt", "tjms", "tjpa", "tjpr"}

\* In the order of the dictionary: the first one found gives its court.
STATE_TO_UF == <<
  [name |-> Words(<<"mato", " ", "grosso">>), court |-> "tjmt"],
  [name |-> Words(<<"mato", " ", "grosso", " ", "do", " ", "sul">>), court |-> "tjms"],
  [name |-> Words(<<"para">>), court |-> "tjpa"],
  [name |-> Words(<<"parana">>), court |-> "tjpr"],
  [name |-> Words(<<"sao", " ", "paulo">>), court |-> "tjsp"]>>

\* "in" compares letters: para is in parana.
Letters(text) == [i \in DOMAIN text |->
                    IF text[i] = Lower("parana") THEN Lower("para") ELSE text[i]]

Within(phrase, text) ==
  Occurrences(phrase, text) \cup Occurrences(phrase, Letters(text)) # {}

RegionShort == Words(<<"trf", " ", "1", " ", "regiao">>)
RegionLong == Words(<<"tribunal", " ", "regional", " ", "federal">>)
RegionEnd == Words(<<"1", " ", "regiao">>)

\* The expressions for regions ignore case and mind accents, but for the composed
\* one of "regiao".
Seen(s) == IF s.sign = "regiao" /\ s.accent = "composed" THEN Folded(s) ELSE Lowered(s)
Sight(text) == Each(Seen, text)

NamesShortRegion(text) == Occurrences(RegionShort, Sight(text)) # {}

\* The long form lets anything stand between the court and the region.
NamesRegion(text) ==
  \E i \in Occurrences(RegionLong, Sight(text)), j \in Occurrences(RegionEnd, Sight(text)) :
    j > i + Len(RegionLong)

-------------------------------------------------------------------------------
(* The steps.                                                              *)

Trim(text) ==
  At(text, {i \in DOMAIN text :
    \/ text[i] # Space
    \/ /\ i > 1 /\ text[i - 1] # Space
       /\ \E j \in i..Len(text) : text[j] # Space})

\* Faulty variant: spaces around a null make it a value.
FaultyIsNullAlias(text) == Fold(text) \in NULL_ALIASES

IsNullAlias(text) == Fold(Trim(text)) \in NULL_ALIASES

SplitText(text, separators) ==
  Cut(text, {i \in DOMAIN text : text[i] \in separators})

FirstAcronym(text) ==
  LET at == {i \in DOMAIN text : text[i].accent = "none" /\ text[i].sign \in Acronyms}
  IN  IF at = {} THEN 0 ELSE Min(at)

Court(sign) == <<Upper(sign)>>

\* What stands before the first of the first separator that occurs.
BeforeFirst(phrase, text) ==
  Trim(SubSeq(text, 1, Min(Occurrences(phrase, text)) - 1))

RemoveSuffixes(text) ==
  LET t == Trim(text)
      has(phrase) == Occurrences(phrase, t) # {}
      dash == <<Space, Hyphen, Space>>
  IN  IF NamesShortRegion(t) THEN Court("trf1")
      ELSE IF FirstAcronym(t) = 1 THEN Court(Head(t).sign)
      ELSE IF has(dash) THEN BeforeFirst(dash, t)
      ELSE IF has(<<Hyphen>>) THEN BeforeFirst(<<Hyphen>>, t)
      ELSE IF has(<<Slash>>) THEN BeforeFirst(<<Slash>>, t)
      ELSE t

Abbreviate(text) ==
  LET t == Trim(text)
      states == {s \in DOMAIN STATE_TO_UF : Within(STATE_TO_UF[s].name, Fold(t))}
  IN  IF NamesShortRegion(t) \/ NamesRegion(t) THEN Court("trf1")
      ELSE IF FirstAcronym(t) # 0 THEN Court(t[FirstAcronym(t)].sign)
      ELSE IF Within(Words(<<"tribunal", " ", "de", " ", "justica">>), Fold(t)) /\ states # {}
      THEN Court(STATE_TO_UF[Min(states)].court)
      ELSE t

RemoveAccents(text) == Each(Unaccented, text)

IsPreposition(s) == s.accent = "none" /\ s.sign \in LOWERCASE_WORDS

\* Faulty variant: a preposition keeps the case it has.
FaultyCapitalize(text) ==
  LET t == Trim(text)
  IN  [i \in DOMAIN t |->
         IF ~IsWord(t[i]) \/ (i > 1 /\ IsPreposition(t[i])) THEN t[i]
         ELSE [t[i] EXCEPT !.case = "capital"]]

\* Prepositions stay small when they stand alone between spaces and not first;
\* each part of a hyphenated word gets its capital.
Capitalize(text) ==
  LET t == Trim(text)
      alone(i) == /\ i > 1 /\ t[i - 1] = Space
                  /\ i < Len(t) => t[i + 1] = Space
      initial(i) == i = 1 \/ t[i - 1] \in {Space, Hyphen}
  IN  [i \in DOMAIN t |->
         IF ~IsWord(t[i]) THEN t[i]
         ELSE IF initial(i) /\ ~(alone(i) /\ IsPreposition(t[i]))
         THEN [t[i] EXCEPT !.case = "capital"]
         ELSE Lowered(t[i])]

-------------------------------------------------------------------------------
(* The steps a column asks for: what _enabled finds under their names.     *)

Steps == {"trim", "nulls", "split", "remove_suffixes", "abbreviate",
          "remove_accents", "capitalize_pt_br"}

DEFAULT_SPLIT_SEPARATORS == {Bar, Slash}

NormalizeScalar(text, steps) ==
  LET a == IF "remove_suffixes" \in steps THEN RemoveSuffixes(text) ELSE text
      b == IF "abbreviate" \in steps THEN Abbreviate(a) ELSE a
      c == IF "remove_accents" \in steps THEN RemoveAccents(b) ELSE b
  IN  IF "capitalize_pt_br" \in steps THEN Capitalize(c) ELSE c

\* Faulty variant: nulls are looked for in whole cells only.
FaultyNormalizeToken(text, steps) ==
  NormalizeScalar(IF "trim" \in steps THEN Trim(text) ELSE text, steps)

\* A cell or, when its column is split, one of its values.
NormalizeToken(text, steps) ==
  LET t == IF "trim" \in steps THEN Trim(text) ELSE text
  IN  IF "nulls" \in steps /\ IsNullAlias(t) THEN <<>> ELSE NormalizeScalar(t, steps)

NormalizeSplitValues(text, steps) ==
  LET pieces == SplitText(text, DEFAULT_SPLIT_SEPARATORS)
      tokens == [i \in DOMAIN pieces |-> NormalizeToken(pieces[i], steps)]
  IN  Joined(At(tokens, {i \in DOMAIN tokens : tokens[i] # <<>>}), Bar)

NormalizeCell(text, steps) ==
  LET t == IF "trim" \in steps THEN Trim(text) ELSE text
  IN  IF "split" \notin steps THEN NormalizeToken(text, steps)
      ELSE IF "nulls" \in steps /\ IsNullAlias(t) THEN <<>>
      ELSE NormalizeSplitValues(t, steps)
=============================================================================
