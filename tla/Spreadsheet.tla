------------------------------ MODULE Spreadsheet ------------------------------
(***************************************************************************)
(* A spreadsheet on its way through the system: its columns are detected   *)
(* and configured, the headers of an upload are compared with the          *)
(* configuration, the worker rewrites the cells.  Each of the three reads  *)
(* the headers in its own way.                                             *)
(*                                                                         *)
(* A header is a name with or without a space before it, and the first one *)
(* of a CSV may carry the byte order mark.  A cell is a text or, in an     *)
(* XLSX, also a number or a date; the rows of a CSV may be shorter or      *)
(* longer than the headers, and blank ones, which its reader skips, are    *)
(* left out.                                                               *)
(***************************************************************************)
EXTENDS CellText, FiniteSets

CONSTANTS
  Files,          \* spreadsheets
  Later(_),       \* those uploaded after the columns of one were configured
  StepSets(_),    \* what its columns may be configured with
  None,           \* an empty cell in the headers of an XLSX
  Numbers,        \* cells of an XLSX that are no texts
  Written,        \* what str() makes of each
  MAX_ROWS, MAX_SAMPLES   \* what the detection reads and shows

Symbol ==
  {s \in [sign : STRING, accent : {"none", "composed", "combining"},
           case : {"none", "lower", "upper", "capital"}] :
     s.accent # "none" => IsWord(s)}
Cell == Numbers \cup Seq(Symbol)
Header == [name : STRING, padded : BOOLEAN, bom : BOOLEAN]
File == [format : {"csv", "xlsx"}, headers : Seq(Header \cup {None}), rows : Seq(Seq(Cell))]

\* An empty cell is no header; str() of a number makes a name longer.  The cells of
\* a CSV are texts, none of its headers is missing, and only the first is marked.
ASSUME FilesAssumption ==
  /\ None \notin Header
  /\ \A f \in Files :
       /\ f \in File
       /\ \A i \in DOMAIN f.headers :
            /\ "col_" \o ToString(i - 1) \in STRING
            /\ f.headers[i] = None => f.format = "xlsx"
            /\ f.headers[i] # None /\ f.headers[i].bom => f.format = "csv" /\ i = 1
       /\ f.format = "csv" =>
            \A r \in DOMAIN f.rows : f.rows[r] # <<>> /\ f.rows[r] \in Seq(Seq(Symbol))
       /\ Later(f) \subseteq Files /\ StepSets(f) \subseteq SUBSET Steps
ASSUME NumbersAssumption ==
  <<>> \notin Numbers /\ Written \in [Numbers -> Seq(Symbol) \ {<<>>}]
ASSUME LimitsAssumption == MAX_ROWS \in Nat /\ MAX_SAMPLES \in Nat

VARIABLES
  stage,      \* how far the user and the worker are
  file,       \* the spreadsheet in hand
  detected,   \* the columns shown: header -> samples
  configs,    \* the columns configured: name -> [enabled, steps]
  result      \* the rows of the result

vars == <<stage, file, detected, configs, result>>

Columns(f) == DOMAIN f.headers

\* str() of a cell.
Str(cell) == IF cell \in Numbers THEN Written[cell] ELSE cell

Named(name) == [name |-> name, padded |-> FALSE, bom |-> FALSE]

Init ==
  /\ stage = "chosen"
  /\ file \in Files
  /\ detected = <<>> /\ configs = <<>> /\ result = <<>>

-------------------------------------------------------------------------------
(* POST /columns/detect                                                    *)

\* An unnamed column of an XLSX gets a name, counted from 0.
Shown(f, i) == IF f.headers[i] = None THEN Named("col_" \o ToString(i - 1)) ELSE f.headers[i]

\* Without a row the csv reader has no columns.
DetectedHeaders(f) ==
  IF f.format = "csv" /\ f.rows = <<>> THEN {} ELSE {Shown(f, i) : i \in Columns(f)}

\* Of a CSV column that occurs twice the last is read, of an XLSX column both.
ReadFrom(f, h) ==
  LET at == {i \in Columns(f) : Shown(f, i) = h}
  IN  IF f.format = "csv" THEN {Max(at)} ELSE at

\* The rows that are read.
Sampled(f) == 1..Min({MAX_ROWS, Len(f.rows)})

\* The cells with a value that are read for a header, row by row.
Cells(f, h) ==
  {c \in Sampled(f) \X ReadFrom(f, h) :
     c[2] \in DOMAIN f.rows[c[1]] /\ f.rows[c[1]][c[2]] # <<>>}
Value(f, c) == Str(f.rows[c[1]][c[2]])
Before(c, d) == c[1] < d[1] \/ (c[1] = d[1] /\ c[2] < d[2])
Place(cells, c) == Cardinality({d \in cells : Before(d, c)})

FirstValues(f, cells, n) ==
  [k \in 1..n |-> Value(f, CHOOSE c \in cells : Place(cells, c) = k - 1)]

\* Those that show a value that has not been read before.
NewValues(f, h) ==
  {c \in Cells(f, h) : \A d \in Cells(f, h) : Before(d, c) => Value(f, d) # Value(f, c)}

\* Faulty variant: all values are shown.
FaultyAllSamples(f, h) == FirstValues(f, NewValues(f, h), Cardinality(NewValues(f, h)))

\* Faulty variant: values are shown as often as they occur.
FaultySamples(f, h) ==
  FirstValues(f, Cells(f, h), Min({MAX_SAMPLES, Cardinality(Cells(f, h))}))

Samples(f, h) ==
  FirstValues(f, NewValues(f, h), Min({MAX_SAMPLES, Cardinality(NewValues(f, h))}))

\* What a long row has too much goes to a column None, which has no response.
TooLong(f) ==
  f.format = "csv" /\ \E r \in Sampled(f) : Len(f.rows[r]) > Len(f.headers)

Detect ==
  /\ stage = "chosen"
  /\ \/ /\ ~TooLong(file)
        /\ stage' = "detected"
        /\ detected' = [h \in DetectedHeaders(file) |-> Samples(file, h)]
     \/ /\ TooLong(file)
        /\ stage' = "failed"
        /\ UNCHANGED detected
  /\ UNCHANGED <<file, configs, result>>

-------------------------------------------------------------------------------
(* PUT /columns, POST /reports                                             *)

\* str.strip() does not get past a byte order mark.
Strip(h) == IF h.bom THEN h ELSE [h EXCEPT !.padded = FALSE]

\* The schema of the PUT strips the names.
Configure ==
  /\ stage = "detected"
  /\ stage' = "configured"
  /\ \E chosen \in SUBSET {Strip(h) : h \in DOMAIN detected} :
       configs' \in [chosen -> [enabled : BOOLEAN, steps : StepSets(file)]]
  /\ UNCHANGED <<file, detected, result>>

\* _read_headers(): stripped in a CSV, empty cells left out in an XLSX.
ReadHeaders(f) ==
  IF f.format = "csv" THEN {Strip(h) : h \in Range(f.headers)} ELSE Range(f.headers) \ {None}

Enabled == {c \in DOMAIN configs : configs[c].enabled}

Upload ==
  /\ stage = "configured"
  /\ file' \in {file} \cup Later(file)
  /\ stage' = IF Enabled \subseteq ReadHeaders(file') THEN "uploaded" ELSE "refused"
  /\ UNCHANGED <<detected, configs, result>>

-------------------------------------------------------------------------------
(* NormalizationProcessor.process()                                        *)

\* The worker decodes utf-8-sig, without the mark, and strips nothing.
Decoded(h) == IF h = None THEN None ELSE [h EXCEPT !.bom = FALSE]

\* Faulty variant: the configuration of a column holds though it is disabled.
FaultyNormalize(h, cell) ==
  IF h = None THEN cell
  ELSE IF h \in DOMAIN configs THEN NormalizeCell(Str(cell), configs[h].steps)
  ELSE Str(cell)

\* Only columns without a header are passed over; of all others the cells come
\* back as texts.
Normalize(h, cell) ==
  IF h = None THEN cell
  ELSE IF h \in Enabled THEN NormalizeCell(Str(cell), configs[h].steps)
  ELSE Str(cell)

\* Faulty variant: the cells are taken one column further.
FaultyCellOf(f, r, i) == IF i + 1 \in DOMAIN f.rows[r] THEN f.rows[r][i + 1] ELSE <<>>

\* A dictionary of a CSV row has the last cell of each header as it is decoded; cells
\* that are missing are empty, those without a header are left out.
CellOf(f, r, i) ==
  LET row == f.rows[r]
      same == {j \in Columns(f) : Decoded(f.headers[j]) = Decoded(f.headers[i])}
      at == IF f.format = "csv" THEN Max(same) ELSE i
  IN  IF at \in DOMAIN row THEN row[at] ELSE <<>>

Process ==
  /\ stage = "uploaded"
  /\ stage' = "processed"
  /\ result' = [r \in DOMAIN file.rows |->
       [i \in Columns(file) |-> Normalize(Decoded(file.headers[i]), CellOf(file, r, i))]]
  /\ UNCHANGED <<file, detected, configs>>

Next == Detect \/ Configure \/ Upload \/ Process

Spec == Init /\ [][Next]_vars
-------------------------------------------------------------------------------
(* Properties of spreadsheets                                              *)

\* Every variable has its type.
TypeOK ==
  /\ stage \in {"chosen", "detected", "failed", "configured", "uploaded", "refused", "processed"}
  /\ file \in Files
  /\ \A h \in DOMAIN detected : h \in Header /\ Len(detected[h]) <= MAX_SAMPLES
  /\ \A c \in DOMAIN configs :
       c \in Header /\ configs[c] \in [enabled : BOOLEAN, steps : SUBSET Steps]
  /\ stage = "processed" => \A r \in DOMAIN result : DOMAIN result[r] = Columns(file)

\* Headers that all read alike.
Clean(f) ==
  /\ \A i \in Columns(f) : f.headers[i] # None /\ ~f.headers[i].padded /\ ~f.headers[i].bom
  /\ Cardinality(Range(f.headers)) = Len(f.headers)

\* What the user is shown of a column tells it from every other: the samples are
\* different values of it, and all of them when they are few (detect()).
SamplesShowTheColumn ==
  stage = "detected" /\ Clean(file) =>
    \A h \in DOMAIN detected :
      LET i == CHOOSE i \in Columns(file) : file.headers[i] = h
          shown == Range(detected[h])
          there == {Str(file.rows[r][i]) : r \in {r \in Sampled(file) : i \in DOMAIN file.rows[r]}}
                     \ {<<>>}
      IN  /\ shown \subseteq there
          /\ Cardinality(shown) = Min({MAX_SAMPLES, Cardinality(there)})
          /\ Cardinality(shown) = Len(detected[h])

\* With clean headers the three readings agree: what was detected is accepted
\* when it is uploaded, and every column that is enabled is normalized, in
\* every row, with its own steps and with those only.
CleanFilesGetThrough ==
  Clean(file) =>
    /\ stage = "refused" => ~(DOMAIN detected \subseteq Range(file.headers))
    /\ stage = "processed" =>
         \A c \in Enabled : \E i \in Columns(file) :
           /\ file.headers[i] = c
           /\ \A r \in DOMAIN file.rows :
                i \in DOMAIN file.rows[r] =>
                  result[r][i] = NormalizeCell(Str(file.rows[r][i]), configs[c].steps)

\* No two columns of a CSV are one to the worker.
Distinct(f) ==
  f.format = "csv" =>
    \A i, j \in Columns(f) : Decoded(f.headers[i]) = Decoded(f.headers[j]) => i = j

\* A column that is not configured, or not enabled, comes out as it went in or, of
\* an XLSX, as the text of what went in, next to columns that change and in rows
\* of any length (_process_csv, _process_xlsx).
OthersStay ==
  stage = "processed" /\ Distinct(file) =>
    \A r \in DOMAIN file.rows, i \in Columns(file) :
      i \in DOMAIN file.rows[r] =>
        \/ result[r][i] \in {file.rows[r][i], Str(file.rows[r][i])}
        \/ \E c \in Enabled : file.headers[i] # None /\ c.name = file.headers[i].name

-------------------------------------------------------------------------------
(* Properties of texts: of what a column is rewritten to.                  *)

\* The cells of a result with the steps that made them.
Rewritten(P(_, _, _)) ==
  stage = "processed" /\ Clean(file) =>
    \A i \in Columns(file), r \in DOMAIN file.rows :
      file.headers[i] \in Enabled /\ i \in DOMAIN file.rows[r] =>
        P(Str(file.rows[r][i]), configs[file.headers[i]].steps, result[r][i])

\* The words by which a court is recognised before accents are removed.
NameSigns == Acronyms \cup {"tribunal", "regional", "federal", "1", "regiao"}

\* An accent keeps the name of a court from being recognised.
HidesName(text) ==
  \E i \in DOMAIN text : text[i].sign \in NameSigns /\ Seen(text[i]).accent # "none"

\* Who normalizes a result again changes nothing, unless suffixes are cut: what
\* is left of one may be a null or have a suffix again; or accents are removed
\* after names were looked for that they hide.
Stable ==
  Rewritten(LAMBDA text, steps, new :
    /\ "remove_suffixes" \notin steps
    /\ HidesName(text) => ~({"abbreviate", "remove_accents"} \subseteq steps)
    => NormalizeCell(new, steps) = new)

\* Where nulls are treated none is left, in no value of a list either.
NullsAreGone ==
  Rewritten(LAMBDA text, steps, new :
    {"nulls", "split"} \subseteq steps /\ "remove_suffixes" \notin steps /\ new # <<>> =>
      \A i \in DOMAIN SplitText(new, {Bar}) : ~IsNullAlias(SplitText(new, {Bar})[i]))

\* The words that are no acronym.
Plain(text) == {i \in DOMAIN text : IsWord(text[i]) /\ text[i].sign \notin Acronyms}

\* Whatever the steps, none brings in a word but the acronym of a court, and none
\* changes the order of words and values.
NothingIsInvented ==
  Rewritten(LAMBDA text, steps, new :
    \E places \in SUBSET Plain(text) :
      Fold(At(text, places)) = Fold(At(new, Plain(new))))

\* Spellings of one value become one: spaces, capitals and accents make no
\* difference where they are treated, but for accents that hide a name.
SpellingsMerge ==
  Rewritten(LAMBDA text, steps, new :
    /\ {"trim", "remove_accents", "capitalize_pt_br"} \subseteq steps
    /\ HidesName(text) => {"abbreviate", "remove_suffixes"} \cap steps = {}
    => new = NormalizeCell(Fold(Trim(text)), steps))

-------------------------------------------------------------------------------
(* What documents say, and the code does not do.                           *)

\* docs/REQUISITOS.md:86, tests: the columns that were detected, configured and
\* accepted with the upload are those that come back normalized.
AcceptedColumnsAreProcessed ==
  stage = "processed" => Enabled \subseteq {Decoded(h) : h \in Range(file.headers)}
=============================================================================
