----------------------------- MODULE MCSpreadsheet -----------------------------
(***************************************************************************)
(* Model-checking instances of Spreadsheet.                                *)
(***************************************************************************)
EXTENDS Spreadsheet

CONSTANT One   \* a cell with a number

Composed(s) == [s EXCEPT !.accent = "composed"]
Combining(s) == [s EXCEPT !.accent = "combining"]
Nao == [Composed(Lower("nao")) EXCEPT !.case = "capital"]

\* What cells are made of.
Phrases == {<<Space>>, <<Hyphen>>, <<Slash>>, <<Bar>>, <<Upper("na")>>, <<Lower("x")>>,
            <<Upper("n"), Slash, Upper("a")>>, <<Nao, Space, Lower("informado")>>,
            <<Upper("tjsp")>>}

\* No two words stand side by side.
Text(t) == \A i \in 1..Len(t) - 1 : ~(IsWord(t[i]) /\ IsWord(t[i + 1]))

\* Names of courts: a region, a state, a state that begins like another, and names
\* with accents: one that is expected, and those that hide a region or an acronym.
TribunalOf(state) ==
  Words(<<"tribunal", " ", "de", " ", "justica", " ", "de", " ">>) \o state
Courts == {RegionShort, RegionShort \o <<Slash, Lower("x")>>,
           RegionLong \o <<Space, Lower("x"), Space>> \o RegionEnd,
           TribunalOf(Words(<<"sao", " ", "paulo">>)),
           TribunalOf(Words(<<"parana">>)),
           [RegionShort EXCEPT ![5] = Composed(Upper("regiao"))],
           [RegionShort EXCEPT ![5] = Combining(Lower("regiao"))],
           [RegionLong EXCEPT ![1] = Composed(Lower("tribunal"))] \o <<Space>> \o RegionEnd,
           <<Composed(Upper("stf")), Space, Lower("x")>>}

Texts == Courts \cup
  {t \in {FlattenSeq(p) : p \in UNION {[1..n -> Phrases] : n \in 0..3}} : Text(t)}

Sheet(format, headers, rows) == [format |-> format, headers |-> headers, rows |-> rows]

c == Named("c")
d == Named("d")
CellFiles == {Sheet("csv", <<c>>, <<<<t>>>>) : t \in Texts}

A == <<Lower("x"), Space>>
B == <<Upper("na")>>
C == <<Lower("x")>>
Rows == {<<>>, <<<<A, B>>>>, <<<<A, A>>, <<B>>, <<C, A>>>>,
         <<<<A, A>>, <<A, C>>, <<B, B>>, <<C, C>>>>}

\* A number, and a text that is written like it.
NumberRows == {<<<<One, One>>, <<Words(<<"1">>), A>>>>}
MCWritten == [n \in {One} |-> Words(<<"1">>)]

Marked(h) == [h EXCEPT !.bom = TRUE]
SheetFiles ==
  {Sheet("csv", h, r) : h \in {<<c, d>>, <<Marked(c), d>>, <<Marked(c), c>>,
                               <<c, [d EXCEPT !.padded = TRUE]>>, <<c, c>>, <<c>>}, r \in Rows}
  \cup {Sheet("xlsx", h, r) : h \in {<<c, d>>, <<None, d>>, <<c, c>>}, r \in Rows \cup NumberRows}

AllFiles == CellFiles \cup SheetFiles

MCLater(f) == IF f \in SheetFiles THEN SheetFiles ELSE {}

\* All the combinations for a single cell, a few for several columns.
MCStepSets(f) ==
  IF f \in CellFiles THEN SUBSET Steps
  ELSE {{}, {"trim"}, {"nulls", "trim"}}
=============================================================================
