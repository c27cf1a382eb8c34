--------------------------- MODULE MCColumnConfigs ---------------------------
(***************************************************************************)
(* Model-checking instances of ColumnConfigs.                              *)
(***************************************************************************)
EXTENDS ColumnConfigs, TLC

CONSTANTS a, b

\* Lists that overlap, in both orders, an empty one, and one that repeats a
\* name (the schema does not forbid it).
TwoNames == {<<>>, <<a>>, <<a, b>>, <<b, a>>, <<a, a>>}

\* The lists that wait for each other.
Crossing == {<<a, b>>, <<b, a>>, <<a, a>>}

Symmetry == Permutations(Requests)
=============================================================================
