------------------------------- MODULE MCCatalog -------------------------------
(***************************************************************************)
(* Model-checking instances of Catalog.                                    *)
(***************************************************************************)
EXTENDS Catalog, TLC

CONSTANTS p0, x0, m, n, s, k

\* A project, and either a second one, a global term, or a report.
Start(x) == [id \in {p0, x0} |-> IF id = p0 THEN NewProject(m, s) ELSE x]
OldTables ==
  {Start(NewProject(n, s)), Start(NewEntry(None, k, m, s)), Start(NewReport(p0))}

Symmetry == Permutations(Requests)
=============================================================================
