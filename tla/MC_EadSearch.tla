---------------------------- MODULE MC_EadSearch ----------------------------
(***************************************************************************)
(* Model-checking instance of EadSearch: two goroutines, two archives,    *)
(* pages 1 and 2 with one row per page, so that page 2 passes the cursor   *)
(* check exactly when the result counts one archive or level.              *)
(***************************************************************************)
EXTENDS EadSearch

CONSTANTS p1, p2, a1, a2

MCProcs == {p1, p2}
MCArchives == {a1, a2}

\* Goroutines and archives are interchangeable (safety runs only).
MCSymmetry == Permutations(MCProcs) \cup Permutations(MCArchives)
=============================================================================
