-------------------------- MODULE MC_SearchService --------------------------
(***************************************************************************)
(* Model-checking instance of SearchService: two goroutines, one archive, *)
(* page 1, and a cluster that may be down from the start.                 *)
(***************************************************************************)
EXTENDS SearchService

CONSTANTS p1, p2, a1

MCProcs == {p1, p2}

\* The composition is about the client: requests without the cache-control
\* flags, which EadSearch's own runs cover.
MCRequests ==
    [mode: {"cluster"}, inv: {NoID}, page: Pages, rows: RowsValues,
     noCache: {FALSE}, refresh: {FALSE}, reset: {FALSE}]
    \cup
    [mode: {"detail"}, inv: Archives, page: Pages, rows: RowsValues,
     noCache: {FALSE}, refresh: {FALSE}, reset: {FALSE}]
=============================================================================
