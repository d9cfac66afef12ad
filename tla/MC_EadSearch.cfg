CONSTANTS
    p1 = p1
    p2 = p2
    a1 = a1
    a2 = a2
    NoID = NoID
    Procs <- MCProcs
    Archives <- MCArchives
    Pages = {1}
    RowsValues = {1}
    MaxCount = 1
    MaxHits = 1
    MaxRequests = 3
    MaxVersion = 1

SPECIFICATION Spec
SYMMETRY MCSymmetry

\* The model bounds the requests it sends; once they are all answered the
\* server is idle, which is not a deadlock of the code.
CHECK_DEADLOCK FALSE

INVARIANT TypeOK
PROPERTY ServedMatchesRequest
PROPERTY CacheRefinement

