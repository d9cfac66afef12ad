\* A request racing a cacheRefresh while the index changes: one archive, page 1.
CONSTANTS
    p1 = p1
    p2 = p2
    a1 = a1
    a2 = a2
    NoID = NoID
    Procs <- MCProcs
    Archives = {a1}
    Pages = {1}
    RowsValues = {1}
    MaxCount = 1
    MaxHits = 1
    MaxRequests = 2
    MaxVersion = 1

SPECIFICATION Spec
SYMMETRY MCSymmetry

\* The model bounds the requests it sends; once they are all answered the
\* server is idle, which is not a deadlock of the code.
CHECK_DEADLOCK FALSE

PROPERTY CacheNeverRegresses
