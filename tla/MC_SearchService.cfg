\* Two goroutines serve two requests against a cluster that fails and
\* recovers at any time; a query may be attempted up to MaxAttempts = 6
\* times, one more than the retrier allows.  No symmetry (liveness).
CONSTANTS
    p1 = p1
    p2 = p2
    a1 = a1
    NoID = NoID
    Nil = Nil
    Procs <- MCProcs
    Archives = {a1}
    Pages = {1}
    RowsValues = {1}
    MaxCount = 1
    MaxHits = 1
    MaxRequests = 2
    MaxVersion = 1
    MaxAttempts = 6
    Requests <- [EadSearch] MCRequests

SPECIFICATION Spec

\* The model bounds the requests it sends; once they are all answered the
\* server is idle, which is not a deadlock of the code.
CHECK_DEADLOCK FALSE

INVARIANT QueryTriesAtMostFive
PROPERTY RequestsAnswered
