CONSTANTS
    p1 = p1
    p2 = p2
    Nil = Nil
    Procs <- MCProcs
    MaxRequests = 3
    MaxAttempts = 6

SPECIFICATION Spec
SYMMETRY MCSymmetry

PROPERTY RefusedNotRetried
