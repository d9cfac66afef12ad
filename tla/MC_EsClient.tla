---------------------------- MODULE MC_EsClient ----------------------------
EXTENDS EsClient, TLC

CONSTANTS p1, p2

MCProcs == {p1, p2}

MCSymmetry == Permutations(MCProcs)

=============================================================================
