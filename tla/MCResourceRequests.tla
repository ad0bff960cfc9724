------------------------- MODULE MCResourceRequests -------------------------
EXTENDS ResourceRequests, TLC

SymRemote == Permutations(Remote)
=============================================================================
