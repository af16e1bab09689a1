------------------------- MODULE MCClientDiscovery -------------------------
EXTENDS ClientDiscovery, TLC
ConnSymmetry == Permutations(Conns)
=============================================================================
