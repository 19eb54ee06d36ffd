---------------------------- MODULE MCGpsControl ----------------------------
EXTENDS GpsControl, TLC
CONSTANTS c1, c2
ClientSymmetry == Permutations(Clients)
=============================================================================
