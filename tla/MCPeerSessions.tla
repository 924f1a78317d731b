--------------------------- MODULE MCPeerSessions ---------------------------
EXTENDS PeerSessions, TLC

\* The centrals are interchangeable.
CentralSymmetry == Permutations(Centrals)

OneEach == [announce |-> 1, text |-> 1, fault |-> 1]

TwoEach == [announce |-> 2, text |-> 2, fault |-> 2]
=============================================================================
