------------------------- MODULE MCBridgeIdentities -------------------------
(* Instances of BridgeIdentities for TLC.                                   *)
EXTENDS BridgeIdentities, TLC

\* Which user is which does not matter.
UserSymmetry == Permutations(MeshUsers)
=============================================================================
