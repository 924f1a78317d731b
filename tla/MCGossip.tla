------------------------------ MODULE MCGossip ------------------------------
(***************************************************************************)
(* A triangle of devices, and a phone beyond one that is a bridge, for TLC. *)
(***************************************************************************)
EXTENDS Gossip

CONSTANTS a, b, c, d, v

Devices == {a, b, c, d}

Triangle == [n \in Devices |-> CASE n = a -> {b, c}
                                 [] n = b -> {a, c}
                                 [] n = c -> {a, b, d}
                                 [] n = d -> {c}]

\* c, the bridge, is the peripheral of a and d, which its notifications both reach.
CentralOf == [n \in Devices |-> CASE n = a -> {b}
                                  [] n = b -> {c}
                                  [] n = c -> {a, d}
                                  [] n = d -> {}]

\* The phone's announces: whole, whole and not signed, and signed without the key
\* that could verify them.
SomeAnnounces == {<<TRUE, Tlvs>>, <<FALSE, Tlvs>>, <<TRUE, {"NICKNAME"}>>}

OneVirtual == [n \in Devices |-> IF n = c THEN {v} ELSE {}]

\* A packet may have to go all the way round: 4 devices, 3 connections.
ASSUME DevicesWithinReach == WithinReach
=============================================================================
