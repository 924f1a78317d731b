------------------------------ MODULE MCRxRing ------------------------------
(* Instances of RxRing for TLC.                                             *)
EXTENDS RxRing

MCNone == {}

\* Two fragmented messages: the fourth arrival completes one that is too long
\* for an entry, the last arrival one that fits, when the radio is quiet.
MCQuiet == {4, MaxArrivals}
MCQuietOversized == {2, Reassembled(4)}

\* The third arrival completes a message that fits while the radio goes on.
MCBusy == {3}
=============================================================================
