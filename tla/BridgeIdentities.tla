-------------------------- MODULE BridgeIdentities --------------------------
(***************************************************************************)
(* BridgeManager with a history of its virtual identities, which changes    *)
(* nothing of what the bridge does and lets properties look back.           *)
(***************************************************************************)
EXTENDS BridgeManager

VARIABLES
    present,   \* users whose identity was announced since its last farewell
    heard,     \* user -> true time of its last forwarded message
    due,       \* users the current announce cycle has still to announce
    overtaken  \* how many it had passed were evicted since it began

hvars == <<vars, present, heard, due, overtaken>>

Announced(packets) ==
    {packets[i].as : i \in {j \in DOMAIN packets : packets[j].type = "announce"}}

Departed(packets) ==
    {packets[i].as : i \in {j \in DOMAIN packets : packets[j].text[1] = "farewell"}}

\* The users whose identities the announce cycle has passed.
Passed ==
    {identities[i].node : i \in {j \in DOMAIN identities : j <= announce.idx}}

CycleStarts == announce.idx < 0 /\ announce'.cycle # announce.cycle

HInit ==
    /\ Init
    /\ present = {}
    /\ heard = [u \in MeshUsers |-> 0]
    /\ due = {}
    /\ overtaken = 0

HNext ==
    /\ Next
    /\ present' = (present \cup Announced(did'.ble)) \ Departed(did'.ble)
    /\ heard' = [u \in MeshUsers |->
                    IF did'.forwarded # <<>> /\ did'.forwarded[2] = u THEN time ELSE heard[u]]
    /\ due' = (IF CycleStarts THEN Nodes(identities) ELSE due)
                  \ (Announced(did'.ble) \cup Nodes(did'.evicted))
    /\ overtaken' = IF announce'.idx < 0 \/ CycleStarts THEN 0
                    ELSE overtaken + Cardinality(Passed \cap Nodes(did'.evicted))

HSpec == HInit /\ [][HNext]_hvars

-----------------------------------------------------------------------------
(* Properties                                                               *)

\* What phones have been told matches the registry: an identity is announced
\* when it enters the registry and says farewell when it leaves, on every path
\* that creates or evicts one.
PeersSeeRegistry == present = Nodes(identities)

\* A message never goes out under an identity that phones have not been told
\* of: its announce was sent before, in an earlier step or in this one.
AnnouncedBeforeSpeaking ==
    [][\A j \in DOMAIN did'.ble :
           LET p == did'.ble[j]
           IN  p.type = "message" /\ p.as # Bridge =>
                   p.as \in present \cup Announced(SubSeq(did'.ble, 1, j - 1))]_hvars

\* An evicted identity was silent at least as long as every one that stays.
EvictsLeastRecent ==
    [][\A gone \in Nodes(did'.evicted), stays \in Nodes(identities) \ Nodes(did'.evicted) :
           heard[gone] <= heard[stays]]_hvars

\* An announce cycle leaves out at most as many identities as were evicted, while
\* it ran, from behind it: such an eviction moves the vector under its index, and
\* no other one does it any harm.
CycleAnnouncesAll ==
    [][announce.idx >= 0 /\ announce'.idx < 0 => Cardinality(due) <= overtaken]_hvars
=============================================================================
