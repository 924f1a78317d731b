---------------------------- MODULE BridgeTraffic ----------------------------
(***************************************************************************)
(* BridgeManager with the BLE mesh around it, which may bring back to the   *)
(* bridge what the bridge itself sent, and with a history of the messages   *)
(* forwarded, which lets properties look back.                              *)
(***************************************************************************)
EXTENDS BridgeManager

VARIABLES
    aired,       \* <<sender, text>> of every message the bridge sent over BLE
    forwarded,   \* message -> [time, records] when it was last forwarded
    records,     \* number of hashes recorded
    chunk        \* the last chunk sent and when

tvars == <<vars, aired, forwarded, records, chunk>>

IsChunk(text) == text[1] = "chunk"

TrafficInit ==
    /\ Init
    /\ aired = {}
    /\ forwarded = <<>>
    /\ records = 0
    /\ chunk = [text |-> <<>>, time |-> 0]

Messages(packets) ==
    {<<packets[i].as, packets[i].text>> :
        i \in {j \in DOMAIN packets : packets[j].type = "message"}}

\* Gossip: a phone relays to the bridge a message that the bridge sent.
GossipReturns == \E m \in aired : OnBitchatMessage(m[1], m[2])

TrafficNext ==
    /\ Next \/ GossipReturns
    /\ aired' = aired \cup Messages(did'.ble)
    /\ forwarded' = IF did'.forwarded = <<>> THEN forwarded
                    ELSE [h \in DOMAIN forwarded \cup {did'.forwarded} |->
                             IF h = did'.forwarded
                             THEN [time |-> time, records |-> records] ELSE forwarded[h]]
    /\ records' = records + Len(did'.hashes)
    /\ chunk' = IF did'.mesh # <<>> /\ IsChunk(did'.mesh[1])
                THEN [text |-> did'.mesh[1], time |-> time] ELSE chunk

TrafficSpec == TrafficInit /\ [][TrafficNext]_tvars

-----------------------------------------------------------------------------
(* Properties                                                               *)

\* A message is skipped as a duplicate only if the same sender's same text was
\* forwarded within the TTL: nobody else's message is swallowed.
SkipsOnlyRepeats ==
    [][did'.skipped # <<>> =>
           /\ did'.skipped \in DOMAIN forwarded
           /\ time - forwarded[did'.skipped].time < DEDUP_TTL]_tvars

\* The same sender's same text is forwarded again only once the TTL is over or
\* the cache has been filled by other hashes in between.
ForwardsOnce ==
    [][\A h \in DOMAIN forwarded :
           did'.forwarded = h =>
               \/ time - forwarded[h].time >= DEDUP_TTL
               \/ records - forwarded[h].records >= DEDUP_CACHE_SIZE]_tvars

\* Chunk i > 1 of a message follows chunk i - 1 of the same message, with the
\* inter-chunk delay between them: chunks of two messages never interleave.
ChunksInOrder ==
    [][\A i \in DOMAIN did'.mesh :
           LET text == did'.mesh[i]
           IN  IsChunk(text) /\ text[4] > 1 =>
                   /\ chunk.text = [text EXCEPT ![4] = @ - 1]
                   /\ time - chunk.time >= BRIDGE_CHUNK_DELAY]_tvars
=============================================================================
