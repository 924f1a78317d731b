---------------------------- MODULE BridgeManager ----------------------------
(***************************************************************************)
(* BridgeManager: routing between Meshtastic and Bitchat, deduplication,    *)
(* virtual identities and their announce cycle, memory shedding, and the    *)
(* queue of chunks of a long message.                                       *)
(*                                                                          *)
(* loop() is a cycle of phases on one task: the two transports deliver      *)
(* their messages (the callbacks run inside their loop()), then come one    *)
(* announce step, the memory check and one chunk.  The reconnect phase has  *)
(* its own state and is modelled in MeshLink; here the link is an input.    *)
(*                                                                          *)
(* A text is a tuple that says how it was made, so that two texts are equal *)
(* exactly when the strings are.  A message is <<text, node, fingerprint>>, *)
(* which is what BridgeMessage::hash() mixes, so its hash is the message    *)
(* itself: collisions are left out.  Both transports always fill in         *)
(* display_name, and a Bitchat sender is shown by one name.                 *)
(***************************************************************************)
EXTENDS VirtualIdentity, Integers

CONSTANTS
    MeshUsers,               \* Meshtastic senders (node ids)
    MeshNames,               \* names a Meshtastic sender may have
    Phones,                  \* Bitchat senders (fingerprints) that are phones
    ShortTexts,              \* texts whose bridged form fits one mesh packet
    LongTexts,               \* texts that take CHUNKS mesh packets
    HeapLevels,              \* values of the free heap
    LinkStates,              \* values of _mesh.is_connected()
    DEDUP_CACHE_SIZE,
    DEDUP_TTL,
    BITCHAT_ANNOUNCE_INTERVAL,
    VIRTUAL_ANNOUNCE_STAGGER,
    VIRT_ID_MEMORY_CHECK,
    CHUNKS,                  \* chunks of a long text
    BRIDGE_CHUNK_DELAY,
    MaxTime,                 \* bound: ticks of the clock
    MaxMessages              \* bound: messages the transports deliver

Bridge == "bridge"     \* the bridge's own Bitchat identity
Zero == "zero"         \* a node id or fingerprint that is not filled in

ASSUME BridgeAssumption ==
    /\ Zero \notin MeshUsers \cup Phones
    /\ DEDUP_CACHE_SIZE \in Nat \ {0}
    /\ CHUNKS \in Nat \ {0}
    /\ DEDUP_TTL \in Nat
    /\ BITCHAT_ANNOUNCE_INTERVAL \in Nat
    /\ VIRTUAL_ANNOUNCE_STAGGER \in Nat
    /\ VIRT_ID_MEMORY_CHECK \in Nat
    /\ BRIDGE_CHUNK_DELAY \in Nat
    /\ HeapLevels \subseteq Nat
    /\ LinkStates \subseteq BOOLEAN
    /\ MaxTime \in Nat /\ MaxMessages \in Nat

VARIABLES
    phase,       \* where loop() is
    time,        \* true time; millis() is its value modulo CLOCK_MOD
    heap,        \* free heap
    mesh_up,     \* _mesh.is_connected()
    identities,  \* _virt_registry._identities
    announce,    \* [idx, cycle, step]: _virt_announce_idx and its timestamps
    mem_check,   \* _last_mem_check_ms
    dedup,       \* [ring, idx]: _dedup and _dedup_idx
    pending,     \* [chunks, next, at]: the chunk queue
    delivered,   \* number of messages delivered so far
    did          \* what the last step did: see Nothing

vars == <<phase, time, heap, mesh_up, identities, announce, mem_check, dedup,
          pending, delivered, did>>

millis == time % CLOCK_MOD

\* A step's effects: the message it forwarded or skipped (<<>> if none), the
\* hashes it recorded, the packets it sent over BLE and the texts
\* it sent to the mesh, in order, and the identities it evicted.
Nothing == [forwarded |-> <<>>, skipped |-> <<>>, hashes |-> <<>>,
            ble |-> <<>>, mesh |-> <<>>, evicted |-> <<>>]

-----------------------------------------------------------------------------
(* Texts and hashes                                                         *)

Raw(t) == <<"raw", t>>
Bridged(prefix, name, text) == <<prefix, name, text>>
Chunk(name, text, i) == <<"chunk", name, text, i>>
Farewell(id) == <<"farewell", id.name>>
Released(id) == <<"released", id.name>>

\* The text proper, of which a bridged text is a little longer.
Body(text) == IF Len(text) = 3 THEN text[3] ELSE text

IsLong(text) == \E t \in LongTexts : Body(text) = Raw(t)

\* Mutant of Hash: only the text is mixed in.
HashOfText(msg) == <<msg[1], Zero, Zero>>

Hash(msg) == msg

\* An outgoing BridgeMessage has only its text filled in.
OutgoingHash(text) == Hash(<<text, Zero, Zero>>)

-----------------------------------------------------------------------------
(* Deduplication                                                            *)

Slots == 0 .. DEDUP_CACHE_SIZE - 1

\* Mutant of IsDuplicate: only entries at least as old as the TTL count.
IsDuplicateLate(h) ==
    \E s \in Slots : /\ dedup.ring[s].hash = h
                     /\ Since(dedup.ring[s].at, millis) >= DEDUP_TTL

IsDuplicate(h) ==
    \E s \in Slots : /\ dedup.ring[s].hash = h
                     /\ Since(dedup.ring[s].at, millis) < DEDUP_TTL

\* _record_hash for each of a sequence of hashes: later ones overwrite.
RecordHashes(hashes) ==
    LET at(j)     == (dedup.idx + j - 1) % DEDUP_CACHE_SIZE
        writes(s) == {j \in DOMAIN hashes : at(j) = s}
        last(s)   == CHOOSE j \in writes(s) : \A k \in writes(s) : k <= j
    IN  [ring |-> [s \in Slots |->
                      IF writes(s) = {} THEN dedup.ring[s]
                      ELSE [hash |-> hashes[last(s)], at |-> millis]],
         idx  |-> (dedup.idx + Len(hashes)) % DEDUP_CACHE_SIZE]

-----------------------------------------------------------------------------
(* What is sent                                                             *)

AnnounceOf(id) == [type |-> "announce", as |-> id.node, text |-> <<"name", id.name>>]

MessageAs(who, text) == [type |-> "message", as |-> who, text |-> text]

\* _mesh.send_text sends nothing while the link is down.
ToMesh(texts) == IF mesh_up THEN texts ELSE <<>>

\* _on_identity_evicted, for each of a sequence of identities: it records the
\* hashes of both notices, sends the farewell as the departing identity over
\* BLE, and tells the mesh.
EvictionHashes(ids) ==
    [k \in 1 .. 2 * Len(ids) |->
        LET id == ids[(k + 1) \div 2]
        IN  OutgoingHash(IF k % 2 = 1 THEN Farewell(id) ELSE Released(id))]

\* Mutant of EvictionFarewells: the identity disappears without a word.
EvictionSilence(ids) == <<>>

EvictionFarewells(ids) == [i \in DOMAIN ids |-> MessageAs(ids[i].node, Farewell(ids[i]))]

EvictionNotices(ids) == ToMesh([i \in DOMAIN ids |-> Released(ids[i])])

-----------------------------------------------------------------------------

Init ==
    /\ phase = "mesh"
    /\ time = 0
    /\ heap \in HeapLevels
    /\ mesh_up \in LinkStates
    /\ identities = <<>>
    /\ announce = [idx |-> -1, cycle |-> 0, step |-> 0]
    /\ mem_check = 0
    /\ dedup = [ring |-> [s \in Slots |-> [hash |-> <<>>, at |-> 0]], idx |-> 0]
    /\ pending = [chunks |-> <<>>, next |-> 0, at |-> 0]
    /\ delivered = 0
    /\ did = Nothing

-----------------------------------------------------------------------------
(* _on_meshtastic_message                                                   *)

Deliver(ph) ==
    /\ phase = ph
    /\ delivered < MaxMessages
    /\ delivered' = delivered + 1
    /\ UNCHANGED <<phase, time, heap, mesh_up, announce, mem_check>>

SkipDuplicate(msg) ==
    /\ IsDuplicate(Hash(msg))
    /\ did' = [Nothing EXCEPT !.skipped = msg]
    /\ UNCHANGED <<identities, dedup, pending>>

\* Mutant of FirstWords: the announce follows the message.
LastWords(id, new, text) ==
    <<MessageAs(id.node, text)>> \o (IF new THEN <<AnnounceOf(id)>> ELSE <<>>)

\* What goes out for a message: an announce if the identity is new, then the text.
FirstWords(id, new, text) ==
    (IF new THEN <<AnnounceOf(id)>> ELSE <<>>) \o <<MessageAs(id.node, text)>>

\* The sender has an identity, old or new, and its message goes out under it,
\* after an announce if the identity has no name yet.
ForwardAsVirtual(msg, name, got) ==
    LET new    == got.ids[got.at].name = ""
        ids    == IF new THEN [got.ids EXCEPT ![got.at].name = name] ELSE got.ids
        hashes == <<Hash(msg)>> \o EvictionHashes(got.evicted) \o <<OutgoingHash(msg[1])>>
    IN  /\ got.at # 0
        /\ identities' = ids
        /\ dedup' = RecordHashes(hashes)
        /\ did' = [forwarded |-> msg, skipped |-> <<>>, hashes |-> hashes,
                   ble     |-> EvictionFarewells(got.evicted)
                               \o FirstWords(ids[got.at], new, msg[1]),
                   mesh    |-> EvictionNotices(got.evicted),
                   evicted |-> got.evicted]

\* No identity can be had: the message goes out under the bridge's own, with a
\* prefix and the sender's name.
ForwardAsBridge(msg, name, got) ==
    LET bridged == Bridged("[M]", name, msg[1])
        hashes  == <<Hash(msg)>> \o EvictionHashes(got.evicted) \o <<OutgoingHash(bridged)>>
    IN  /\ got.at = 0
        /\ identities' = got.ids
        /\ dedup' = RecordHashes(hashes)
        /\ did' = [forwarded |-> msg, skipped |-> <<>>, hashes |-> hashes,
                   ble     |-> EvictionFarewells(got.evicted)
                               \o <<MessageAs(Bridge, bridged)>>,
                   mesh    |-> EvictionNotices(got.evicted),
                   evicted |-> got.evicted]

OnMeshtasticMessage(user, name, t, derives) ==
    LET msg == <<Raw(t), user, Zero>>
        got == GetOrCreate(identities, user, heap, millis, derives)
    IN  /\ Deliver("mesh")
        /\ \/ SkipDuplicate(msg)
           \/ /\ ~IsDuplicate(Hash(msg))
              /\ \/ ForwardAsVirtual(msg, name, got)
                 \/ ForwardAsBridge(msg, name, got)
              /\ UNCHANGED pending

-----------------------------------------------------------------------------
(* _on_bitchat_message                                                      *)

\* The bridged text fits one mesh packet.
ForwardShort(msg) ==
    LET bridged == Bridged("[B]", msg[3], msg[1])
        hashes  == <<Hash(msg), OutgoingHash(bridged)>>
    IN  /\ ~IsLong(msg[1])
        /\ dedup' = RecordHashes(hashes)
        /\ did' = [Nothing EXCEPT !.forwarded = msg, !.hashes = hashes,
                                  !.mesh = ToMesh(<<bridged>>)]
        /\ UNCHANGED pending

\* Mutant of SplitIntoChunks: the position in the queue is not reset.
SplitWithoutReset(chunks) ==
    pending' = [chunks |-> chunks, next |-> pending.next, at |-> millis]

\* _split_into_chunks overwrites the queue, whatever is still in it.
SplitIntoChunks(chunks) ==
    pending' = [chunks |-> chunks, next |-> 0, at |-> millis]

\* It does not: the chunks are queued and go out from loop().
ForwardLong(msg) ==
    LET chunks == [i \in 1 .. CHUNKS |-> Chunk(msg[3], msg[1], i)]
        hashes == <<Hash(msg)>> \o [i \in 1 .. CHUNKS |-> OutgoingHash(chunks[i])]
    IN  /\ IsLong(msg[1])
        /\ dedup' = RecordHashes(hashes)
        /\ SplitIntoChunks(chunks)
        /\ did' = [Nothing EXCEPT !.forwarded = msg, !.hashes = hashes]

OnBitchatMessage(fp, text) ==
    LET msg == <<text, Zero, fp>>
    IN  /\ Deliver("ble")
        /\ UNCHANGED identities
        /\ \/ SkipDuplicate(msg)
           \/ /\ ~IsDuplicate(Hash(msg))
              /\ ForwardShort(msg) \/ ForwardLong(msg)

-----------------------------------------------------------------------------
(* The rest of loop()                                                       *)

\* A transport has no more messages in this iteration.
TransportDone ==
    /\ phase \in {"mesh", "ble"}
    /\ phase' = IF phase = "mesh" THEN "ble" ELSE "announce"
    /\ did' = Nothing
    /\ UNCHANGED <<time, heap, mesh_up, identities, announce, mem_check, dedup,
                   pending, delivered>>

\* Mutant of AnnounceNext: every other identity is passed over.
AnnounceSkip(a) == [a EXCEPT !.idx = @ + 2, !.step = millis]

\* The cycle moves on to the next identity.
AnnounceNext(a) == [a EXCEPT !.idx = @ + 1, !.step = millis]

\* Re-announce of the virtual identities, one per iteration: idx is the
\* position in the vector, -1 between cycles.
AnnounceStep ==
    LET starts == /\ announce.idx < 0
                  /\ Since(announce.cycle, millis) > BITCHAT_ANNOUNCE_INTERVAL
        a      == IF starts THEN [idx |-> 0, cycle |-> millis, step |-> 0] ELSE announce
        acts   == a.idx >= 0 /\ Since(a.step, millis) >= VIRTUAL_ANNOUNCE_STAGGER
    IN  /\ phase = "announce"
        /\ phase' = "memory"
        /\ \/ /\ ~acts
              /\ announce' = a
              /\ did' = Nothing
           \/ /\ acts /\ a.idx < Len(identities)
              /\ announce' = AnnounceNext(a)
              /\ did' = [Nothing EXCEPT !.ble = <<AnnounceOf(identities[a.idx + 1])>>]
           \/ /\ acts /\ a.idx >= Len(identities)
              /\ announce' = [a EXCEPT !.idx = -1]
              /\ did' = Nothing
        /\ UNCHANGED <<time, heap, mesh_up, identities, mem_check, dedup, pending,
                       delivered>>

\* The memory check is due or not; with little heap left it sheds identities.
MemoryCheck ==
    /\ phase = "memory"
    /\ LET checks == Since(mem_check, millis) > VIRT_ID_MEMORY_CHECK
           sheds  == checks /\ heap < VIRT_ID_HEAP_CRITICAL /\ identities # <<>>
       IN  /\ mem_check' = IF checks THEN millis ELSE mem_check
           /\ phase' = IF sheds THEN "shed" ELSE "drain"
    /\ did' = Nothing
    /\ UNCHANGED <<time, heap, mesh_up, identities, announce, dedup, pending, delivered>>

\* The loop of check_memory_pressure: the heap, read again each time, is still
\* below the reserve and one more identity goes, or the loop ends.
ShedIdentity(left) ==
    LET victims == <<identities[Lru(identities)]>>
        hashes  == EvictionHashes(victims)
    IN  /\ identities # <<>> /\ left < VIRT_ID_HEAP_RESERVE
        /\ identities' = EvictLru(identities)
        /\ dedup' = RecordHashes(hashes)
        /\ did' = [Nothing EXCEPT !.hashes = hashes, !.evicted = victims,
                                  !.ble = EvictionFarewells(victims),
                                  !.mesh = EvictionNotices(victims)]
        /\ UNCHANGED phase

ShedEnds(left) ==
    /\ identities = <<>> \/ left >= VIRT_ID_HEAP_RESERVE
    /\ phase' = "drain"
    /\ did' = Nothing
    /\ UNCHANGED <<identities, dedup>>

ShedStep ==
    /\ phase = "shed"
    /\ \E left \in HeapLevels :
          /\ heap' = left
          /\ ShedIdentity(left) \/ ShedEnds(left)
    /\ UNCHANGED <<time, mesh_up, announce, mem_check, pending, delivered>>

\* (int32_t)(now - at) < 0.
IsBefore(now, at) == Since(at, now) >= (CLOCK_MOD + 1) \div 2

\* _drain_pending_chunks: one chunk when it is due; all dropped if the link
\* is down then.
DrainChunks ==
    LET isDue == pending.next < Len(pending.chunks) /\ ~IsBefore(millis, pending.at)
    IN  /\ phase = "drain"
        /\ phase' = "mesh"
        /\ \/ /\ ~isDue
              /\ did' = Nothing
              /\ UNCHANGED pending
           \/ /\ isDue /\ ~mesh_up
              /\ pending' = [pending EXCEPT !.next = Len(pending.chunks)]
              /\ did' = Nothing
           \/ /\ isDue /\ mesh_up
              /\ pending' = [pending EXCEPT !.next = @ + 1,
                                !.at = (millis + BRIDGE_CHUNK_DELAY) % CLOCK_MOD]
              /\ did' = [Nothing EXCEPT !.mesh = <<pending.chunks[pending.next + 1]>>]
        /\ UNCHANGED <<time, heap, mesh_up, identities, announce, mem_check, dedup,
                       delivered>>

-----------------------------------------------------------------------------
(* The environment: the clock, the heap the BLE and WiFi stacks leave, the   *)
(* TCP link.  They change between iterations.                                *)

Tick ==
    /\ phase = "mesh"
    /\ time < MaxTime
    /\ time' = time + 1
    /\ did' = Nothing
    /\ UNCHANGED <<phase, heap, mesh_up, identities, announce, mem_check, dedup,
                   pending, delivered>>

HeapChanges ==
    /\ phase = "mesh"
    /\ heap' \in HeapLevels \ {heap}
    /\ did' = Nothing
    /\ UNCHANGED <<phase, time, mesh_up, identities, announce, mem_check, dedup,
                   pending, delivered>>

LinkChanges ==
    /\ phase = "mesh"
    /\ mesh_up' \in LinkStates \ {mesh_up}
    /\ did' = Nothing
    /\ UNCHANGED <<phase, time, heap, identities, announce, mem_check, dedup,
                   pending, delivered>>

\* A phone's own message.
PhoneSpeaks ==
    \E fp \in Phones, t \in ShortTexts \cup LongTexts : OnBitchatMessage(fp, Raw(t))

MeshUserSpeaks ==
    \E user \in MeshUsers, name \in MeshNames, t \in ShortTexts \cup LongTexts,
       derives \in BOOLEAN : OnMeshtasticMessage(user, name, t, derives)

LoopStep == TransportDone \/ AnnounceStep \/ MemoryCheck \/ ShedStep \/ DrainChunks

Next == MeshUserSpeaks \/ PhoneSpeaks \/ LoopStep \/ Tick \/ HeapChanges \/ LinkChanges

Spec == Init /\ [][Next]_vars

-----------------------------------------------------------------------------

\* Every variable keeps its type; in particular the registry never outgrows
\* its slots and the queue position never passes its end.
TypeOK ==
    /\ phase \in {"mesh", "ble", "announce", "memory", "shed", "drain"}
    /\ time \in Nat
    /\ heap \in HeapLevels
    /\ mesh_up \in LinkStates
    /\ \A i \in DOMAIN identities :
          /\ identities[i].node \in MeshUsers
          /\ identities[i].seen \in 0 .. CLOCK_MOD - 1
          /\ identities[i].name \in MeshNames
    /\ Len(identities) <= VIRT_ID_MAX_SLOTS
    /\ announce.idx \in -1 .. VIRT_ID_MAX_SLOTS
    /\ {announce.cycle, announce.step, mem_check, pending.at} \subseteq 0 .. CLOCK_MOD - 1
    /\ dedup.idx \in Slots
    /\ Len(pending.chunks) \in {0, CHUNKS}
    /\ pending.next \in 0 .. Len(pending.chunks)
    /\ delivered \in 0 .. MaxMessages

\* A Meshtastic user never has two virtual identities.
OneIdentityPerUser ==
    \A i, j \in DOMAIN identities : identities[i].node = identities[j].node => i = j
=============================================================================
