------------------------------- MODULE Gossip -------------------------------
(***************************************************************************)
(* Gossip flooding between devices that run BitchatBLE: what a device sends *)
(* to its peers, the verification in _process_incoming, and _relay_packet   *)
(* with its dedup cache and the TTL.                                        *)
(*                                                                          *)
(* The connections are given and stay; PeerSessions is about connections.   *)
(* No Noise session is up, so texts travel as public messages.  A packet    *)
(* is received in the order of its connection, or lost.                     *)
(*                                                                          *)
(* This firmware signs every packet, with the key of the identity it comes  *)
(* from and over everything including the TTL, and its announces hold a     *)
(* name and a key.  Phones run an app that is not here (external): they     *)
(* relay as this firmware does, but their packets may be unsigned, and      *)
(* their announces without a name or a key.                                 *)
(*                                                                          *)
(* A packet's hash skips the TTL byte: it is modelled by what is hashed     *)
(* (type, sender, the number of the sending, the flag of the signature),    *)
(* without collisions.                                                      *)
(***************************************************************************)
EXTENDS Naturals, Sequences, FiniteSets

CONSTANTS
    Nodes,
    Phones,             \* the nodes that are phones
    Neighbours,         \* node -> the nodes it has a connection with
    Centrals,           \* node -> those of them that are the central
    Virtual,            \* node -> the virtual identities it speaks for
    BITCHAT_MAX_HOPS,   \* 7, the TTL of a new packet
    RELAY_DEDUP_SIZE,   \* 64 hashes in the cache
    CACHE_TTL,          \* BITCHAT_MSG_CACHE_TTL_MS in ticks
    Originators,        \* the nodes that originate packets in their own name
    PhoneAnnounces,     \* the announces of phones: <<signed, what they hold>>
    MaxSends,           \* bound: packets that devices originate
    MaxEvents           \* bound: ticks of the clock and packets lost, together,
                        \* all before the last packet is originated

Identities == Nodes \cup UNION {Virtual[n] : n \in Nodes}

\* No key: sign_pubkey_known is false.
Nobody == "nobody"

\* The parts of an announce that _handle_announce stores.
Tlvs == {"NICKNAME", "SIGNING_PUBKEY"}

Links == {l \in Nodes \X Nodes : l[2] \in Neighbours[l[1]]}

ASSUME GossipAssumption ==
    /\ Neighbours \in [Nodes -> SUBSET Nodes]
    /\ \A m, n \in Nodes : n \in Neighbours[m] <=> m \in Neighbours[n]
    /\ Centrals \in [Nodes -> SUBSET Nodes]
    /\ \A n \in Nodes : /\ Centrals[n] \subseteq Neighbours[n]
                        /\ IsFiniteSet(Neighbours[n])
                        /\ n \notin Neighbours[n]
                        /\ Virtual[n] \cap Nodes = {}
    /\ \A m, n \in Nodes :
          n \in Neighbours[m] => (m \in Centrals[n] <=> n \notin Centrals[m])
    /\ Nobody \notin Identities
    /\ Phones \subseteq Nodes /\ Originators \subseteq Nodes
    /\ PhoneAnnounces \subseteq BOOLEAN \X SUBSET Tlvs
    /\ BITCHAT_MAX_HOPS \in 1 .. 255
    /\ RELAY_DEDUP_SIZE \in Nat \ {0}
    /\ CACHE_TTL \in Nat \ {0}
    /\ MaxSends \in Nat /\ MaxEvents \in Nat

VARIABLES
    link,          \* <<m, n>> -> packets from m that n has not handled
    sign_pubkey,   \* <<m, n>> -> who announced last from m to n, or Nobody
    nickname,      \* <<m, n>> -> whose name n shows for messages from m
    relay_dedup,   \* node -> the last RELAY_DEDUP_SIZE hashes recorded
    time,          \* millis() in ticks
    sends, losses, \* packets originated and lost
    spoken,        \* history: messages originated, by hash
    handled,       \* history: messages passed to the bridge
    halved,        \* history: connections on which an announce had a name and no
                   \* key, or a key and no name
    relayed        \* history: <<node, hash>> -> when it was relayed last, and how
                   \* many hashes were recorded since (up to RELAY_DEDUP_SIZE);
                   \* turn tells one relaying from the next

vars == <<link, sign_pubkey, nickname, relay_dedup, time, sends, losses,
          spoken, handled, halved, relayed>>

\* signed is the flag HAS_SIGNATURE, tlvs what an announce holds, ttl as sent; hops
\* counts the connections the packet has crossed or is crossing, up to one more
\* than allowed, and is not part of the packet.
Packet(type, sender, signed, tlvs) ==
    [type |-> type, sender |-> sender, number |-> sends, signed |-> signed,
     tlvs |-> tlvs, ttl |-> BITCHAT_MAX_HOPS, hops |-> 1]

\* The packets that this firmware makes.
Announce(who) == Packet("ANNOUNCE", who, TRUE, Tlvs)
Message(who) == Packet("MESSAGE", who, TRUE, {})

\* Those that n may originate in its own name.
AnnouncesOf(n) ==
    IF n \in Phones
    THEN {Packet("ANNOUNCE", n, form[1], form[2]) : form \in PhoneAnnounces}
    ELSE {Announce(n)}

MessagesOf(n) ==
    IF n \in Phones THEN {Packet("MESSAGE", n, signed, {}) : signed \in BOOLEAN}
    ELSE {Message(n)}

OneMore(hops) == IF hops > BITCHAT_MAX_HOPS THEN hops ELSE hops + 1

Hash(p) == <<p.type, p.sender, p.number, p.signed>>

Init ==
    /\ link = [l \in Links |-> <<>>]
    /\ sign_pubkey = [l \in Links |-> Nobody]
    /\ nickname = [l \in Links |-> Nobody]
    /\ relay_dedup = [n \in Nodes |-> <<>>]
    /\ time = 0
    /\ sends = 0
    /\ losses = 0
    /\ spoken = {}
    /\ handled = {}
    /\ halved = {}
    /\ relayed = [x \in {} |-> 0]

-----------------------------------------------------------------------------
(* The relay dedup cache                                                    *)

\* Mutant of RelayIsDup: the cache is not consulted.
RelayIsDupNever(n, h) == FALSE

\* Mutant of RelayIsDup: a later packet of the same sender counts as a copy.
RelayIsDupSender(n, h) ==
    \E i \in DOMAIN relay_dedup[n] :
        /\ relay_dedup[n][i].hash[2] = h[2]
        /\ time - relay_dedup[n][i].timestamp_ms < CACHE_TTL

RelayIsDup(n, h) ==
    \E i \in DOMAIN relay_dedup[n] :
        /\ relay_dedup[n][i].hash = h
        /\ time - relay_dedup[n][i].timestamp_ms < CACHE_TTL

\* The entry at _relay_dedup_idx, the oldest, is overwritten.
RelayRecord(n, h) ==
    LET cache == Append(relay_dedup[n], [hash |-> h, timestamp_ms |-> time])
    IN  relay_dedup' = [relay_dedup EXCEPT
            ![n] = IF Len(cache) > RELAY_DEDUP_SIZE THEN Tail(cache) ELSE cache]

\* The history after n has recorded a hash.
Aged(n) ==
    [x \in DOMAIN relayed |->
        IF x[1] = n /\ relayed[x].since < RELAY_DEDUP_SIZE
        THEN [relayed[x] EXCEPT !.since = @ + 1] ELSE relayed[x]]

\* The history after n has recorded and relayed h.
Relayed(n, h) ==
    LET before == Aged(n)
        now == [time |-> time, since |-> 0,
                turn |-> IF <<n, h>> \in DOMAIN relayed
                         THEN ~relayed[<<n, h>>].turn ELSE TRUE]
    IN  [x \in DOMAIN relayed \cup {<<n, h>>} |-> IF x = <<n, h>> THEN now ELSE before[x]]

\* How often m gets a packet that n sends to each peer in S: _send_to_peer writes
\* to a peer to which n is the central, and for any other notifies all centrals.
Copies(n, S, m) ==
    IF m \in Centrals[n] THEN Cardinality(S \cap Centrals[n])
    ELSE IF m \in S THEN 1 ELSE 0

\* The connections after n has sent p to the neighbours in S.
SendTo(lk, n, S, p) ==
    [l \in Links |-> IF l[1] = n THEN lk[l] \o [i \in 1 .. Copies(n, S, l[2]) |-> p]
                    ELSE lk[l]]

-----------------------------------------------------------------------------
(* What devices originate                                                   *)

Originate(p) ==
    /\ sends < MaxSends
    /\ sends' = sends + 1
    /\ spoken' = IF p.type = "MESSAGE" THEN spoken \cup {Hash(p)} ELSE spoken
    /\ UNCHANGED <<sign_pubkey, nickname, time, losses, handled, halved>>

\* _send_announce, to one peer (on connection, periodically or when asked); it
\* is not recorded.
SendAnnounce(n, m) ==
    \E p \in AnnouncesOf(n) :
        /\ Originate(p)
        /\ link' = SendTo(link, n, {m}, p)
        /\ UNCHANGED <<relay_dedup, relayed>>

\* send_text: every peer gets a packet; it is not recorded.
SendText(n) ==
    \E p \in MessagesOf(n) :
        /\ Originate(p)
        /\ link' = SendTo(link, n, Neighbours[n], p)
        /\ UNCHANGED <<relay_dedup, relayed>>

\* announce_virtual and send_text_as, recorded and sent to every peer.
SendAs(n, v) ==
    \E p \in {Announce(v), Message(v)} :
        /\ Originate(p)
        /\ RelayRecord(n, Hash(p))
        /\ relayed' = Aged(n)
        /\ link' = SendTo(link, n, Neighbours[n], p)

-----------------------------------------------------------------------------
(* _process_incoming                                                        *)

\* The connections once n has taken the first packet of l.
Rest(l) == [link EXCEPT ![l] = Tail(@)]

\* The signature was made with this key, over the packet with its first TTL.
SignatureHolds(p, key) == p.sender = key /\ p.ttl = BITCHAT_MAX_HOPS

\* Mutant of Verifies: messages are not verified.
VerifiesAnnounces(l, p) ==
    p.signed /\ p.type = "ANNOUNCE" /\ "SIGNING_PUBKEY" \in p.tlvs
        => SignatureHolds(p, p.sender)

\* A packet that has a signature is verified: an announce with the key in it, if
\* it has one, any other packet with the key stored for the connection, if there
\* is one.
Verifies(l, p) ==
    p.signed =>
        IF p.type = "ANNOUNCE"
        THEN "SIGNING_PUBKEY" \in p.tlvs => SignatureHolds(p, p.sender)
        ELSE sign_pubkey[l] # Nobody => SignatureHolds(p, sign_pubkey[l])

\* _relay_packet: unless the cache has it, the packet goes to all peers but the
\* one it came from, with a smaller TTL.
RelayPacket(l, p) ==
    LET n == l[2]
        h == Hash(p)
        copy == [p EXCEPT !.ttl = (@ + 255) % 256, !.hops = OneMore(@)]
    IN  IF RelayIsDup(n, h)
        THEN link' = Rest(l) /\ UNCHANGED <<relay_dedup, relayed>>
        ELSE /\ RelayRecord(n, h)
             /\ link' = SendTo(Rest(l), n, Neighbours[n] \ {l[1]}, copy)
             /\ relayed' = Relayed(n, h)

\* Mutant of RelayOrNot: a TTL of 1 is relayed as well.
RelayAlways(l, p) == RelayPacket(l, p)

RelayOrNot(l, p) ==
    IF p.ttl > 1 THEN RelayPacket(l, p)
    ELSE link' = Rest(l) /\ UNCHANGED <<relay_dedup, relayed>>

\* Mutant of Discard: the packet stays in the ring.
DiscardKept(l) ==
    /\ link[l] # <<>>
    /\ ~Verifies(l, Head(link[l]))
    /\ UNCHANGED vars

\* The signature does not hold: the packet is dropped.
Discard(l) ==
    /\ link[l] # <<>>
    /\ ~Verifies(l, Head(link[l]))
    /\ link' = Rest(l)
    /\ UNCHANGED <<sign_pubkey, nickname, relay_dedup, time, sends, losses,
                   spoken, handled, halved, relayed>>

\* A name or key of the connection, after an announce that may hold one.
Stored(old, l, p, tlv) == IF tlv \in p.tlvs THEN [old EXCEPT ![l] = p.sender] ELSE old

\* _handle_announce: the name and the key of the connection are those of the
\* announce, whoever it is from, each if the announce holds one.  Our own announce
\* was sent on connection (announce_sent), so none is sent in answer; the
\* handshake that a central may start is in PeerSessions.
HandleAnnounce(l) ==
    LET p == Head(link[l])
    IN  /\ link[l] # <<>>
        /\ p.type = "ANNOUNCE"
        /\ Verifies(l, p)
        /\ sign_pubkey' = Stored(sign_pubkey, l, p, "SIGNING_PUBKEY")
        /\ nickname' = Stored(nickname, l, p, "NICKNAME")
        /\ halved' = IF p.tlvs \in {{}, Tlvs} THEN halved ELSE halved \cup {l}
        /\ RelayOrNot(l, p)
        /\ UNCHANGED <<time, sends, losses, spoken, handled>>

\* _handle_message: passed on under the name of the connection, if it has one,
\* and else under a name in the message or the sender's id.
HandleMessage(l) ==
    LET p == Head(link[l])
    IN  /\ link[l] # <<>>
        /\ p.type = "MESSAGE"
        /\ Verifies(l, p)
        /\ handled' = handled \cup
              {[node |-> l[2], hash |-> Hash(p),
                shown |-> IF nickname[l] = Nobody THEN p.sender ELSE nickname[l],
                whole |-> l \notin halved]}
        /\ RelayOrNot(l, p)
        /\ UNCHANGED <<sign_pubkey, nickname, time, sends, losses, spoken, halved>>

Receive(l) == Discard(l) \/ HandleAnnounce(l) \/ HandleMessage(l)

-----------------------------------------------------------------------------
(* Losses and time                                                          *)

MoreEvents == time + losses < MaxEvents /\ sends < MaxSends

\* The radio loses a packet.
Lose(l) ==
    /\ link[l] # <<>>
    /\ MoreEvents
    /\ losses' = losses + 1
    /\ link' = Rest(l)
    /\ UNCHANGED <<sign_pubkey, nickname, relay_dedup, time, sends, spoken, handled,
                   halved, relayed>>

Tick ==
    /\ MoreEvents
    /\ time' = time + 1
    /\ UNCHANGED <<link, sign_pubkey, nickname, relay_dedup, sends, losses,
                   spoken, handled, halved, relayed>>

Next ==
    \/ \E n \in Originators :
        \/ SendText(n)
        \/ \E m \in Neighbours[n] : SendAnnounce(n, m)
    \/ \E n \in Nodes : \E v \in Virtual[n] : SendAs(n, v)
    \/ \E l \in Links : Receive(l) \/ Lose(l)
    \/ Tick

\* Devices drain their receive rings in their loops: while a packet waits, some
\* packet is received.
Fairness == WF_vars(\E l \in Links : Receive(l))

Spec == Init /\ [][Next]_vars /\ Fairness

-----------------------------------------------------------------------------
(* Properties                                                               *)

HashType == {"ANNOUNCE", "MESSAGE"} \X Identities \X (0 .. MaxSends - 1) \X BOOLEAN

PacketType ==
    [type : {"ANNOUNCE", "MESSAGE"}, sender : Identities, number : 0 .. MaxSends - 1,
     signed : BOOLEAN, tlvs : SUBSET Tlvs, ttl : 0 .. 255, hops : Nat]

\* Type invariant; the cache never grows beyond RELAY_DEDUP_SIZE.
TypeOK ==
    /\ link \in [Links -> Seq(PacketType)]
    /\ sign_pubkey \in [Links -> Identities \cup {Nobody}]
    /\ nickname \in [Links -> Identities \cup {Nobody}]
    /\ relay_dedup \in [Nodes -> Seq([hash : HashType, timestamp_ms : 0 .. MaxEvents])]
    /\ \A n \in Nodes : Len(relay_dedup[n]) <= RELAY_DEDUP_SIZE
    /\ time \in 0 .. MaxEvents /\ sends \in 0 .. MaxSends /\ losses \in 0 .. MaxEvents
    /\ spoken \subseteq HashType
    /\ handled \subseteq [node : Nodes, hash : HashType,
                          shown : Identities \cup {Nobody}, whole : BOOLEAN]
    /\ halved \subseteq Links
    /\ DOMAIN relayed \subseteq Nodes \X HashType
    /\ relayed \in [DOMAIN relayed ->
                       [time : 0 .. MaxEvents, since : 0 .. RELAY_DEDUP_SIZE, turn : BOOLEAN]]

\* A packet never crosses more than BITCHAT_MAX_HOPS connections, whatever
\* loops the connections form: relaying stops before the TTL byte wraps.
HopLimit ==
    \A l \in Links : \A i \in DOMAIN link[l] : link[l][i].hops <= BITCHAT_MAX_HOPS

\* A signed message is passed to the bridge under the name of the identity that
\* sent it, although the name is looked up by the connection, which announces of
\* others overwrite: as long as every announce on the connection held both name
\* and key, or neither, the name is that of the key that verifies the message.
ShownUnderSender ==
    \A x \in handled : x.hash[4] /\ x.whole => x.shown = x.hash[2]

\* A device relays a packet again only after CACHE_TTL, or after
\* RELAY_DEDUP_SIZE other packets have pushed it out of the cache.
RelayedOnce ==
    [][\A x \in DOMAIN relayed :
           relayed'[x].turn # relayed[x].turn =>
               \/ time - relayed[x].time >= CACHE_TTL
               \/ relayed[x].since = RELAY_DEDUP_SIZE]_vars

\* Flooding ends: once devices originate nothing more, the air falls silent,
\* also where connections form loops.
FloodEnds == <>[](\A l \in Links : link[l] = <<>>)

\* The mesh is connected, and the TTL covers the longest way round it: no set of
\* devices is closed under connections but all of them, and there is at most one
\* device more than a packet may cross connections.
WithinReach ==
    /\ IsFiniteSet(Nodes)
    /\ Cardinality(Nodes) <= BITCHAT_MAX_HOPS + 1
    /\ \A S \in SUBSET Nodes :
          S # {} /\ (\A n \in S : Neighbours[n] \subseteq S) => S = Nodes

\* When the air has fallen silent, everybody has every message that nothing was
\* there to verify, because it has no signature or because no key was announced:
\* a cache that is too small or a TTL used up on a detour keeps it from no one, if
\* the TTL covers the longest way round.
SilentMeshReached ==
    /\ \A l \in Links : link[l] = <<>>
    /\ losses = 0
    => \A h \in spoken, n \in Nodes :
          \/ h[2] \in {n} \cup Virtual[n]
          \/ \E x \in handled : x.node = n /\ x.hash = h
          \/ h[4] /\ \E l \in Links : sign_pubkey[l] # Nobody

\* No genuine packet is dropped for its signature, so that whoever is within
\* reach of the flood gets it.
GenuineNotDropped == \A l \in Links : link[l] # <<>> => Verifies(l, Head(link[l]))
=============================================================================
