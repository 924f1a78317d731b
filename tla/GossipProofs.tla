---------------------------- MODULE GossipProofs ----------------------------
(***************************************************************************)
(* Proofs about the gossip relay: its types, that no packet crosses more    *)
(* connections than the TTL allows, that signed messages are shown under    *)
(* the name of their sender, that a packet in the dedup cache is not        *)
(* relayed again, and that a message which nothing can verify reaches the   *)
(* whole of a mesh that is small enough.                                    *)
(***************************************************************************)
EXTENDS Gossip, SequenceTheorems, FiniteSetTheorems, TLAPS

-----------------------------------------------------------------------------
(* The inductive invariant                                                  *)

\* On every connection the TTL of a packet says how many connections it has
\* crossed: the two move together, and the TTL of a packet on its way is never 0.
TtlCountsHops ==
    \A l \in Links : \A i \in DOMAIN link[l] :
        /\ link[l][i].ttl >= 1
        /\ link[l][i].hops + link[l][i].ttl = BITCHAT_MAX_HOPS + 1

\* The name shown for a connection and the key that verifies its messages are
\* those of the same identity, unless an announce held only one of them.
NameIsKey == \A l \in Links : l \notin halved => nickname[l] = sign_pubkey[l]

\* A packet that was relayed fewer than RELAY_DEDUP_SIZE records ago is in the
\* cache, at its age, with the time of the relaying.
CacheHoldsRelayed ==
    \A x \in DOMAIN relayed :
        relayed[x].since < RELAY_DEDUP_SIZE =>
            LET cache == relay_dedup[x[1]]
                k == Len(cache) - relayed[x].since
            IN  /\ k >= 1
                /\ cache[k].hash = x[2]
                /\ cache[k].timestamp_ms = relayed[x].time

IInv == TypeOK /\ TtlCountsHops /\ NameIsKey /\ ShownUnderSender /\ CacheHoldsRelayed

-----------------------------------------------------------------------------
(* What is on the connections                                               *)

GoodPacket(p) ==
    p \in PacketType /\ p.ttl >= 1 /\ p.hops + p.ttl = BITCHAT_MAX_HOPS + 1

GoodLinks(lk) ==
    /\ lk \in [Links -> Seq(PacketType)]
    /\ \A l \in Links : \A i \in DOMAIN lk[l] : GoodPacket(lk[l][i])

\* What a device may originate for an identity, whatever it is that does.
NewPackets(who) ==
    {Packet(type, who, signed, tlvs) :
        type \in {"ANNOUNCE", "MESSAGE"}, signed \in BOOLEAN, tlvs \in SUBSET Tlvs}

LEMMA PacketIsNew ==
    ASSUME NEW type \in {"ANNOUNCE", "MESSAGE"}, NEW who, NEW signed \in BOOLEAN,
           NEW tlvs \in SUBSET Tlvs
    PROVE  /\ Packet(type, who, signed, tlvs) \in NewPackets(who)
           /\ Packet(type, who, signed, tlvs).type = type
  <1>1. Packet(type, who, signed, tlvs).type = type
    BY DEF Packet
  <1>2. Packet(type, who, signed, tlvs) \in NewPackets(who)
    BY DEF NewPackets
  <1>. QED
    BY <1>1, <1>2

LEMMA OriginatedIsNew ==
    /\ \A n \in Nodes : \A p \in AnnouncesOf(n) :
          p \in NewPackets(n) /\ p.type = "ANNOUNCE"
    /\ \A n \in Nodes : \A p \in MessagesOf(n) :
          p \in NewPackets(n) /\ p.type = "MESSAGE"
    /\ \A who : Announce(who) \in NewPackets(who) /\ Message(who) \in NewPackets(who)
  <1>1. TRUE \in BOOLEAN /\ Tlvs \in SUBSET Tlvs /\ {} \in SUBSET Tlvs
    OBVIOUS
  <1>2. ASSUME NEW who
        PROVE  /\ Announce(who) \in NewPackets(who) /\ Announce(who).type = "ANNOUNCE"
               /\ Message(who) \in NewPackets(who) /\ Message(who).type = "MESSAGE"
    BY <1>1, PacketIsNew DEF Announce, Message
  <1>3. ASSUME NEW n \in Nodes, NEW p \in AnnouncesOf(n)
        PROVE  p \in NewPackets(n) /\ p.type = "ANNOUNCE"
    <2>1. CASE n \in Phones
      <3>1. PICK form \in PhoneAnnounces : p = Packet("ANNOUNCE", n, form[1], form[2])
        BY <1>3, <2>1 DEF AnnouncesOf
      <3>2. form[1] \in BOOLEAN /\ form[2] \in SUBSET Tlvs
        BY GossipAssumption
      <3>. QED
        BY <3>1, <3>2, PacketIsNew
    <2>2. CASE n \notin Phones
      BY <1>2, <1>3, <2>2 DEF AnnouncesOf
    <2>. QED
      BY <2>1, <2>2
  <1>4. ASSUME NEW n \in Nodes, NEW p \in MessagesOf(n)
        PROVE  p \in NewPackets(n) /\ p.type = "MESSAGE"
    <2>1. CASE n \in Phones
      <3>1. PICK signed \in BOOLEAN : p = Packet("MESSAGE", n, signed, {})
        BY <1>4, <2>1 DEF MessagesOf
      <3>. QED
        BY <1>1, <3>1, PacketIsNew
    <2>2. CASE n \notin Phones
      BY <1>2, <1>4, <2>2 DEF MessagesOf
    <2>. QED
      BY <2>1, <2>2
  <1>. QED
    BY <1>2, <1>3, <1>4

\* A packet that a device originates starts with the full TTL and a new number.
LEMMA OriginatedIsGood ==
    ASSUME TypeOK, NEW who \in Identities, NEW p \in NewPackets(who), sends < MaxSends
    PROVE  GoodPacket(p) /\ Hash(p) \in HashType
  <1>1. sends \in 0 .. MaxSends - 1
    BY GossipAssumption DEF TypeOK
  <1>2. PICK type \in {"ANNOUNCE", "MESSAGE"}, signed \in BOOLEAN, tlvs \in SUBSET Tlvs :
            p = Packet(type, who, signed, tlvs)
    BY DEF NewPackets
  <1>3. p \in PacketType /\ p.ttl = BITCHAT_MAX_HOPS /\ p.hops = 1
    BY <1>1, <1>2, GossipAssumption DEF Packet, PacketType
  <1>4. Hash(p) \in HashType
    BY <1>3 DEF PacketType, Hash, HashType
  <1>. QED
    BY <1>3, <1>4, GossipAssumption DEF GoodPacket

LEMMA NewPacketParts ==
    ASSUME NEW who, NEW p \in NewPackets(who)
    PROVE  /\ p.type \in {"ANNOUNCE", "MESSAGE"} /\ p.hops = 1 /\ p.number = sends
           /\ Hash(p)[1] = p.type /\ Hash(p)[2] = who /\ Hash(p)[3] = sends
  <1>1. PICK type \in {"ANNOUNCE", "MESSAGE"}, signed \in BOOLEAN, tlvs \in SUBSET Tlvs :
            p = Packet(type, who, signed, tlvs)
    BY DEF NewPackets
  <1>2. /\ p.type = type /\ p.hops = 1 /\ p.number = sends /\ p.sender = who
    BY <1>1 DEF Packet
  <1>. QED
    BY <1>2 DEF Hash

\* Which identities a device originates packets for.
LEMMA Speakers ==
    ASSUME NEW n \in Nodes
    PROVE  n \in Identities /\ Virtual[n] \subseteq Identities
  BY DEF Identities

-----------------------------------------------------------------------------
\* A connection with some copies of p more.
With(s, p, c) == s \o [i \in 1 .. c |-> p]

\* What such a connection w holds: what s held, and p.
Extends(w, s, p, c) ==
    /\ DOMAIN w = 1 .. Len(s) + c
    /\ \A i \in 1 .. Len(s) : w[i] = s[i]
    /\ \A i \in Len(s) + 1 .. Len(s) + c : w[i] = p

LEMMA WithCopies ==
    ASSUME NEW E, NEW s \in Seq(E), NEW p \in E, NEW c \in Nat
    PROVE  With(s, p, c) \in Seq(E) /\ Extends(With(s, p, c), s, p, c)
  <1>. DEFINE copies == [i \in 1 .. c |-> p]
  <1>1. copies \in Seq(E) /\ Len(copies) = c /\ \A i \in 1 .. c : copies[i] = p
    OBVIOUS
  <1>. HIDE DEF copies
  <1>2. /\ s \o copies \in Seq(E)
        /\ DOMAIN (s \o copies) = 1 .. Len(s) + c
        /\ \A i \in 1 .. Len(s) : (s \o copies)[i] = s[i]
    BY <1>1
  <1>3. ASSUME NEW i \in Len(s) + 1 .. Len(s) + c
        PROVE  (s \o copies)[i] = p
    <2>1. (s \o copies)[i] = copies[i - Len(s)] /\ i - Len(s) \in 1 .. c
      BY <1>1
    <2>. QED
      BY <1>1, <2>1
  <1>. QED
    BY <1>2, <1>3 DEF With, Extends, copies

LEMMA WithHolds ==
    ASSUME NEW s \in Seq(PacketType), NEW p, NEW c \in Nat
    PROVE  Extends(With(s, p, c), s, p, c)
  <1>. DEFINE some == PacketType \cup {p}
  <1>1. s \in Seq(some) /\ p \in some
    OBVIOUS
  <1>. HIDE DEF some
  <1>. QED
    BY <1>1, WithCopies

\* So each packet in it is one of s, or p.
LEMMA WithEither ==
    ASSUME NEW s \in Seq(PacketType), NEW p, NEW c \in Nat, NEW i \in DOMAIN With(s, p, c)
    PROVE  With(s, p, c)[i] = p \/ (i \in DOMAIN s /\ With(s, p, c)[i] = s[i])
  <1>. DEFINE w == With(s, p, c)
  <1>1. Extends(w, s, p, c)
    BY WithHolds
  <1>2. DOMAIN s = 1 .. Len(s) /\ Len(s) \in Nat /\ i \in DOMAIN w
    OBVIOUS
  <1>. HIDE DEF w
  <1>3. w[i] = p \/ (i \in DOMAIN s /\ w[i] = s[i])
    BY <1>1, <1>2 DEF Extends
  <1>. QED
    BY <1>3 DEF w

\* Each neighbour that a packet is sent to gets a copy, and perhaps more.
LEMMA CopiesMade ==
    ASSUME NEW l \in Links, NEW S
    PROVE  /\ Copies(l[1], S, l[2]) \in Nat
           /\ l[2] \in S => Copies(l[1], S, l[2]) >= 1
  <1>. DEFINE n == l[1]
              m == l[2]
              ways == S \cap Centrals[n]
  <1>1. n \in Nodes
    BY DEF Links
  <1>2. IsFiniteSet(ways)
    <2>1. Centrals[n] \subseteq Neighbours[n] /\ IsFiniteSet(Neighbours[n])
      BY <1>1, GossipAssumption
    <2>2. ways \subseteq Neighbours[n]
      BY <2>1
    <2>. QED
      BY <2>1, <2>2, FS_Subset
  <1>3. Cardinality(ways) \in Nat
    BY <1>2, FS_CardinalityType
  <1>4. CASE m \in Centrals[n]
    <2>1. Copies(n, S, m) = Cardinality(ways)
      BY <1>4 DEF Copies
    <2>2. ASSUME m \in S PROVE Cardinality(ways) >= 1
      <3>1. ways # {}
        BY <1>4, <2>2
      <3>2. Cardinality(ways) # 0
        BY <1>2, <3>1, FS_EmptySet
      <3>. QED
        BY <1>3, <3>2
    <2>. QED
      BY <1>3, <2>1, <2>2
  <1>5. CASE m \notin Centrals[n]
    BY <1>5 DEF Copies
  <1>. QED
    BY <1>4, <1>5

\* The connections after sending, one by one.
LEMMA SendAdds ==
    ASSUME NEW lk, NEW n, NEW S, NEW p, NEW l \in Links
    PROVE  /\ l[1] # n => SendTo(lk, n, S, p)[l] = lk[l]
           /\ l[1] = n => \E c \in Nat :
                             /\ l[2] \in S => c >= 1
                             /\ SendTo(lk, n, S, p)[l] = With(lk[l], p, c)
  <1>1. SendTo(lk, n, S, p)[l] = IF l[1] = n THEN With(lk[l], p, Copies(n, S, l[2]))
                                 ELSE lk[l]
    BY DEF SendTo, With
  <1>2. l[1] = n => /\ Copies(n, S, l[2]) \in Nat
                    /\ l[2] \in S => Copies(n, S, l[2]) >= 1
    BY CopiesMade
  <1>. HIDE DEF SendTo, With, Copies
  <1>. QED
    BY <1>1, <1>2

\* Sending a good packet leaves only good ones on the connections.
LEMMA SendKeepsGood ==
    ASSUME NEW lk, GoodLinks(lk), NEW n, NEW S, NEW p, GoodPacket(p)
    PROVE  GoodLinks(SendTo(lk, n, S, p))
  <1>. DEFINE after == SendTo(lk, n, S, p)
  <1>1. \A l \in Links : \/ after[l] = lk[l]
                         \/ \E c \in Nat : after[l] = With(lk[l], p, c)
    BY SendAdds
  <1>2. after = [l \in Links |-> after[l]]
    BY DEF SendTo
  <1>. HIDE DEF after
  <1>3. ASSUME NEW l \in Links
        PROVE  /\ after[l] \in Seq(PacketType)
               /\ \A i \in DOMAIN after[l] : GoodPacket(after[l][i])
    <2>. DEFINE s == lk[l]
    <2>1. /\ s \in Seq(PacketType) /\ p \in PacketType
          /\ \A i \in DOMAIN s : GoodPacket(s[i])
      BY DEF GoodLinks, GoodPacket
    <2>. HIDE DEF s
    <2>2. ASSUME NEW c \in Nat
          PROVE  /\ With(s, p, c) \in Seq(PacketType)
                 /\ \A i \in DOMAIN With(s, p, c) : GoodPacket(With(s, p, c)[i])
      <3>1. With(s, p, c) \in Seq(PacketType)
        BY <2>1, WithCopies
      <3>2. \A i \in DOMAIN With(s, p, c) :
                With(s, p, c)[i] = p \/ (i \in DOMAIN s /\ With(s, p, c)[i] = s[i])
        BY <2>1, WithEither
      <3>. QED
        BY <2>1, <3>1, <3>2
    <2>3. after[l] = s \/ \E c \in Nat : after[l] = With(s, p, c)
      BY <1>1 DEF s
    <2>. QED
      BY <2>1, <2>2, <2>3
  <1>4. GoodLinks(after)
    BY <1>2, <1>3 DEF GoodLinks
  <1>. QED
    BY <1>4 DEF after

\* So does taking the first packet of a connection.
LEMMA RestIsGood ==
    ASSUME GoodLinks(link), NEW l \in Links, link[l] # <<>>
    PROVE  GoodLinks(Rest(l)) /\ GoodPacket(Head(link[l]))
  <1>. DEFINE s == link[l]
  <1>1. s \in Seq(PacketType) /\ s # <<>> /\ \A i \in DOMAIN s : GoodPacket(s[i])
    BY DEF GoodLinks
  <1>. HIDE DEF s
  <1>2. /\ Tail(s) \in Seq(PacketType)
        /\ \A i \in DOMAIN Tail(s) : GoodPacket(Tail(s)[i])
        /\ GoodPacket(Head(s))
    BY <1>1
  <1>. QED
    BY <1>2 DEF s, GoodLinks, Rest

\* A packet with another TTL and another count of hops is a packet.
LEMMA CopyIsPacket ==
    ASSUME NEW p \in PacketType, NEW t \in 0 .. 255, NEW h \in Nat
    PROVE  [p EXCEPT !.ttl = t, !.hops = h] \in PacketType
  <1>. DEFINE r == [p EXCEPT !.ttl = t]
  <1>1. r \in PacketType
    BY DEF PacketType
  <1>. HIDE DEF r
  <1>2. [r EXCEPT !.hops = h] \in PacketType
    BY <1>1 DEF PacketType
  <1>. QED
    BY <1>2 DEF r

\* The copy that is relayed has one TTL less and has crossed one connection more.
LEMMA CopyIsGood ==
    ASSUME NEW p, GoodPacket(p), p.ttl > 1
    PROVE  GoodPacket([p EXCEPT !.ttl = (@ + 255) % 256, !.hops = OneMore(@)])
  <1>1. p.ttl \in 2 .. 255 /\ p.hops \in Nat /\ p.hops < BITCHAT_MAX_HOPS
    BY GossipAssumption DEF GoodPacket, PacketType
  <1>2. (p.ttl + 255) % 256 = p.ttl - 1 /\ OneMore(p.hops) = p.hops + 1
    BY <1>1, GossipAssumption DEF OneMore
  <1>. DEFINE t == (p.ttl + 255) % 256
              h == OneMore(p.hops)
  <1>3. t \in 1 .. 255 /\ h \in Nat /\ h + t = BITCHAT_MAX_HOPS + 1
    BY <1>1, <1>2, GossipAssumption DEF GoodPacket, PacketType
  <1>. HIDE DEF t, h
  <1>. DEFINE q == [p EXCEPT !.ttl = t, !.hops = h]
  <1>4. p \in PacketType
    BY DEF GoodPacket
  <1>5. q.ttl = t /\ q.hops = h
    BY <1>4 DEF PacketType
  <1>6. q \in PacketType
    <2>1. t \in 0 .. 255 /\ h \in Nat
      BY <1>3
    <2>. QED
      BY <1>4, <2>1, CopyIsPacket, Zenon
  <1>7. GoodPacket(q)
    BY <1>3, <1>5, <1>6 DEF GoodPacket
  <1>. QED
    BY <1>7 DEF t, h

\* Handling a packet leaves good packets on the connections.
LEMMA RelayKeepsGood ==
    ASSUME TypeOK, GoodLinks(link), NEW l \in Links, link[l] # <<>>,
           RelayOrNot(l, Head(link[l]))
    PROVE  GoodLinks(link')
  <1>1. GoodLinks(Rest(l)) /\ GoodPacket(Head(link[l]))
    BY RestIsGood
  <1>2. CASE link' = Rest(l)
    BY <1>1, <1>2
  <1>3. CASE link' # Rest(l)
    <2>. DEFINE p == Head(link[l])
                copy == [p EXCEPT !.ttl = (@ + 255) % 256, !.hops = OneMore(@)]
    <2>1. p.ttl > 1 /\ link' = SendTo(Rest(l), l[2], Neighbours[l[2]] \ {l[1]}, copy)
      BY <1>3 DEF RelayOrNot, RelayPacket
    <2>2. GoodPacket(copy)
      BY <1>1, <2>1, CopyIsGood
    <2>. QED
      BY <1>1, <2>1, <2>2, SendKeepsGood
  <1>. QED
    BY <1>2, <1>3

\* Every step leaves good packets on the connections.
LEMMA StepKeepsGood ==
    ASSUME TypeOK, GoodLinks(link), [Next]_vars
    PROVE  GoodLinks(link')
  <1>1. CASE UNCHANGED vars
    BY <1>1 DEF vars
  <1>2. CASE Tick
    BY <1>2 DEF Tick
  <1>3. ASSUME NEW n \in Nodes, SendText(n) \/ \E m \in Neighbours[n] : SendAnnounce(n, m)
        PROVE  GoodLinks(link')
    <2>1. PICK p \in NewPackets(n) :
              Originate(p) /\ \E S : link' = SendTo(link, n, S, p)
      BY <1>3, OriginatedIsNew DEF SendText, SendAnnounce
    <2>. QED
      BY <2>1, Speakers, OriginatedIsGood, SendKeepsGood DEF Originate
  <1>4. ASSUME NEW n \in Nodes, NEW v \in Virtual[n], SendAs(n, v)
        PROVE  GoodLinks(link')
    <2>1. PICK p \in NewPackets(v) :
              Originate(p) /\ \E S : link' = SendTo(link, n, S, p)
      BY <1>4, OriginatedIsNew DEF SendAs
    <2>2. v \in Identities
      BY Speakers
    <2>. QED
      BY <2>1, <2>2, OriginatedIsGood, SendKeepsGood DEF Originate
  <1>5. Originators \subseteq Nodes
    BY GossipAssumption
  <1>6. ASSUME NEW l \in Links, Receive(l)
        PROVE  GoodLinks(link')
    <2>1. link[l] # <<>> /\ (link' = Rest(l) \/ RelayOrNot(l, Head(link[l])))
      BY <1>6 DEF Receive, Discard, HandleAnnounce, HandleMessage
    <2>. QED
      BY <2>1, RestIsGood, RelayKeepsGood
  <1>7. ASSUME NEW l \in Links, Lose(l)
        PROVE  GoodLinks(link')
    BY <1>7, RestIsGood DEF Lose
  <1>. QED
    BY <1>1, <1>2, <1>3, <1>4, <1>5, <1>6, <1>7 DEF Next

-----------------------------------------------------------------------------
(* The dedup cache and its history                                          *)

\* What a step may do to the cache and to the history of relayings: nothing,
\* record a packet of its own, or record and relay one the cache does not have.
CacheStep ==
    \/ UNCHANGED <<relay_dedup, relayed>>
    \/ \E n \in Nodes, h \in HashType :
          /\ RelayRecord(n, h)
          /\ \/ relayed' = Aged(n)
             \/ ~RelayIsDup(n, h) /\ relayed' = Relayed(n, h)

\* Every step does one of these things.
LEMMA StepIsCacheStep ==
    ASSUME TypeOK, GoodLinks(link), [Next]_vars
    PROVE  CacheStep
  <1>1. ASSUME NEW n \in Nodes, NEW v \in Virtual[n], SendAs(n, v)
        PROVE  CacheStep
    <2>1. PICK p \in NewPackets(v) :
              sends < MaxSends /\ RelayRecord(n, Hash(p)) /\ relayed' = Aged(n)
      BY <1>1, OriginatedIsNew DEF SendAs, Originate
    <2>2. v \in Identities
      BY Speakers
    <2>3. Hash(p) \in HashType
      BY <2>1, <2>2, OriginatedIsGood
    <2>. QED
      BY <2>1, <2>3 DEF CacheStep
  <1>2. ASSUME NEW l \in Links, Receive(l)
        PROVE  CacheStep
    <2>1. CASE UNCHANGED <<relay_dedup, relayed>>
      BY <2>1 DEF CacheStep
    <2>2. CASE RelayPacket(l, Head(link[l])) /\ link[l] # <<>>
      <3>1. l[2] \in Nodes
        BY DEF Links
      <3>2. Head(link[l]) \in PacketType
        BY <2>2, RestIsGood DEF GoodPacket
      <3>3. Hash(Head(link[l])) \in HashType
        BY <3>2 DEF PacketType, Hash, HashType
      <3>. QED
        BY <2>2, <3>1, <3>3 DEF RelayPacket, CacheStep
    <2>. QED
      BY <1>2, <2>1, <2>2
      DEF Receive, Discard, HandleAnnounce, HandleMessage, RelayOrNot
  <1>. QED
    BY <1>1, <1>2
    DEF Next, vars, Tick, Lose, SendText, SendAnnounce, CacheStep

\* What recording a hash does to the cache: the new entry is the youngest, and
\* every other one keeps its hash and time and is one older.
LEMMA RecordShiftsCache ==
    ASSUME TypeOK, NEW n \in Nodes, NEW h \in HashType, RelayRecord(n, h)
    PROVE  /\ relay_dedup' \in
                [Nodes -> Seq([hash : HashType, timestamp_ms : 0 .. MaxEvents])]
           /\ \A m \in Nodes \ {n} : relay_dedup'[m] = relay_dedup[m]
           /\ Len(relay_dedup'[n]) \in 1 .. RELAY_DEDUP_SIZE
           /\ relay_dedup'[n][Len(relay_dedup'[n])] = [hash |-> h, timestamp_ms |-> time]
           /\ \A a \in 0 .. RELAY_DEDUP_SIZE - 2 : a < Len(relay_dedup[n]) =>
                 /\ a + 1 < Len(relay_dedup'[n])
                 /\ relay_dedup'[n][Len(relay_dedup'[n]) - (a + 1)]
                       = relay_dedup[n][Len(relay_dedup[n]) - a]
  <1>. DEFINE E == [hash : HashType, timestamp_ms : 0 .. MaxEvents]
              e == [hash |-> h, timestamp_ms |-> time]
              s == relay_dedup[n]
              t == IF Len(Append(s, e)) > RELAY_DEDUP_SIZE
                   THEN Tail(Append(s, e)) ELSE Append(s, e)
  <1>1. e \in E
    BY DEF TypeOK
  <1>2. s \in Seq(E) /\ Len(s) <= RELAY_DEDUP_SIZE
    BY DEF TypeOK
  <1>3. relay_dedup' = [relay_dedup EXCEPT ![n] = t]
    BY DEF RelayRecord
  <1>4. relay_dedup \in [Nodes -> Seq(E)]
    BY DEF TypeOK
  <1>. HIDE DEF s, e, E
  <1>5. Append(s, e) \in Seq(E) /\ Len(Append(s, e)) = Len(s) + 1 /\ Append(s, e) # <<>>
    BY <1>1, <1>2
  <1>6. t \in Seq(E) /\ Len(t) \in 1 .. RELAY_DEDUP_SIZE /\ t[Len(t)] = e
    <2>1. Append(s, e)[Len(s) + 1] = e /\ Len(s) \in Nat
      BY <1>1, <1>2
    <2>2. CASE Len(s) + 1 > RELAY_DEDUP_SIZE
      <3>1. t = Tail(Append(s, e)) /\ Len(s) = RELAY_DEDUP_SIZE
        BY <1>2, <1>5, <2>1, <2>2, GossipAssumption
      <3>2. t \in Seq(E) /\ Len(t) = Len(s) /\ t[Len(s)] = e
        <4>1. /\ Tail(Append(s, e)) \in Seq(E)
              /\ Len(Tail(Append(s, e))) = Len(s)
          BY <1>5, <2>1
        <4>2. Tail(Append(s, e))[Len(s)] = Append(s, e)[Len(s) + 1]
          BY <1>5, <2>1, <2>2, GossipAssumption
        <4>. QED
          BY <2>1, <3>1, <4>1, <4>2
      <3>. QED
        BY <3>1, <3>2, GossipAssumption
    <2>3. CASE ~(Len(s) + 1 > RELAY_DEDUP_SIZE)
      <3>1. t = Append(s, e)
        BY <1>5, <2>3
      <3>. QED
        BY <1>5, <2>1, <2>3, <3>1, GossipAssumption
    <2>. QED
      BY <2>2, <2>3
  <1>7. ASSUME NEW a \in 0 .. RELAY_DEDUP_SIZE - 2, a < Len(s)
        PROVE  a + 1 < Len(t) /\ t[Len(t) - (a + 1)] = s[Len(s) - a]
    <2>1. Len(s) \in Nat /\ \A i \in 1 .. Len(s) : Append(s, e)[i] = s[i]
      BY <1>1, <1>2
    <2>2. CASE Len(s) + 1 > RELAY_DEDUP_SIZE
      <3>1. t = Tail(Append(s, e)) /\ Len(s) = RELAY_DEDUP_SIZE
        BY <1>2, <1>5, <2>1, <2>2, GossipAssumption
      <3>2. /\ Len(t) = Len(s)
            /\ \A i \in 1 .. Len(s) : t[i] = Append(s, e)[i + 1]
        BY <1>5, <2>1, <3>1
      <3>. HIDE DEF t
      <3>3. Len(t) - (a + 1) \in 1 .. Len(s) /\ Len(s) - a \in 1 .. Len(s)
        BY <1>7, <2>1, <3>1, <3>2, GossipAssumption
      <3>4. (Len(t) - (a + 1)) + 1 = Len(s) - a
        BY <2>1, <3>2, <3>3
      <3>5. t[Len(t) - (a + 1)] = s[Len(s) - a]
        BY <2>1, <3>2, <3>3, <3>4
      <3>. QED
        BY <2>1, <3>1, <3>2, <3>5, GossipAssumption
    <2>3. CASE ~(Len(s) + 1 > RELAY_DEDUP_SIZE)
      <3>1. t = Append(s, e)
        BY <1>5, <2>3
      <3>. HIDE DEF t
      <3>2. Len(t) = Len(s) + 1
        BY <1>5, <3>1
      <3>3. Len(s) - a \in 1 .. Len(s) /\ Len(t) - (a + 1) = Len(s) - a
        BY <1>7, <2>1, <3>2
      <3>. QED
        BY <1>7, <2>1, <3>1, <3>2, <3>3
    <2>. QED
      BY <2>2, <2>3
  <1>8. relay_dedup'[n] = t /\ \A m \in Nodes \ {n} : relay_dedup'[m] = relay_dedup[m]
    BY <1>3, <1>4
  <1>9. relay_dedup' \in [Nodes -> Seq(E)]
    BY <1>3, <1>4, <1>6
  <1>. QED
    BY <1>6, <1>7, <1>8, <1>9 DEF s, e, E

HistoryType ==
    /\ DOMAIN relayed \subseteq Nodes \X HashType
    /\ relayed \in [DOMAIN relayed ->
                       [time : 0 .. MaxEvents, since : 0 .. RELAY_DEDUP_SIZE, turn : BOOLEAN]]

CacheType ==
    /\ relay_dedup \in [Nodes -> Seq([hash : HashType, timestamp_ms : 0 .. MaxEvents])]
    /\ \A n \in Nodes : Len(relay_dedup[n]) <= RELAY_DEDUP_SIZE

\* The history after recording: what it holds for a packet other than the one
\* that is relayed.
LEMMA AgedHistory ==
    ASSUME TypeOK, NEW n \in Nodes, NEW x \in DOMAIN relayed
    PROVE  /\ Aged(n)[x].time = relayed[x].time
           /\ Aged(n)[x].turn = relayed[x].turn
           /\ Aged(n)[x].since =
                 IF x[1] = n /\ relayed[x].since < RELAY_DEDUP_SIZE
                 THEN relayed[x].since + 1 ELSE relayed[x].since
           /\ Aged(n)[x] \in
                 [time : 0 .. MaxEvents, since : 0 .. RELAY_DEDUP_SIZE, turn : BOOLEAN]
  <1>. DEFINE R == [time : 0 .. MaxEvents, since : 0 .. RELAY_DEDUP_SIZE, turn : BOOLEAN]
              r == relayed[x]
              a == Aged(n)[x]
  <1>1. r \in R
    BY DEF TypeOK
  <1>2. a = IF x[1] = n /\ r.since < RELAY_DEDUP_SIZE
            THEN [r EXCEPT !.since = @ + 1] ELSE r
    BY DEF Aged
  <1>. HIDE DEF a, r
  <1>3. CASE x[1] = n /\ r.since < RELAY_DEDUP_SIZE
    <2>. DEFINE k == r.since + 1
    <2>1. k \in 0 .. RELAY_DEDUP_SIZE
      BY <1>1, <1>3, GossipAssumption
    <2>2. a = [r EXCEPT !.since = k]
      BY <1>2, <1>3
    <2>. HIDE DEF k
    <2>3. a \in R
      BY <1>1, <2>1, <2>2
    <2>4. a.time = r.time /\ a.turn = r.turn /\ a.since = k
      BY <1>1, <2>2
    <2>. QED
      BY <1>3, <2>3, <2>4 DEF a, r, k
  <1>4. CASE ~(x[1] = n /\ r.since < RELAY_DEDUP_SIZE)
    <2>1. a = r
      BY <1>2, <1>4
    <2>. QED
      BY <1>1, <1>4, <2>1 DEF a, r
  <1>. QED
    BY <1>3, <1>4

\* An entry that was in the cache at its age is still there, one older.
LEMMA AgedIsHeld ==
    ASSUME TypeOK, CacheHoldsRelayed, NEW n \in Nodes, NEW h \in HashType,
           RelayRecord(n, h), NEW x \in DOMAIN relayed,
           Aged(n)[x].since < RELAY_DEDUP_SIZE
    PROVE  LET cache == relay_dedup'[x[1]]
               k == Len(cache) - Aged(n)[x].since
           IN  /\ k >= 1
               /\ cache[k].hash = x[2]
               /\ cache[k].timestamp_ms = relayed[x].time
  <1>1. x[1] \in Nodes
    BY DEF TypeOK
  <1>2. relayed[x].since \in 0 .. RELAY_DEDUP_SIZE
    BY DEF TypeOK
  <1>3. CASE x[1] # n
    <2>1. Aged(n)[x].since = relayed[x].since
      BY <1>3, AgedHistory
    <2>2. relay_dedup'[x[1]] = relay_dedup[x[1]]
      BY <1>1, <1>3, RecordShiftsCache
    <2>. QED
      BY <2>1, <2>2 DEF CacheHoldsRelayed
  <1>4. CASE x[1] = n
    <2>. DEFINE a == relayed[x].since
                s == relay_dedup[n]
                t == relay_dedup'[n]
    <2>1. Aged(n)[x].since = IF a < RELAY_DEDUP_SIZE THEN a + 1 ELSE a
      BY <1>4, AgedHistory
    <2>2. a \in 0 .. RELAY_DEDUP_SIZE - 2 /\ Aged(n)[x].since = a + 1
      BY <1>2, <2>1, GossipAssumption
    <2>3. /\ Len(s) - a >= 1
          /\ s[Len(s) - a].hash = x[2]
          /\ s[Len(s) - a].timestamp_ms = relayed[x].time
      <3>1. relayed[x].since < RELAY_DEDUP_SIZE
        BY <2>2, GossipAssumption
      <3>. QED
        BY <1>4, <3>1 DEF CacheHoldsRelayed
    <2>4. Len(s) \in Nat /\ Len(t) \in Nat
      BY RecordShiftsCache, GossipAssumption DEF TypeOK
    <2>5. a < Len(s)
      BY <2>2, <2>3, <2>4
    <2>6. a + 1 < Len(t) /\ t[Len(t) - (a + 1)] = s[Len(s) - a]
      BY <2>2, <2>5, RecordShiftsCache
    <2>7. Len(t) - (a + 1) >= 1
      BY <2>2, <2>4, <2>6
    <2>. QED
      BY <1>4, <2>2, <2>3, <2>6, <2>7
  <1>. QED
    BY <1>3, <1>4

\* The cache and its history stay typed, and together.
LEMMA CacheStepKeeps ==
    ASSUME TypeOK, CacheHoldsRelayed, CacheStep
    PROVE  CacheType' /\ HistoryType' /\ CacheHoldsRelayed'
  <1>1. CASE UNCHANGED <<relay_dedup, relayed>>
    BY <1>1 DEF TypeOK, CacheType, HistoryType, CacheHoldsRelayed
  <1>2. ASSUME NEW n \in Nodes, NEW h \in HashType, RelayRecord(n, h),
               relayed' = Aged(n) \/ relayed' = Relayed(n, h)
        PROVE  CacheType' /\ HistoryType' /\ CacheHoldsRelayed'
    <2>. DEFINE R == [time : 0 .. MaxEvents, since : 0 .. RELAY_DEDUP_SIZE, turn : BOOLEAN]
    <2>1. CacheType'
      <3>1. /\ relay_dedup' \in
                  [Nodes -> Seq([hash : HashType, timestamp_ms : 0 .. MaxEvents])]
            /\ \A m \in Nodes \ {n} : relay_dedup'[m] = relay_dedup[m]
            /\ Len(relay_dedup'[n]) \in 1 .. RELAY_DEDUP_SIZE
        BY <1>2, RecordShiftsCache
      <3>2. ASSUME NEW m \in Nodes PROVE Len(relay_dedup'[m]) <= RELAY_DEDUP_SIZE
        <4>1. CASE m = n
          BY <3>1, <4>1, GossipAssumption
        <4>2. CASE m # n
          BY <3>1, <4>2 DEF TypeOK
        <4>. QED
          BY <4>1, <4>2
      <3>. QED
        BY <3>1, <3>2 DEF CacheType
    <2>2. CASE relayed' = Aged(n)
      <3>1. DOMAIN relayed' = DOMAIN relayed
        BY <2>2 DEF Aged
      <3>2. HistoryType'
        <4>1. \A x \in DOMAIN relayed : Aged(n)[x] \in R
          BY AgedHistory
        <4>2. Aged(n) = [x \in DOMAIN relayed |-> Aged(n)[x]]
          BY DEF Aged
        <4>. HIDE DEF R
        <4>3. relayed' \in [DOMAIN relayed -> R]
          BY <2>2, <4>1, <4>2
        <4>. QED
          BY <3>1, <4>3 DEF HistoryType, TypeOK, R
      <3>3. CacheHoldsRelayed'
        <4>. SUFFICES ASSUME NEW x \in DOMAIN relayed,
                             relayed'[x].since < RELAY_DEDUP_SIZE
                      PROVE  LET cache == relay_dedup'[x[1]]
                                 k == Len(cache) - relayed'[x].since
                             IN  /\ k >= 1
                                 /\ cache[k].hash = x[2]
                                 /\ cache[k].timestamp_ms = relayed'[x].time
          BY <3>1 DEF CacheHoldsRelayed
        <4>1. Aged(n)[x].time = relayed[x].time
          BY AgedHistory
        <4>. QED
          BY <1>2, <2>2, <4>1, AgedIsHeld
      <3>. QED
        BY <2>1, <3>2, <3>3
    <2>3. CASE relayed' = Relayed(n, h)
      <3>. DEFINE y == <<n, h>>
                  now == [time |-> time, since |-> 0,
                          turn |-> IF y \in DOMAIN relayed THEN ~relayed[y].turn ELSE TRUE]
      <3>1. /\ DOMAIN relayed' = DOMAIN relayed \cup {y}
            /\ \A x \in DOMAIN relayed \cup {y} :
                  relayed'[x] = IF x = y THEN now ELSE Aged(n)[x]
            /\ relayed' = [x \in DOMAIN relayed \cup {y} |-> relayed'[x]]
        BY <2>3 DEF Relayed
      <3>2. now \in R
        <4>. DEFINE b == IF y \in DOMAIN relayed THEN ~relayed[y].turn ELSE TRUE
        <4>1. b \in BOOLEAN
          OBVIOUS
        <4>2. time \in 0 .. MaxEvents /\ 0 \in 0 .. RELAY_DEDUP_SIZE
          BY GossipAssumption DEF TypeOK
        <4>. HIDE DEF b
        <4>3. [time |-> time, since |-> 0, turn |-> b] \in R
          BY <4>1, <4>2
        <4>. QED
          BY <4>3 DEF b
      <3>3. relayed'[y].since = 0 /\ relayed'[y].time = time
        BY <3>1
      <3>. HIDE DEF now
      <3>4. HistoryType'
        <4>1. \A x \in DOMAIN relayed : Aged(n)[x] \in R
          BY AgedHistory
        <4>2. \A x \in DOMAIN relayed \cup {y} : relayed'[x] \in R
          BY <3>1, <3>2, <4>1
        <4>. HIDE DEF R
        <4>3. relayed' \in [DOMAIN relayed' -> R]
          BY <3>1, <4>2
        <4>4. DOMAIN relayed' \subseteq Nodes \X HashType
          BY <3>1 DEF TypeOK
        <4>. QED
          BY <4>3, <4>4 DEF HistoryType, R
      <3>5. CacheHoldsRelayed'
        <4>. SUFFICES ASSUME NEW x \in DOMAIN relayed \cup {y},
                             relayed'[x].since < RELAY_DEDUP_SIZE
                      PROVE  LET cache == relay_dedup'[x[1]]
                                 k == Len(cache) - relayed'[x].since
                             IN  /\ k >= 1
                                 /\ cache[k].hash = x[2]
                                 /\ cache[k].timestamp_ms = relayed'[x].time
          BY <3>1 DEF CacheHoldsRelayed
        <4>1. CASE x = y
          <5>1. x[1] = n /\ x[2] = h /\ relayed'[x].since = 0 /\ relayed'[x].time = time
            BY <4>1, <3>3
          <5>2. /\ Len(relay_dedup'[n]) \in 1 .. RELAY_DEDUP_SIZE
                /\ relay_dedup'[n][Len(relay_dedup'[n])]
                      = [hash |-> h, timestamp_ms |-> time]
            BY <1>2, RecordShiftsCache
          <5>. QED
            BY <5>1, <5>2, GossipAssumption
        <4>2. CASE x # y
          <5>1. x \in DOMAIN relayed /\ relayed'[x] = Aged(n)[x]
            BY <4>2, <3>1
          <5>2. Aged(n)[x].time = relayed[x].time
            BY <5>1, AgedHistory
          <5>. QED
            BY <1>2, <5>1, <5>2, AgedIsHeld
        <4>. QED
          BY <4>1, <4>2
      <3>. QED
        BY <2>1, <3>4, <3>5
    <2>. QED
      BY <1>2, <2>2, <2>3
  <1>. QED
    BY <1>1, <1>2 DEF CacheStep

-----------------------------------------------------------------------------
(* The theorems                                                             *)

\* In the invariant, the packets on the connections are good ones.
LEMMA LinksAreGood == TypeOK /\ TtlCountsHops => GoodLinks(link)
  <1>. SUFFICES ASSUME TypeOK, TtlCountsHops, NEW l \in Links, NEW i \in DOMAIN link[l]
                PROVE  GoodPacket(link[l][i])
    BY DEF GoodLinks, TypeOK
  <1>1. link[l] \in Seq(PacketType)
    BY DEF TypeOK
  <1>2. link[l][i] \in PacketType
    BY <1>1
  <1>. QED
    BY <1>2 DEF TtlCountsHops, GoodPacket

\* The invariant holds initially.
LEMMA InitIInv == Init => IInv
  <1>. SUFFICES ASSUME Init PROVE IInv
    OBVIOUS
  <1>1. TypeOK
    BY GossipAssumption DEF Init, TypeOK
  <1>2. TtlCountsHops /\ NameIsKey /\ ShownUnderSender /\ CacheHoldsRelayed
    BY DEF Init, TtlCountsHops, NameIsKey, ShownUnderSender, CacheHoldsRelayed
  <1>. QED
    BY <1>1, <1>2 DEF IInv

HandledType ==
    [node : Nodes, hash : HashType, shown : Identities \cup {Nobody}, whole : BOOLEAN]

\* Names, keys and what was passed to the bridge, through any step.
LEMMA NamesStep ==
    ASSUME IInv, [Next]_vars
    PROVE  /\ sign_pubkey' \in [Links -> Identities \cup {Nobody}]
           /\ nickname' \in [Links -> Identities \cup {Nobody}]
           /\ halved' \subseteq Links
           /\ NameIsKey'
           /\ handled' \subseteq HandledType
           /\ ShownUnderSender'
  <1>. USE DEF IInv
  <1>1. CASE UNCHANGED <<sign_pubkey, nickname, halved, handled>>
    BY <1>1 DEF TypeOK, NameIsKey, ShownUnderSender, HandledType
  <1>2. ASSUME NEW l \in Links, HandleAnnounce(l) \/ HandleMessage(l)
        PROVE  /\ Head(link[l]) \in PacketType
               /\ Hash(Head(link[l])) \in HashType
               /\ Hash(Head(link[l]))[2] = Head(link[l]).sender
               /\ Hash(Head(link[l]))[4] = Head(link[l]).signed
    <2>1. Head(link[l]) \in PacketType
      BY <1>2, LinksAreGood, RestIsGood DEF HandleAnnounce, HandleMessage, GoodPacket
    <2>. QED
      BY <2>1 DEF PacketType, Hash, HashType
  <1>3. ASSUME NEW l \in Links, HandleAnnounce(l)
        PROVE  /\ sign_pubkey' \in [Links -> Identities \cup {Nobody}]
               /\ nickname' \in [Links -> Identities \cup {Nobody}]
               /\ halved' \subseteq Links
               /\ NameIsKey'
               /\ UNCHANGED handled
    <2>. DEFINE who == Head(link[l]).sender
                held == Head(link[l]).tlvs
    <2>1. who \in Identities /\ held \in SUBSET Tlvs
      BY <1>2, <1>3 DEF PacketType
    <2>2. /\ sign_pubkey' = IF "SIGNING_PUBKEY" \in held
                            THEN [sign_pubkey EXCEPT ![l] = who] ELSE sign_pubkey
          /\ nickname' = IF "NICKNAME" \in held
                         THEN [nickname EXCEPT ![l] = who] ELSE nickname
          /\ halved' = IF held \in {{}, Tlvs} THEN halved ELSE halved \cup {l}
          /\ UNCHANGED handled
      BY <1>3 DEF HandleAnnounce, Stored
    <2>. HIDE DEF who, held
    <2>3. /\ sign_pubkey \in [Links -> Identities \cup {Nobody}]
          /\ nickname \in [Links -> Identities \cup {Nobody}]
          /\ halved \subseteq Links
      BY DEF TypeOK
    <2>4. sign_pubkey' \in [Links -> Identities \cup {Nobody}]
      BY <2>1, <2>2, <2>3
    <2>5. nickname' \in [Links -> Identities \cup {Nobody}]
      BY <2>1, <2>2, <2>3
    <2>6. halved' \subseteq Links
      BY <2>2, <2>3
    <2>7. ASSUME NEW c \in Links, c \notin halved' PROVE nickname'[c] = sign_pubkey'[c]
      <3>1. c \notin halved /\ nickname[c] = sign_pubkey[c]
        BY <2>2, <2>7 DEF NameIsKey
      <3>2. CASE c # l
        BY <2>2, <2>3, <3>1, <3>2
      <3>3. CASE c = l /\ held = {}
        BY <2>2, <3>1, <3>3
      <3>4. CASE c = l /\ held = Tlvs
        <4>1. "NICKNAME" \in held /\ "SIGNING_PUBKEY" \in held
          BY <3>4 DEF Tlvs
        <4>. QED
          BY <2>2, <2>3, <3>4, <4>1
      <3>. QED
        BY <2>2, <2>7, <3>2, <3>3, <3>4
    <2>. QED
      BY <2>2, <2>4, <2>5, <2>6, <2>7 DEF NameIsKey
  <1>4. ASSUME NEW l \in Links, HandleMessage(l)
        PROVE  /\ UNCHANGED <<sign_pubkey, nickname, halved>>
               /\ handled' \subseteq HandledType
               /\ ShownUnderSender'
    <2>. DEFINE p == Head(link[l])
                who == IF nickname[l] = Nobody THEN p.sender ELSE nickname[l]
                whole == l \notin halved
                now == [node |-> l[2], hash |-> Hash(p), shown |-> who, whole |-> whole]
    <2>1. handled' = handled \cup {now}
      BY <1>4 DEF HandleMessage
    <2>2. p.signed /\ whole => who = p.sender
      BY <1>4 DEF HandleMessage, Verifies, SignatureHolds, NameIsKey
    <2>3. /\ Hash(p) \in HashType /\ Hash(p)[2] = p.sender /\ Hash(p)[4] = p.signed
          /\ p.sender \in Identities
      BY <1>2, <1>4 DEF PacketType
    <2>4. l[2] \in Nodes
      BY DEF Links
    <2>5. who \in Identities \cup {Nobody} /\ whole \in BOOLEAN
      BY <2>3 DEF TypeOK
    <2>. HIDE DEF p, who, whole
    <2>6. now \in HandledType
      BY <2>3, <2>4, <2>5 DEF HandledType
    <2>7. now.hash[4] /\ now.whole => now.shown = now.hash[2]
      BY <2>2, <2>3
    <2>. HIDE DEF now
    <2>8. handled' \subseteq HandledType
      BY <2>1, <2>6 DEF TypeOK, HandledType
    <2>9. ShownUnderSender'
      BY <2>1, <2>7 DEF ShownUnderSender
    <2>. QED
      BY <1>4, <2>8, <2>9 DEF HandleMessage
  <1>. QED
    <2>1. CASE \E l \in Links : HandleAnnounce(l)
      BY <1>3, <2>1 DEF TypeOK, HandledType, ShownUnderSender
    <2>2. CASE \E l \in Links : HandleMessage(l)
      BY <1>4, <2>2 DEF TypeOK, NameIsKey
    <2>3. CASE ~\E l \in Links : HandleAnnounce(l) \/ HandleMessage(l)
      BY <1>1, <2>3
      DEF Next, Tick, SendText, SendAnnounce, SendAs, Originate, Receive, Discard, Lose, vars
    <2>. QED
      BY <2>1, <2>2, <2>3

\* The counters and the messages originated, through any step.
LEMMA CountersStep ==
    ASSUME TypeOK, [Next]_vars
    PROVE  /\ time' \in 0 .. MaxEvents /\ sends' \in 0 .. MaxSends
           /\ losses' \in 0 .. MaxEvents
           /\ spoken' \subseteq HashType
  <1>1. CASE UNCHANGED <<time, sends, losses, spoken>>
    BY <1>1 DEF TypeOK
  <1>2. ASSUME NEW who \in Identities, NEW p \in NewPackets(who), Originate(p)
        PROVE  /\ sends' \in 0 .. MaxSends
               /\ spoken' \subseteq HashType
               /\ UNCHANGED <<time, losses>>
    <2>1. sends' = sends + 1 /\ sends < MaxSends /\ sends \in 0 .. MaxSends
      BY <1>2 DEF Originate, TypeOK
    <2>2. Hash(p) \in HashType
      BY <2>1, OriginatedIsGood
    <2>3. spoken' \subseteq HashType /\ UNCHANGED <<time, losses>>
      BY <1>2, <2>2 DEF Originate, TypeOK
    <2>. QED
      BY <2>1, <2>3, GossipAssumption
  <1>3. ASSUME NEW n \in Nodes, SendText(n) \/ \E m \in Neighbours[n] : SendAnnounce(n, m)
        PROVE  /\ sends' \in 0 .. MaxSends
               /\ spoken' \subseteq HashType
               /\ UNCHANGED <<time, losses>>
    <2>1. PICK p \in NewPackets(n) : Originate(p)
      BY <1>3, OriginatedIsNew DEF SendText, SendAnnounce
    <2>. QED
      BY <1>2, <2>1, Speakers
  <1>4. ASSUME NEW n \in Nodes, NEW v \in Virtual[n], SendAs(n, v)
        PROVE  /\ sends' \in 0 .. MaxSends
               /\ spoken' \subseteq HashType
               /\ UNCHANGED <<time, losses>>
    <2>1. PICK p \in NewPackets(v) : Originate(p)
      BY <1>4, OriginatedIsNew DEF SendAs
    <2>2. v \in Identities
      BY Speakers
    <2>. QED
      BY <1>2, <2>1, <2>2
  <1>5. time \in Nat /\ losses \in Nat
    BY GossipAssumption DEF TypeOK
  <1>6. CASE Tick
    BY <1>5, <1>6, GossipAssumption DEF Tick, MoreEvents, TypeOK
  <1>7. ASSUME NEW l \in Links, Lose(l)
        PROVE  losses' \in 0 .. MaxEvents /\ UNCHANGED <<time, sends, spoken>>
    BY <1>5, <1>7, GossipAssumption DEF Lose, MoreEvents, TypeOK
  <1>8. ASSUME NEW l \in Links, Receive(l)
        PROVE  UNCHANGED <<time, sends, losses, spoken>>
    BY <1>8 DEF Receive, Discard, HandleAnnounce, HandleMessage
  <1>9. Originators \subseteq Nodes
    BY GossipAssumption
  <1>. QED
    BY <1>1, <1>3, <1>4, <1>6, <1>7, <1>8, <1>9 DEF Next, vars, TypeOK

\* Every step preserves the invariant.
LEMMA NextIInv == IInv /\ [Next]_vars => IInv'
  <1>. SUFFICES ASSUME IInv, [Next]_vars PROVE IInv'
    OBVIOUS
  <1>1. GoodLinks(link)
    BY LinksAreGood DEF IInv
  <1>2. GoodLinks(link')
    BY <1>1, StepKeepsGood DEF IInv
  <1>3. CacheType' /\ HistoryType' /\ CacheHoldsRelayed'
    BY <1>1, StepIsCacheStep, CacheStepKeeps DEF IInv
  <1>4. /\ sign_pubkey' \in [Links -> Identities \cup {Nobody}]
        /\ nickname' \in [Links -> Identities \cup {Nobody}]
        /\ halved' \subseteq Links
        /\ NameIsKey'
        /\ handled' \subseteq HandledType
        /\ ShownUnderSender'
    BY NamesStep
  <1>5. /\ time' \in 0 .. MaxEvents /\ sends' \in 0 .. MaxSends
        /\ losses' \in 0 .. MaxEvents
        /\ spoken' \subseteq HashType
    BY CountersStep DEF IInv
  <1>6. TypeOK' /\ TtlCountsHops'
    <2>1. link' \in [Links -> Seq(PacketType)] /\ TtlCountsHops'
      BY <1>2 DEF GoodLinks, GoodPacket, TtlCountsHops
    <2>. QED
      BY <1>3, <1>4, <1>5, <2>1 DEF TypeOK, CacheType, HistoryType, HandledType
  <1>. QED
    BY <1>3, <1>4, <1>6 DEF IInv

\* The invariant holds throughout.
LEMMA Invariance == Spec => []IInv
  BY InitIInv, NextIInv, PTL DEF Spec

\* The devices' state keeps its types, and no dedup cache grows beyond its 64
\* entries.
THEOREM GossipTypeCorrect == Spec => []TypeOK
  <1>1. IInv => TypeOK
    BY DEF IInv
  <1>. QED
    BY <1>1, Invariance, PTL

\* On any mesh, with any losses and any timing, no packet crosses more than
\* BITCHAT_MAX_HOPS connections: the test in _process_incoming keeps the TTL
\* byte from wrapping.
THEOREM GossipHopLimit == Spec => []HopLimit
  <1>1. IInv => HopLimit
    <2>. SUFFICES ASSUME IInv, NEW l \in Links, NEW i \in DOMAIN link[l]
                  PROVE  link[l][i].hops <= BITCHAT_MAX_HOPS
      BY DEF HopLimit
    <2>1. GoodPacket(link[l][i])
      BY LinksAreGood DEF IInv, GoodLinks
    <2>. DEFINE p == link[l][i]
    <2>2. /\ p.ttl >= 1 /\ p.hops + p.ttl = BITCHAT_MAX_HOPS + 1
          /\ p.ttl \in Nat /\ p.hops \in Nat
      BY <2>1 DEF GoodPacket, PacketType
    <2>. HIDE DEF p
    <2>3. p.hops <= BITCHAT_MAX_HOPS
      BY <2>2, GossipAssumption
    <2>. QED
      BY <2>3 DEF p
  <1>. QED
    BY <1>1, Invariance, PTL

\* On any mesh, a signed message is passed to the bridge under the name of the
\* identity that sent it, although the name is that of the connection, as long as
\* every announce on the connection held both name and key, or neither.
THEOREM GossipShowsSender == Spec => []ShownUnderSender
  <1>1. IInv => ShownUnderSender
    BY DEF IInv
  <1>. QED
    BY <1>1, Invariance, PTL

\* On any mesh, a device relays a packet again only after CACHE_TTL or once
\* RELAY_DEDUP_SIZE other records have pushed it out.
THEOREM GossipRelaysOnce == Spec => RelayedOnce
  <1>1. ASSUME IInv, [Next]_vars, NEW x \in DOMAIN relayed,
               relayed'[x].turn # relayed[x].turn
        PROVE  \/ time - relayed[x].time >= CACHE_TTL
               \/ relayed[x].since = RELAY_DEDUP_SIZE
    <2>. USE DEF IInv
    <2>1. CacheStep
      BY LinksAreGood, StepIsCacheStep, <1>1
    <2>2. PICK n \in Nodes, h \in HashType :
              ~RelayIsDup(n, h) /\ relayed' = Relayed(n, h) /\ RelayRecord(n, h)
      BY <1>1, <2>1, AgedHistory DEF CacheStep
    <2>3. x = <<n, h>>
      BY <1>1, <2>2, AgedHistory DEF Relayed
    <2>4. CASE relayed[x].since < RELAY_DEDUP_SIZE
      <3>. DEFINE k == Len(relay_dedup[n]) - relayed[x].since
      <3>1. /\ k >= 1
            /\ relay_dedup[n][k].hash = h
            /\ relay_dedup[n][k].timestamp_ms = relayed[x].time
        BY <1>1, <2>3, <2>4 DEF CacheHoldsRelayed
      <3>2. Len(relay_dedup[n]) \in Nat /\ relayed[x].since \in Nat
        BY <1>1, GossipAssumption DEF TypeOK
      <3>3. k \in DOMAIN relay_dedup[n]
        BY <1>1, <3>1, <3>2 DEF TypeOK
      <3>4. ~(time - relay_dedup[n][k].timestamp_ms < CACHE_TTL)
        BY <2>2, <3>1, <3>3 DEF RelayIsDup
      <3>5. time \in Nat /\ relayed[x].time \in Nat
        BY <1>1, GossipAssumption DEF TypeOK
      <3>. QED
        BY <3>1, <3>4, <3>5, GossipAssumption
    <2>5. CASE ~(relayed[x].since < RELAY_DEDUP_SIZE)
      <3>1. relayed[x].since \in 0 .. RELAY_DEDUP_SIZE
        BY <1>1 DEF TypeOK
      <3>. QED
        BY <2>5, <3>1, GossipAssumption
    <2>. QED
      BY <2>4, <2>5
  <1>. DEFINE A == \A x \in DOMAIN relayed :
                       relayed'[x].turn # relayed[x].turn =>
                           \/ time - relayed[x].time >= CACHE_TTL
                           \/ relayed[x].since = RELAY_DEDUP_SIZE
  <1>2. IInv /\ [Next]_vars => [A]_vars
    BY <1>1
  <1>. QED
    BY <1>2, Invariance, PTL DEF Spec, RelayedOnce

-----------------------------------------------------------------------------
(* The flood                                                                *)
(*                                                                          *)
(* A message spreads from the node it starts at: at any time the nodes that *)
(* have it are a set S, and each connection out of S still holds it, the    *)
(* first copy with as many hops at most as S has nodes.  So an S that no    *)
(* connection leads out of, the air being silent, is the whole mesh.        *)

\* No packet of s has hash h.
FreeOf(s, h) == \A i \in DOMAIN s : Hash(s[i]) # h

\* A packet with hash h is in s, and the first one has crossed at most k
\* connections.
LeadsWith(s, h, k) ==
    \E i \in DOMAIN s :
        /\ Hash(s[i]) = h
        /\ s[i].hops <= k
        /\ \A j \in 1 .. i - 1 : Hash(s[j]) # h

\* What the connections lk and the caches rd hold of h when S has it.
Flooding(lk, rd, S, h) ==
    /\ \A l \in Links :
          l[1] \in S /\ l[2] \notin S => LeadsWith(lk[l], h, Cardinality(S))
    /\ \A l \in Links : l[1] \notin S => FreeOf(lk[l], h)
    /\ \A n \in Nodes \ S : \A i \in DOMAIN rd[n] : rd[n][i].hash # h

\* The nodes that have h, which started at o, with hd passed to the bridges.
Having(hd, h, o) == {o} \cup {n \in Nodes : \E x \in hd : x.node = n /\ x.hash = h}

Flooded(lk, rd, hd, h) ==
    \E o \in Nodes :
        /\ h[2] \in {o} \cup Virtual[o]
        /\ Flooding(lk, rd, Having(hd, h, o), h)

\* Nothing was lost, and nobody can verify h: it has no signature, or there is no
\* key.
Undisturbed(h) == losses = 0 /\ (~h[4] \/ \A l \in Links : sign_pubkey[l] = Nobody)

\* Nothing has a number that was not given yet.
Numbered ==
    /\ \A l \in Links : \A i \in DOMAIN link[l] : link[l][i].number < sends
    /\ \A n \in Nodes : \A i \in DOMAIN relay_dedup[n] : relay_dedup[n][i].hash[3] < sends
    /\ \A h \in spoken : h[1] = "MESSAGE" /\ h[3] < sends
    /\ \A x \in handled : x.hash[3] < sends

FloodsOn ==
    \A h \in spoken : Undisturbed(h) => Flooded(link, relay_dedup, handled, h)

FInv == IInv /\ Numbered /\ FloodsOn

-----------------------------------------------------------------------------
\* Sending more packets on a connection, or taking one from it, and the first
\* packet with hash h.
LEMMA LeadsOn ==
    ASSUME NEW s \in Seq(PacketType), NEW h, NEW k, NEW p, NEW c \in Nat,
           LeadsWith(s, h, k)
    PROVE  LeadsWith(With(s, p, c), h, k)
  <1>1. PICK i \in DOMAIN s : /\ Hash(s[i]) = h
                              /\ s[i].hops <= k
                              /\ \A j \in 1 .. i - 1 : Hash(s[j]) # h
    BY DEF LeadsWith
  <1>2. i \in 1 .. Len(s) /\ Len(s) \in Nat
    OBVIOUS
  <1>. DEFINE t == With(s, p, c)
  <1>3. Extends(t, s, p, c)
    BY WithHolds
  <1>. HIDE DEF t
  <1>4. i \in DOMAIN t /\ t[i] = s[i]
    BY <1>2, <1>3 DEF Extends
  <1>5. \A j \in 1 .. i - 1 : t[j] = s[j]
    BY <1>2, <1>3 DEF Extends
  <1>. QED
    BY <1>1, <1>4, <1>5 DEF LeadsWith, t

LEMMA LeadsTail ==
    ASSUME NEW s \in Seq(PacketType), NEW h, NEW k, LeadsWith(s, h, k),
           s # <<>>, Hash(Head(s)) # h
    PROVE  LeadsWith(Tail(s), h, k)
  <1>1. PICK i \in DOMAIN s : /\ Hash(s[i]) = h
                              /\ s[i].hops <= k
                              /\ \A j \in 1 .. i - 1 : Hash(s[j]) # h
    BY DEF LeadsWith
  <1>2. i \in 1 .. Len(s) /\ Len(s) \in Nat /\ Head(s) = s[1]
    OBVIOUS
  <1>3. i # 1
    BY <1>1, <1>2
  <1>. DEFINE t == Tail(s)
  <1>4. \A j \in 1 .. Len(s) - 1 : t[j] = s[j + 1]
    OBVIOUS
  <1>5. i - 1 \in DOMAIN t
    BY <1>2, <1>3
  <1>. HIDE DEF t
  <1>6. t[i - 1] = s[i]
    BY <1>2, <1>3, <1>4
  <1>7. ASSUME NEW j \in 1 .. i - 2 PROVE Hash(t[j]) # h
    <2>1. j + 1 \in 1 .. i - 1 /\ j \in 1 .. Len(s) - 1
      BY <1>2
    <2>. QED
      BY <1>1, <1>4, <2>1
  <1>. QED
    <2>. DEFINE first == i - 1
    <2>1. first - 1 = i - 2
      BY <1>2
    <2>2. \A j \in 1 .. first - 1 : Hash(t[j]) # h
      BY <1>7, <2>1
    <2>3. first \in DOMAIN t /\ t[first] = s[i]
      BY <1>5, <1>6
    <2>. HIDE DEF first
    <2>4. LeadsWith(t, h, k)
      BY <1>1, <2>2, <2>3 DEF LeadsWith
    <2>. QED
      BY <2>4 DEF t

LEMMA LeadsMore ==
    ASSUME NEW s \in Seq(PacketType), NEW h, NEW k \in Nat, LeadsWith(s, h, k)
    PROVE  LeadsWith(s, h, k + 1)
  <1>1. PICK i \in DOMAIN s : /\ Hash(s[i]) = h
                              /\ s[i].hops <= k
                              /\ \A j \in 1 .. i - 1 : Hash(s[j]) # h
    BY DEF LeadsWith
  <1>2. s[i] \in PacketType
    OBVIOUS
  <1>3. s[i].hops <= k + 1
    BY <1>1, <1>2 DEF PacketType
  <1>. QED
    BY <1>1, <1>3 DEF LeadsWith

LEMMA LeadsNew ==
    ASSUME NEW s \in Seq(PacketType), NEW h, NEW k, NEW p, NEW c \in Nat, c >= 1,
           FreeOf(s, h), Hash(p) = h, p.hops <= k
    PROVE  LeadsWith(With(s, p, c), h, k)
  <1>. DEFINE t == With(s, p, c)
              next == Len(s) + 1
  <1>1. Extends(t, s, p, c)
    BY WithHolds
  <1>2. DOMAIN s = 1 .. Len(s) /\ Len(s) \in Nat
    OBVIOUS
  <1>. HIDE DEF t
  <1>3. next \in DOMAIN t /\ t[next] = p
    BY <1>1, <1>2 DEF Extends
  <1>4. \A j \in 1 .. next - 1 : t[j] = s[j] /\ j \in DOMAIN s
    BY <1>1, <1>2 DEF Extends
  <1>. HIDE DEF next
  <1>5. \A j \in 1 .. next - 1 : Hash(t[j]) # h
    BY <1>4 DEF FreeOf
  <1>6. LeadsWith(t, h, k)
    BY <1>3, <1>5 DEF LeadsWith
  <1>. QED
    BY <1>6 DEF t

LEMMA LeadsHead ==
    ASSUME NEW s \in Seq(PacketType), NEW h, NEW k, LeadsWith(s, h, k),
           s # <<>>, Hash(Head(s)) = h
    PROVE  Head(s).hops <= k
  <1>1. PICK i \in DOMAIN s : /\ Hash(s[i]) = h
                              /\ s[i].hops <= k
                              /\ \A j \in 1 .. i - 1 : Hash(s[j]) # h
    BY DEF LeadsWith
  <1>2. i \in 1 .. Len(s) /\ Len(s) \in Nat /\ Head(s) = s[1]
    OBVIOUS
  <1>3. i = 1
    BY <1>1, <1>2
  <1>. QED
    BY <1>1, <1>2, <1>3

LEMMA FreeOn ==
    ASSUME NEW s \in Seq(PacketType), NEW h, NEW p, NEW c \in Nat, FreeOf(s, h),
           Hash(p) # h
    PROVE  FreeOf(With(s, p, c), h)
  <1>. DEFINE t == With(s, p, c)
  <1>1. \A i \in DOMAIN t : t[i] = p \/ (i \in DOMAIN s /\ t[i] = s[i])
    BY WithEither
  <1>. HIDE DEF t
  <1>2. FreeOf(t, h)
    BY <1>1 DEF FreeOf
  <1>. QED
    BY <1>2 DEF t

LEMMA FreeTail ==
    ASSUME NEW s \in Seq(PacketType), NEW h, FreeOf(s, h), s # <<>>
    PROVE  FreeOf(Tail(s), h)
  <1>. DEFINE t == Tail(s)
  <1>1. \A i \in DOMAIN t : i + 1 \in DOMAIN s /\ t[i] = s[i + 1]
    OBVIOUS
  <1>. HIDE DEF t
  <1>2. FreeOf(t, h)
    BY <1>1 DEF FreeOf
  <1>. QED
    BY <1>2 DEF t

-----------------------------------------------------------------------------
\* The connections after a packet is taken from one.
Taken(lk, l) == [lk EXCEPT ![l] = Tail(@)]

\* Taking a packet with another hash, or one at a node that has h, leaves the
\* flood of h as it is.
LEMMA TakeKeepsFlood ==
    ASSUME NEW lk \in [Links -> Seq(PacketType)], NEW rd, NEW S, NEW h,
           Flooding(lk, rd, S, h), NEW l \in Links, lk[l] # <<>>,
           Hash(Head(lk[l])) # h \/ l[2] \in S
    PROVE  Flooding(Taken(lk, l), rd, S, h)
  <1>. DEFINE k == Cardinality(S)
  <1>1. \A c \in Links : lk[c] \in Seq(PacketType)
    OBVIOUS
  <1>2. \A c \in Links : Taken(lk, l)[c] = IF c = l THEN Tail(lk[l]) ELSE lk[c]
    BY DEF Taken
  <1>. HIDE DEF k
  <1>3. ASSUME NEW c \in Links, c[1] \in S, c[2] \notin S
        PROVE  LeadsWith(Taken(lk, l)[c], h, k)
    <2>1. LeadsWith(lk[c], h, k)
      BY <1>3 DEF Flooding, k
    <2>2. CASE c = l
      <3>1. Hash(Head(lk[l])) # h
        BY <1>3, <2>2
      <3>2. lk[l] \in Seq(PacketType)
        BY <1>1
      <3>3. LeadsWith(Tail(lk[l]), h, k)
        BY <2>1, <2>2, <3>1, <3>2, LeadsTail
      <3>. QED
        BY <1>2, <2>2, <3>3
    <2>. QED
      BY <1>2, <2>1, <2>2
  <1>4. ASSUME NEW c \in Links, c[1] \notin S
        PROVE  FreeOf(Taken(lk, l)[c], h)
    <2>1. FreeOf(lk[c], h)
      BY <1>4 DEF Flooding
    <2>2. CASE c = l
      BY <1>1, <1>2, <2>1, <2>2, FreeTail
    <2>. QED
      BY <1>2, <2>1, <2>2
  <1>. QED
    BY <1>3, <1>4 DEF Flooding, k

\* So does sending a packet with another hash, or one from a node that has h.
LEMMA SendKeepsFlood ==
    ASSUME NEW lk \in [Links -> Seq(PacketType)], NEW rd, NEW S, NEW h,
           Flooding(lk, rd, S, h), NEW n, NEW T, NEW p,
           Hash(p) # h \/ n \in S
    PROVE  Flooding(SendTo(lk, n, T, p), rd, S, h)
  <1>. DEFINE size == Cardinality(S)
              after == SendTo(lk, n, T, p)
  <1>1. \A l \in Links : lk[l] \in Seq(PacketType)
    OBVIOUS
  <1>2. \A l \in Links :
            /\ l[1] # n => after[l] = lk[l]
            /\ l[1] = n => \E c \in Nat : after[l] = With(lk[l], p, c)
    BY SendAdds
  <1>. HIDE DEF size, after
  <1>3. ASSUME NEW l \in Links, l[1] \in S, l[2] \notin S
        PROVE  LeadsWith(after[l], h, size)
    <2>1. LeadsWith(lk[l], h, size)
      BY <1>3 DEF Flooding, size
    <2>2. \A c \in Nat : LeadsWith(With(lk[l], p, c), h, size)
      BY <1>1, <2>1, LeadsOn
    <2>. QED
      BY <1>2, <2>1, <2>2
  <1>4. ASSUME NEW l \in Links, l[1] \notin S
        PROVE  FreeOf(after[l], h)
    <2>1. FreeOf(lk[l], h)
      BY <1>4 DEF Flooding
    <2>2. CASE l[1] = n
      <3>1. Hash(p) # h
        BY <1>4, <2>2
      <3>2. \A c \in Nat : FreeOf(With(lk[l], p, c), h)
        BY <1>1, <2>1, <3>1, FreeOn
      <3>. QED
        BY <1>2, <2>2, <3>2
    <2>. QED
      BY <1>2, <2>1, <2>2
  <1>5. Flooding(after, rd, S, h)
    BY <1>3, <1>4 DEF Flooding, size
  <1>. QED
    BY <1>5 DEF after

\* The caches went from rd to re by node n recording g, at most.
Recorded(rd, re, n, g) ==
    \A m \in Nodes : \A i \in DOMAIN re[m] :
        \/ m = n /\ re[m][i].hash = g
        \/ \E j \in DOMAIN rd[m] : rd[m][j] = re[m][i]

\* Recording another hash, or one at a node that has h, leaves it as it is, too.
LEMMA RecordKeepsFlood ==
    ASSUME NEW lk, NEW rd, NEW S, NEW h, Flooding(lk, rd, S, h),
           NEW re, NEW n, NEW g, Recorded(rd, re, n, g), g # h \/ n \in S
    PROVE  Flooding(lk, re, S, h)
  <1>1. ASSUME NEW m \in Nodes \ S, NEW i \in DOMAIN re[m]
        PROVE  re[m][i].hash # h
    <2>1. CASE m = n /\ re[m][i].hash = g
      BY <1>1, <2>1
    <2>2. CASE \E j \in DOMAIN rd[m] : rd[m][j] = re[m][i]
      BY <2>2 DEF Flooding
    <2>. QED
      BY <2>1, <2>2 DEF Recorded
  <1>. QED
    BY <1>1 DEF Flooding

\* One node more has h.
LEMMA HavingMore ==
    ASSUME NEW S \in SUBSET Nodes, IsFiniteSet(Nodes), NEW n \in Nodes, n \notin S
    PROVE  /\ Cardinality(S) \in Nat
           /\ Cardinality(S \cup {n}) = Cardinality(S) + 1
           /\ Cardinality(S) + 1 <= Cardinality(Nodes)
           /\ Cardinality(S) + 1 >= Cardinality(Nodes) => S \cup {n} = Nodes
  <1>. DEFINE more == S \cup {n}
  <1>1. IsFiniteSet(S) /\ Cardinality(S) \in Nat
    BY FS_Subset, FS_CardinalityType
  <1>2. Cardinality(more) = Cardinality(S) + 1 /\ IsFiniteSet(more)
    BY <1>1, FS_AddElement
  <1>3. more \in SUBSET Nodes
    OBVIOUS
  <1>. HIDE DEF more
  <1>4. /\ Cardinality(more) <= Cardinality(Nodes)
        /\ Cardinality(Nodes) = Cardinality(more) => Nodes = more
    BY <1>3, FS_Subset
  <1>5. Cardinality(Nodes) \in Nat
    BY FS_CardinalityType
  <1>. QED
    BY <1>1, <1>2, <1>4, <1>5 DEF more

\* A node that takes h for the first time, from the connection it comes first
\* on, and sends it on: it has come over as many connections at most as nodes
\* had h, and leaves the node with one more.
LEMMA FirstSpreads ==
    ASSUME NEW lk \in [Links -> Seq(PacketType)], NEW rd, NEW S \in SUBSET Nodes, NEW h,
           Flooding(lk, rd, S, h), NEW l \in Links, lk[l] # <<>>,
           Hash(Head(lk[l])) = h, l[2] \notin S, IsFiniteSet(Nodes),
           NEW p, Hash(p) = h, p.hops = Head(lk[l]).hops + 1,
           Head(lk[l]) \in PacketType
    PROVE  Flooding(SendTo(Taken(lk, l), l[2], Neighbours[l[2]] \ {l[1]}, p), rd,
                    S \cup {l[2]}, h)
  <1>. DEFINE n == l[2]
              here == S \cup {n}
              air == Taken(lk, l)
              out == SendTo(air, n, Neighbours[n] \ {l[1]}, p)
              size == Cardinality(S)
  <1>1. n \in Nodes /\ l[1] \in Nodes
    BY DEF Links
  <1>2. l[1] \in S
    <2>1. lk[l] \in Seq(PacketType)
      OBVIOUS
    <2>2. 1 \in DOMAIN lk[l] /\ Head(lk[l]) = lk[l][1]
      BY <2>1
    <2>3. ~FreeOf(lk[l], h)
      BY <2>2 DEF FreeOf
    <2>. QED
      BY <2>3 DEF Flooding
  <1>3. Head(lk[l]).hops <= size
    <2>1. LeadsWith(lk[l], h, size)
      BY <1>2 DEF Flooding
    <2>. QED
      BY <2>1, LeadsHead
  <1>4. size \in Nat /\ Cardinality(here) = size + 1
    BY <1>1, HavingMore
  <1>5. p.hops <= size + 1
    <2>1. Head(lk[l]).hops \in Nat
      BY DEF PacketType
    <2>. HIDE DEF size
    <2>. QED
      BY <1>3, <1>4, <2>1
  <1>6. \A c \in Links : air[c] = IF c = l THEN Tail(lk[l]) ELSE lk[c]
    BY DEF Taken
  <1>7. Tail(lk[l]) \in Seq(PacketType)
    <2>1. lk[l] \in Seq(PacketType)
      OBVIOUS
    <2>. QED
      BY <2>1
  <1>. HIDE DEF air
  <1>8. \A c \in Links :
            /\ c[1] # n => out[c] = air[c]
            /\ c[1] = n => \E more \in Nat :
                              /\ c[2] \in Neighbours[n] \ {l[1]} => more >= 1
                              /\ out[c] = With(air[c], p, more)
    BY SendAdds
  <1>9. \A c \in Links : c[2] \in Neighbours[c[1]]
    BY DEF Links
  <1>. HIDE DEF size, out, n
  <1>10. ASSUME NEW c \in Links, c[1] \in here, c[2] \notin here
         PROVE  LeadsWith(out[c], h, size + 1)
    <2>1. c # l
      BY <1>10 DEF n
    <2>2. air[c] = lk[c]
      BY <1>6, <2>1
    <2>3. CASE c[1] = n
      <3>1. PICK more \in Nat : more >= 1 /\ out[c] = With(lk[c], p, more)
        BY <1>2, <1>8, <1>9, <1>10, <2>2, <2>3
      <3>2. FreeOf(lk[c], h)
        <4>1. c[1] \notin S
          BY <2>3 DEF n
        <4>. QED
          BY <4>1 DEF Flooding
      <3>3. lk[c] \in Seq(PacketType)
        OBVIOUS
      <3>4. LeadsWith(With(lk[c], p, more), h, size + 1)
        BY <1>5, <3>1, <3>2, <3>3, LeadsNew
      <3>. QED
        BY <3>1, <3>4
    <2>4. CASE c[1] # n
      <3>1. out[c] = lk[c]
        BY <1>8, <2>2, <2>4
      <3>2. LeadsWith(lk[c], h, size)
        BY <1>10, <2>4 DEF Flooding, size
      <3>3. LeadsWith(lk[c], h, size + 1)
        BY <1>4, <3>2, LeadsMore
      <3>. QED
        BY <3>1, <3>3
    <2>. QED
      BY <2>3, <2>4
  <1>11. ASSUME NEW c \in Links, c[1] \notin here
         PROVE  FreeOf(out[c], h)
    <2>1. c[1] # n /\ out[c] = air[c]
      BY <1>8, <1>11
    <2>2. c # l
      BY <1>2, <1>11
    <2>3. FreeOf(lk[c], h)
      BY <1>11 DEF Flooding
    <2>. QED
      BY <1>6, <2>1, <2>2, <2>3
  <1>12. \A m \in Nodes \ here : \A i \in DOMAIN rd[m] : rd[m][i].hash # h
    BY DEF Flooding
  <1>13. Flooding(out, rd, here, h)
    BY <1>4, <1>10, <1>11, <1>12 DEF Flooding
  <1>. QED
    BY <1>13 DEF out, air, n

\* When every node has h, nothing is asked of the connections.
LEMMA AllHave ==
    ASSUME NEW lk, NEW rd, NEW h
    PROVE  Flooding(lk, rd, Nodes, h)
  BY DEF Flooding, Links

-----------------------------------------------------------------------------
\* Recording a hash adds it to the cache, and nothing else.
LEMMA RecordRecords ==
    ASSUME TypeOK, NEW n \in Nodes, NEW g, RelayRecord(n, g)
    PROVE  Recorded(relay_dedup, relay_dedup', n, g)
  <1>. DEFINE E == [hash : HashType, timestamp_ms : 0 .. MaxEvents]
              e == [hash |-> g, timestamp_ms |-> time]
              cache == relay_dedup[n]
              grown == Append(cache, e)
              kept == IF Len(grown) > RELAY_DEDUP_SIZE THEN Tail(grown) ELSE grown
  <1>1. cache \in Seq(E) /\ e.hash = g
    BY DEF TypeOK
  <1>2. relay_dedup' = [relay_dedup EXCEPT ![n] = kept]
    BY DEF RelayRecord
  <1>3. \A m \in Nodes : relay_dedup'[m] = IF m = n THEN kept ELSE relay_dedup[m]
    BY <1>2 DEF TypeOK
  <1>. HIDE DEF cache, e, E
  <1>4. \A i \in DOMAIN grown :
            grown[i] = e \/ (i \in DOMAIN cache /\ grown[i] = cache[i])
    BY <1>1
  <1>5. \A i \in DOMAIN Tail(grown) :
            i + 1 \in DOMAIN grown /\ Tail(grown)[i] = grown[i + 1]
    BY <1>1
  <1>. HIDE DEF grown
  <1>6. \A i \in DOMAIN kept : kept[i] = e \/ \E j \in DOMAIN cache : cache[j] = kept[i]
    BY <1>4, <1>5
  <1>. HIDE DEF kept
  <1>7. ASSUME NEW m \in Nodes, NEW i \in DOMAIN relay_dedup'[m]
        PROVE  \/ m = n /\ relay_dedup'[m][i].hash = g
               \/ \E j \in DOMAIN relay_dedup[m] : relay_dedup[m][j] = relay_dedup'[m][i]
    <2>1. CASE m = n
      BY <1>1, <1>3, <1>6, <2>1 DEF cache
    <2>2. CASE m # n
      BY <1>3, <2>2
    <2>. QED
      BY <2>1, <2>2
  <1>. QED
    BY <1>7 DEF Recorded

LEMMA GoodCounts ==
    ASSUME NEW p, GoodPacket(p)
    PROVE  p.ttl \in Nat /\ p.hops \in Nat /\ p.hops + p.ttl = BITCHAT_MAX_HOPS + 1
  <1>1. p \in PacketType /\ p.hops + p.ttl = BITCHAT_MAX_HOPS + 1
    BY DEF GoodPacket
  <1>2. p.ttl \in Nat /\ p.hops \in Nat
    BY <1>1 DEF PacketType
  <1>. QED
    BY <1>1, <1>2

\* The copy that is relayed has the hash of the packet.
LEMMA CopyHash ==
    ASSUME NEW p, GoodPacket(p), p.ttl > 1
    PROVE  LET copy == [p EXCEPT !.ttl = (@ + 255) % 256, !.hops = OneMore(@)]
           IN  Hash(copy) = Hash(p) /\ copy.hops = p.hops + 1
  <1>1. p \in PacketType /\ p.hops \in Nat /\ p.hops < BITCHAT_MAX_HOPS
    <2>1. p \in PacketType
      BY DEF GoodPacket
    <2>. QED
      BY <2>1, GoodCounts, GossipAssumption
  <1>. DEFINE t == (p.ttl + 255) % 256
              k == OneMore(p.hops)
              copy == [p EXCEPT !.ttl = t, !.hops = k]
  <1>2. k = p.hops + 1
    BY <1>1, GossipAssumption DEF OneMore
  <1>. HIDE DEF t, k
  <1>3. /\ copy.type = p.type /\ copy.sender = p.sender /\ copy.number = p.number
        /\ copy.signed = p.signed /\ copy.hops = k
    BY <1>1 DEF PacketType
  <1>. HIDE DEF copy
  <1>4. Hash(copy) = Hash(p) /\ copy.hops = p.hops + 1
    BY <1>2, <1>3 DEF Hash
  <1>. QED
    BY <1>4 DEF copy, t, k

\* Passing on a packet with another hash, or at a node that has h, leaves the
\* flood of h as it is.
LEMMA RelayKeepsFlood ==
    ASSUME IInv, NEW l \in Links, link[l] # <<>>, RelayOrNot(l, Head(link[l])),
           NEW S, NEW h, Flooding(link, relay_dedup, S, h),
           Hash(Head(link[l])) # h \/ l[2] \in S
    PROVE  Flooding(link', relay_dedup', S, h)
  <1>. DEFINE p == Head(link[l])
              air == Taken(link, l)
  <1>1. GoodLinks(link) /\ link \in [Links -> Seq(PacketType)]
    BY LinksAreGood DEF IInv, TypeOK
  <1>2. GoodPacket(p) /\ GoodLinks(Rest(l))
    BY <1>1, RestIsGood
  <1>3. Rest(l) = air /\ air \in [Links -> Seq(PacketType)]
    BY <1>2 DEF Rest, Taken, GoodLinks
  <1>4. Flooding(air, relay_dedup, S, h)
    BY <1>1, TakeKeepsFlood
  <1>5. l[2] \in Nodes
    BY DEF Links
  <1>6. CASE link' = Rest(l) /\ UNCHANGED relay_dedup
    BY <1>3, <1>4, <1>6
  <1>7. CASE ~(link' = Rest(l) /\ UNCHANGED relay_dedup)
    <2>. DEFINE copy == [p EXCEPT !.ttl = (@ + 255) % 256, !.hops = OneMore(@)]
    <2>1. /\ p.ttl > 1
          /\ link' = SendTo(Rest(l), l[2], Neighbours[l[2]] \ {l[1]}, copy)
          /\ RelayRecord(l[2], Hash(p))
      BY <1>7 DEF RelayOrNot, RelayPacket
    <2>2. Hash(copy) = Hash(p)
      BY <1>2, <2>1, CopyHash
    <2>3. Recorded(relay_dedup, relay_dedup', l[2], Hash(p))
      BY <1>5, <2>1, RecordRecords DEF IInv
    <2>. HIDE DEF copy, air, p
    <2>4. Hash(copy) # h \/ l[2] \in S
      BY <2>2 DEF p
    <2>5. Flooding(link', relay_dedup, S, h)
      BY <1>3, <1>4, <2>1, <2>4, SendKeepsFlood
    <2>6. Hash(p) # h \/ l[2] \in S
      BY DEF p
    <2>. QED
      BY <2>3, <2>5, <2>6, RecordKeepsFlood
  <1>. QED
    BY <1>6, <1>7

\* A node that gets h for the first time passes it on, or there is no other node
\* left to pass it on to.
LEMMA RelaySpreads ==
    ASSUME IInv, WithinReach, NEW l \in Links, link[l] # <<>>,
           RelayOrNot(l, Head(link[l])),
           NEW S \in SUBSET Nodes, NEW h, Flooding(link, relay_dedup, S, h),
           Hash(Head(link[l])) = h, l[2] \notin S
    PROVE  Flooding(link', relay_dedup', S \cup {l[2]}, h)
  <1>. DEFINE p == Head(link[l])
              n == l[2]
              here == S \cup {n}
  <1>1. GoodLinks(link) /\ link \in [Links -> Seq(PacketType)]
    BY LinksAreGood DEF IInv, TypeOK
  <1>2. GoodPacket(p)
    BY <1>1, RestIsGood
  <1>3. n \in Nodes /\ IsFiniteSet(Nodes)
    BY DEF Links, WithinReach
  <1>4. CASE p.ttl > 1
    <2>. DEFINE copy == [p EXCEPT !.ttl = (@ + 255) % 256, !.hops = OneMore(@)]
                later == SendTo(Taken(link, l), n, Neighbours[n] \ {l[1]}, copy)
    <2>1. ~RelayIsDup(n, Hash(p))
      BY <1>3 DEF Flooding, RelayIsDup
    <2>2. link' = later /\ RelayRecord(n, Hash(p))
      BY <1>4, <2>1 DEF RelayOrNot, RelayPacket, Rest, Taken
    <2>3. Hash(copy) = h /\ copy.hops = p.hops + 1
      BY <1>2, <1>4, CopyHash
    <2>4. p \in PacketType
      BY <1>2 DEF GoodPacket
    <2>. HIDE DEF copy
    <2>5. Flooding(later, relay_dedup, here, h)
      BY <1>1, <1>3, <2>3, <2>4, FirstSpreads
    <2>6. Recorded(relay_dedup, relay_dedup', n, Hash(p))
      BY <1>3, <2>2, RecordRecords DEF IInv
    <2>. HIDE DEF later, p, n
    <2>7. n \in here
      OBVIOUS
    <2>. HIDE DEF here
    <2>8. Flooding(later, relay_dedup', here, h)
      BY <2>5, <2>6, <2>7, RecordKeepsFlood
    <2>. QED
      BY <2>2, <2>8 DEF here, n
  <1>5. CASE ~(p.ttl > 1)
    <2>1. p.hops >= BITCHAT_MAX_HOPS /\ p.hops \in Nat
      <3>1. p.ttl \in Nat /\ p.hops \in Nat /\ p.hops + p.ttl = BITCHAT_MAX_HOPS + 1
        BY <1>2, GoodCounts
      <3>. HIDE DEF p
      <3>2. p.hops >= BITCHAT_MAX_HOPS
        BY <1>5, <3>1, GossipAssumption
      <3>. QED
        BY <3>1, <3>2
    <2>2. p.hops <= Cardinality(S)
      <3>1. link[l] \in Seq(PacketType)
        BY <1>1
      <3>2. 1 \in DOMAIN link[l] /\ p = link[l][1]
        BY <3>1
      <3>3. ~FreeOf(link[l], h)
        BY <3>2 DEF FreeOf
      <3>4. l[1] \in S
        BY <3>3 DEF Flooding
      <3>5. LeadsWith(link[l], h, Cardinality(S))
        BY <3>4 DEF Flooding
      <3>. QED
        BY <3>1, <3>5, LeadsHead
    <2>3. /\ Cardinality(S) \in Nat
          /\ Cardinality(S) + 1 >= Cardinality(Nodes) => here = Nodes
      BY <1>3, HavingMore
    <2>4. Cardinality(Nodes) <= BITCHAT_MAX_HOPS + 1 /\ Cardinality(Nodes) \in Nat
      BY <1>3, FS_CardinalityType DEF WithinReach
    <2>5. here = Nodes
      BY <2>1, <2>2, <2>3, <2>4, GossipAssumption
    <2>. QED
      BY <2>5, AllHave
  <1>. QED
    BY <1>4, <1>5

-----------------------------------------------------------------------------
\* Who has h after a node has passed a packet to its bridge.
LEMMA HavingHandled ==
    ASSUME NEW hd, NEW h, NEW o \in Nodes, NEW after, NEW now,
           after = hd \cup {now}, now.node \in Nodes
    PROVE  /\ now.hash # h => Having(after, h, o) = Having(hd, h, o)
           /\ now.hash = h => Having(after, h, o) = Having(hd, h, o) \cup {now.node}
  <1>1. ASSUME NEW m \in Nodes
        PROVE  (\E x \in after : x.node = m /\ x.hash = h)
                   <=> \/ m = now.node /\ now.hash = h
                       \/ \E x \in hd : x.node = m /\ x.hash = h
    OBVIOUS
  <1>2. now.hash # h => Having(after, h, o) = Having(hd, h, o)
    BY <1>1 DEF Having
  <1>3. now.hash = h => Having(after, h, o) = Having(hd, h, o) \cup {now.node}
    BY <1>1 DEF Having
  <1>. QED
    BY <1>2, <1>3

\* A node that passes a message to its bridge.
LEMMA MessageFloods ==
    ASSUME IInv, WithinReach, NEW l \in Links, HandleMessage(l), NEW h,
           Flooded(link, relay_dedup, handled, h)
    PROVE  Flooded(link', relay_dedup', handled', h)
  <1>1. PICK o \in Nodes : /\ h[2] \in {o} \cup Virtual[o]
                           /\ Flooding(link, relay_dedup, Having(handled, h, o), h)
    BY DEF Flooded
  <1>. DEFINE p == Head(link[l])
              g == Hash(p)
              here == Having(handled, h, o)
              later == Having(handled', h, o)
  <1>2. PICK w, b :
            handled' = handled \cup {[node |-> l[2], hash |-> g, shown |-> w, whole |-> b]}
    BY DEF HandleMessage
  <1>3. link[l] # <<>> /\ RelayOrNot(l, p)
    BY DEF HandleMessage
  <1>4. l[2] \in Nodes
    BY DEF Links
  <1>5. (g # h => later = here) /\ (g = h => later = here \cup {l[2]})
    <2>. HIDE DEF g
    <2>. DEFINE met == [node |-> l[2], hash |-> g, shown |-> w, whole |-> b]
    <2>1. handled' = handled \cup {met} /\ met.node = l[2] /\ met.hash = g
      BY <1>2
    <2>. HIDE DEF met
    <2>2. /\ g # h => Having(handled', h, o) = Having(handled, h, o)
          /\ g = h => Having(handled', h, o) = Having(handled, h, o) \cup {l[2]}
      BY <1>4, <2>1, HavingHandled
    <2>. QED
      BY <2>2
  <1>6. here \in SUBSET Nodes
    BY DEF Having
  <1>7. Flooding(link, relay_dedup, here, h)
    BY <1>1
  <1>. HIDE DEF here, later
  <1>8. CASE g # h \/ l[2] \in here
    <2>1. Flooding(link', relay_dedup', here, h)
      BY <1>3, <1>7, <1>8, RelayKeepsFlood
    <2>2. later = here
      BY <1>5, <1>8
    <2>. QED
      BY <1>1, <2>1, <2>2 DEF Flooded, later
  <1>9. CASE g = h /\ l[2] \notin here
    <2>1. Flooding(link', relay_dedup', here \cup {l[2]}, h)
      BY <1>3, <1>6, <1>7, <1>9, RelaySpreads
    <2>2. Flooding(link', relay_dedup', later, h)
      BY <1>5, <1>9, <2>1
    <2>. QED
      BY <1>1, <2>2 DEF Flooded, later
  <1>. QED
    BY <1>8, <1>9

\* A node that sends a packet of another hash, recorded or not.
LEMMA OtherFloods ==
    ASSUME IInv, NEW h, Flooded(link, relay_dedup, handled, h),
           NEW n \in Nodes, NEW T, NEW p, Hash(p) # h,
           link' = SendTo(link, n, T, p), handled' = handled,
           RelayRecord(n, Hash(p)) \/ relay_dedup' = relay_dedup
    PROVE  Flooded(link', relay_dedup', handled', h)
  <1>1. PICK o \in Nodes : /\ h[2] \in {o} \cup Virtual[o]
                           /\ Flooding(link, relay_dedup, Having(handled, h, o), h)
    BY DEF Flooded
  <1>. DEFINE here == Having(handled, h, o)
  <1>2. Flooding(link, relay_dedup, here, h)
    BY <1>1
  <1>. HIDE DEF here
  <1>3. link \in [Links -> Seq(PacketType)]
    BY DEF IInv, TypeOK
  <1>4. Flooding(link', relay_dedup, here, h)
    BY <1>2, <1>3, SendKeepsFlood
  <1>5. CASE RelayRecord(n, Hash(p))
    <2>1. Recorded(relay_dedup, relay_dedup', n, Hash(p))
      BY <1>5, RecordRecords DEF IInv
    <2>2. Flooding(link', relay_dedup', here, h)
      BY <1>4, <2>1, RecordKeepsFlood
    <2>. QED
      BY <1>1, <2>2 DEF Flooded, here
  <1>6. CASE relay_dedup' = relay_dedup
    BY <1>1, <1>4, <1>6 DEF Flooded, here
  <1>. QED
    BY <1>5, <1>6

\* A message that a node originates floods from there.
LEMMA NewFloods ==
    ASSUME IInv, Numbered, NEW n \in Nodes, NEW v \in {n} \cup Virtual[n],
           NEW p \in NewPackets(v),
           link' = SendTo(link, n, Neighbours[n], p), handled' = handled,
           RelayRecord(n, Hash(p)) \/ relay_dedup' = relay_dedup
    PROVE  Flooded(link', relay_dedup', handled', Hash(p))
  <1>. DEFINE h == Hash(p)
  <1>1. h[2] = v /\ h[3] = sends /\ p.hops = 1
    BY NewPacketParts
  <1>2. sends \in Nat
    BY GossipAssumption DEF IInv, TypeOK
  <1>3. \A l \in Links : FreeOf(link[l], h)
    BY <1>1, <1>2 DEF Numbered, FreeOf, Hash
  <1>4. \A m \in Nodes : \A i \in DOMAIN relay_dedup[m] : relay_dedup[m][i].hash # h
    BY <1>1, <1>2 DEF Numbered
  <1>5. Having(handled, h, n) = {n}
    <2>1. \A x \in handled : x.hash # h
      BY <1>1, <1>2 DEF Numbered
    <2>. QED
      BY <2>1 DEF Having
  <1>6. Cardinality({n}) = 1
    BY FS_Singleton
  <1>7. \A l \in Links :
            /\ l[1] # n => link'[l] = link[l]
            /\ l[1] = n => \E c \in Nat : /\ l[2] \in Neighbours[n] => c >= 1
                                          /\ link'[l] = With(link[l], p, c)
    BY SendAdds
  <1>8. \A l \in Links : l[2] \in Neighbours[l[1]] /\ link[l] \in Seq(PacketType)
    BY DEF Links, IInv, TypeOK
  <1>9. ASSUME NEW l \in Links, l[1] = n
        PROVE  LeadsWith(link'[l], h, 1)
    <2>1. PICK c \in Nat : c >= 1 /\ link'[l] = With(link[l], p, c)
      BY <1>7, <1>8, <1>9
    <2>2. p.hops <= 1
      BY <1>1
    <2>3. LeadsWith(With(link[l], p, c), h, 1)
      BY <1>3, <1>8, <2>1, <2>2, LeadsNew
    <2>. QED
      BY <2>1, <2>3
  <1>10. Flooding(link', relay_dedup, {n}, h)
    BY <1>3, <1>4, <1>6, <1>7, <1>9 DEF Flooding
  <1>11. Flooding(link', relay_dedup', {n}, h)
    <2>1. CASE RelayRecord(n, h)
      <3>1. Recorded(relay_dedup, relay_dedup', n, h)
        BY <2>1, RecordRecords DEF IInv
      <3>2. n \in {n}
        OBVIOUS
      <3>. QED
        BY <1>10, <3>1, <3>2, RecordKeepsFlood
    <2>2. CASE relay_dedup' = relay_dedup
      BY <1>10, <2>2
    <2>. QED
      BY <2>1, <2>2
  <1>. QED
    BY <1>1, <1>5, <1>11 DEF Flooded

-----------------------------------------------------------------------------
\* No packet that is dropped for its signature has a hash that nobody can verify
\* and is a message.
LEMMA DropsVerified ==
    ASSUME IInv, NEW l \in Links, Discard(l), NEW h, Undisturbed(h), h[1] = "MESSAGE"
    PROVE  Hash(Head(link[l])) # h
  <1>. DEFINE p == Head(link[l])
  <1>1. p \in PacketType /\ ~Verifies(l, p)
    BY LinksAreGood, RestIsGood DEF IInv, Discard, GoodPacket
  <1>. HIDE DEF p
  <1>2. p.type \in {"ANNOUNCE", "MESSAGE"} /\ p.signed \in BOOLEAN
    BY <1>1 DEF PacketType
  <1>3. Hash(p)[1] = p.type /\ Hash(p)[4] = p.signed
    BY DEF Hash
  <1>4. ASSUME Hash(p) = h PROVE FALSE
    <2>1. p.type = "MESSAGE" /\ p.signed /\ sign_pubkey[l] # Nobody
      BY <1>1, <1>3, <1>4 DEF Verifies
    <2>. QED
      BY <1>3, <1>4, <2>1 DEF Undisturbed
  <1>. QED
    BY <1>4 DEF p

\* What was lost stays lost, and where a key was announced there stays one.
LEMMA DisturbedStays ==
    ASSUME IInv, [Next]_vars, NEW h, Undisturbed(h)'
    PROVE  Undisturbed(h) /\ \A l \in Links : ~Lose(l)
  <1>1. ASSUME NEW l \in Links, Lose(l) PROVE FALSE
    BY <1>1, GossipAssumption DEF Lose, IInv, TypeOK, Undisturbed
  <1>2. losses = 0
    BY <1>1
    DEF Undisturbed, Next, vars, Tick, SendText, SendAnnounce, SendAs, Originate, Receive,
        Discard, HandleAnnounce, HandleMessage
  <1>3. ASSUME NEW l \in Links, HandleAnnounce(l), NEW c \in Links, sign_pubkey'[c] = Nobody
        PROVE  sign_pubkey[c] = Nobody
    <2>. DEFINE p == Head(link[l])
    <2>1. p \in PacketType
      BY <1>3, LinksAreGood, RestIsGood DEF IInv, HandleAnnounce, GoodPacket
    <2>2. p.sender # Nobody
      BY <2>1, GossipAssumption DEF PacketType
    <2>3. /\ sign_pubkey' = [sign_pubkey EXCEPT ![l] = p.sender] \/ sign_pubkey' = sign_pubkey
          /\ sign_pubkey \in [Links -> Identities \cup {Nobody}]
      BY <1>3 DEF HandleAnnounce, Stored, IInv, TypeOK
    <2>. HIDE DEF p
    <2>. QED
      BY <1>3, <2>2, <2>3
  <1>4. ASSUME NEW c \in Links, sign_pubkey'[c] = Nobody
        PROVE  sign_pubkey[c] = Nobody
    <2>1. CASE \E l \in Links : HandleAnnounce(l)
      BY <1>3, <1>4, <2>1
    <2>2. CASE ~\E l \in Links : HandleAnnounce(l)
      <3>1. UNCHANGED sign_pubkey
        BY <2>2
        DEF Next, vars, Tick, SendText, SendAnnounce, SendAs, Originate, Receive, Discard,
            Lose, HandleMessage
      <3>. QED
        BY <1>4, <3>1
    <2>. QED
      BY <2>1, <2>2
  <1>. QED
    BY <1>1, <1>2, <1>4 DEF Undisturbed

\* What a step originates, if anything: a packet of n with the next number.
LEMMA OriginateFloods ==
    ASSUME IInv, Numbered, FloodsOn, NEW n \in Nodes, NEW v \in {n} \cup Virtual[n],
           NEW p \in NewPackets(v), Originate(p), NEW T,
           link' = SendTo(link, n, T, p), p.type = "MESSAGE" => T = Neighbours[n],
           RelayRecord(n, Hash(p)) \/ relay_dedup' = relay_dedup,
           NEW h \in spoken', Undisturbed(h)
    PROVE  Flooded(link', relay_dedup', handled', h)
  <1>. DEFINE g == Hash(p)
  <1>1. g[3] = sends
    BY NewPacketParts
  <1>2. sends \in Nat /\ handled' = handled
    BY GossipAssumption DEF IInv, TypeOK, Originate
  <1>3. spoken' = IF p.type = "MESSAGE" THEN spoken \cup {g} ELSE spoken
    BY DEF Originate
  <1>4. CASE h \in spoken
    <2>1. h[3] # sends
      BY <1>2, <1>4 DEF Numbered
    <2>2. Hash(p) # h
      BY <1>1, <2>1
    <2>3. Flooded(link, relay_dedup, handled, h)
      BY <1>4 DEF FloodsOn
    <2>. QED
      BY <1>2, <2>2, <2>3, OtherFloods
  <1>5. CASE h \notin spoken
    <2>1. p.type = "MESSAGE" /\ h = Hash(p)
      BY <1>3, <1>5
    <2>2. link' = SendTo(link, n, Neighbours[n], p)
      BY <2>1
    <2>3. Flooded(link', relay_dedup', handled', Hash(p))
      BY <1>2, <2>2, NewFloods
    <2>. QED
      BY <2>1, <2>3
  <1>. QED
    BY <1>4, <1>5

\* Every step leaves every message flooding.
LEMMA FloodsStep ==
    ASSUME WithinReach, IInv, Numbered, FloodsOn, [Next]_vars
    PROVE  FloodsOn'
  <1>. SUFFICES ASSUME NEW h \in spoken', Undisturbed(h)'
                PROVE  Flooded(link', relay_dedup', handled', h)
    BY DEF FloodsOn
  <1>1. Undisturbed(h) /\ \A l \in Links : ~Lose(l)
    BY DisturbedStays
  <1>2. ASSUME spoken' = spoken
        PROVE  h[1] = "MESSAGE" /\ Flooded(link, relay_dedup, handled, h)
    BY <1>1, <1>2 DEF FloodsOn, Numbered
  <1>3. CASE UNCHANGED <<link, relay_dedup, handled, spoken>>
    BY <1>2, <1>3
  <1>4. ASSUME NEW n \in Nodes, SendText(n)
        PROVE  Flooded(link', relay_dedup', handled', h)
    <2>1. PICK p \in NewPackets(n) : /\ Originate(p)
                                     /\ link' = SendTo(link, n, Neighbours[n], p)
                                     /\ relay_dedup' = relay_dedup
      BY <1>4, OriginatedIsNew DEF SendText
    <2>2. n \in {n} \cup Virtual[n]
      OBVIOUS
    <2>. QED
      BY <1>1, <2>1, <2>2, OriginateFloods
  <1>5. ASSUME NEW n \in Nodes, NEW m \in Neighbours[n], SendAnnounce(n, m)
        PROVE  Flooded(link', relay_dedup', handled', h)
    <2>1. PICK p \in NewPackets(n) : /\ p.type = "ANNOUNCE" /\ Originate(p)
                                     /\ link' = SendTo(link, n, {m}, p)
                                     /\ relay_dedup' = relay_dedup
      BY <1>5, OriginatedIsNew DEF SendAnnounce
    <2>2. n \in {n} \cup Virtual[n] /\ p.type # "MESSAGE"
      BY <2>1
    <2>. QED
      BY <1>1, <2>1, <2>2, OriginateFloods
  <1>6. ASSUME NEW n \in Nodes, NEW v \in Virtual[n], SendAs(n, v)
        PROVE  Flooded(link', relay_dedup', handled', h)
    <2>1. PICK p \in NewPackets(v) : /\ Originate(p)
                                     /\ link' = SendTo(link, n, Neighbours[n], p)
                                     /\ RelayRecord(n, Hash(p))
      BY <1>6, OriginatedIsNew DEF SendAs
    <2>2. v \in {n} \cup Virtual[n]
      OBVIOUS
    <2>. QED
      BY <1>1, <2>1, <2>2, OriginateFloods
  <1>7. ASSUME NEW l \in Links, Discard(l)
        PROVE  Flooded(link', relay_dedup', handled', h)
    <2>1. /\ link[l] # <<>> /\ link' = Taken(link, l)
          /\ relay_dedup' = relay_dedup /\ handled' = handled /\ spoken' = spoken
      BY <1>7 DEF Discard, Rest, Taken
    <2>2. Hash(Head(link[l])) # h
      BY <1>1, <1>2, <1>7, <2>1, DropsVerified
    <2>3. link \in [Links -> Seq(PacketType)]
      BY DEF IInv, TypeOK
    <2>4. PICK o \in Nodes : /\ h[2] \in {o} \cup Virtual[o]
                             /\ Flooding(link, relay_dedup, Having(handled, h, o), h)
      BY <1>2, <2>1 DEF Flooded
    <2>5. Flooding(Taken(link, l), relay_dedup, Having(handled, h, o), h)
      BY <2>1, <2>2, <2>3, <2>4, TakeKeepsFlood
    <2>. QED
      BY <2>1, <2>4, <2>5 DEF Flooded
  <1>8. ASSUME NEW l \in Links, HandleAnnounce(l)
        PROVE  Flooded(link', relay_dedup', handled', h)
    <2>1. /\ link[l] # <<>> /\ RelayOrNot(l, Head(link[l]))
          /\ Head(link[l]).type = "ANNOUNCE"
          /\ handled' = handled /\ spoken' = spoken
      BY <1>8 DEF HandleAnnounce
    <2>2. Hash(Head(link[l])) # h
      BY <1>2, <2>1 DEF Hash
    <2>3. PICK o \in Nodes : /\ h[2] \in {o} \cup Virtual[o]
                             /\ Flooding(link, relay_dedup, Having(handled, h, o), h)
      BY <1>2, <2>1 DEF Flooded
    <2>4. Flooding(link', relay_dedup', Having(handled, h, o), h)
      BY <2>1, <2>2, <2>3, RelayKeepsFlood
    <2>. QED
      BY <2>1, <2>3, <2>4 DEF Flooded
  <1>9. ASSUME NEW l \in Links, HandleMessage(l)
        PROVE  Flooded(link', relay_dedup', handled', h)
    <2>1. spoken' = spoken
      BY <1>9 DEF HandleMessage
    <2>. QED
      BY <1>2, <1>9, <2>1, MessageFloods
  <1>10. Originators \subseteq Nodes
    BY GossipAssumption
  <1>. QED
    BY <1>1, <1>3, <1>4, <1>5, <1>6, <1>7, <1>8, <1>9, <1>10 DEF Next, Receive, Tick, vars

-----------------------------------------------------------------------------
\* The packets on the connections have numbers below k.
NumbersBelow(lk, k) == \A l \in Links : \A i \in DOMAIN lk[l] : lk[l][i].number < k

LEMMA SendKeepsNumbers ==
    ASSUME NEW lk \in [Links -> Seq(PacketType)], NEW k, NumbersBelow(lk, k),
           NEW n, NEW T, NEW p, p.number < k
    PROVE  NumbersBelow(SendTo(lk, n, T, p), k)
  <1>. DEFINE after == SendTo(lk, n, T, p)
  <1>1. \A l \in Links : after[l] = lk[l] \/ \E c \in Nat : after[l] = With(lk[l], p, c)
    BY SendAdds
  <1>. HIDE DEF after
  <1>2. ASSUME NEW l \in Links, NEW i \in DOMAIN after[l]
        PROVE  after[l][i].number < k
    <2>1. lk[l] \in Seq(PacketType)
      OBVIOUS
    <2>2. after[l][i] = p \/ (i \in DOMAIN lk[l] /\ after[l][i] = lk[l][i])
      BY <1>1, <1>2, <2>1, WithEither
    <2>. QED
      BY <2>2 DEF NumbersBelow
  <1>3. NumbersBelow(after, k)
    BY <1>2 DEF NumbersBelow
  <1>. QED
    BY <1>3 DEF after

LEMMA TakeKeepsNumbers ==
    ASSUME NEW lk \in [Links -> Seq(PacketType)], NEW k, NumbersBelow(lk, k),
           NEW l \in Links, lk[l] # <<>>
    PROVE  NumbersBelow(Taken(lk, l), k) /\ Head(lk[l]).number < k
  <1>1. lk[l] \in Seq(PacketType)
    OBVIOUS
  <1>2. \A i \in DOMAIN Tail(lk[l]) :
            i + 1 \in DOMAIN lk[l] /\ Tail(lk[l])[i] = lk[l][i + 1]
    BY <1>1
  <1>3. 1 \in DOMAIN lk[l] /\ Head(lk[l]) = lk[l][1]
    BY <1>1
  <1>4. Head(lk[l]).number < k
    BY <1>3 DEF NumbersBelow
  <1>. DEFINE rest == Tail(lk[l])
  <1>5. \A c \in Links : Taken(lk, l)[c] = IF c = l THEN rest ELSE lk[c]
    BY DEF Taken
  <1>6. \A i \in DOMAIN rest : rest[i].number < k
    BY <1>2 DEF NumbersBelow
  <1>. HIDE DEF rest
  <1>. QED
    BY <1>4, <1>5, <1>6 DEF NumbersBelow

\* The hashes in the caches have numbers below k.
HashesBelow(rd, k) == \A n \in Nodes : \A i \in DOMAIN rd[n] : rd[n][i].hash[3] < k

LEMMA RecordKeepsNumbers ==
    ASSUME NEW rd, NEW k, HashesBelow(rd, k), NEW re, NEW n, NEW g,
           Recorded(rd, re, n, g), g[3] < k
    PROVE  HashesBelow(re, k)
  BY DEF HashesBelow, Recorded

\* Numbered, part by part.
NumberedNow ==
    /\ NumbersBelow(link, sends)
    /\ HashesBelow(relay_dedup, sends)
    /\ \A h \in spoken : h[1] = "MESSAGE" /\ h[3] < sends
    /\ \A x \in handled : x.hash[3] < sends

LEMMA NumberedParts == Numbered <=> NumberedNow
  BY DEF Numbered, NumberedNow, NumbersBelow, HashesBelow

\* A packet that is originated gets a number that is then below the next.
LEMMA OriginateNumbers ==
    ASSUME TypeOK, Numbered, NEW n \in Nodes, NEW who, NEW p \in NewPackets(who),
           Originate(p), NEW T, link' = SendTo(link, n, T, p),
           RelayRecord(n, Hash(p)) \/ relay_dedup' = relay_dedup
    PROVE  Numbered'
  <1>. DEFINE g == Hash(p)
              next == sends + 1
  <1>1. sends \in Nat
    BY GossipAssumption DEF TypeOK
  <1>2. sends' = next /\ handled' = handled
    BY DEF Originate
  <1>3. p.number = sends /\ g[3] = sends /\ g[1] = p.type
    BY NewPacketParts
  <1>4. spoken' = IF p.type = "MESSAGE" THEN spoken \cup {g} ELSE spoken
    BY DEF Originate
  <1>5. /\ link \in [Links -> Seq(PacketType)]
        /\ \A l \in Links : \A i \in DOMAIN link[l] : link[l][i] \in PacketType
    BY DEF TypeOK
  <1>6. NumbersBelow(link, next)
    <2>1. \A l \in Links : \A i \in DOMAIN link[l] :
              link[l][i].number \in Nat /\ link[l][i].number < sends
      BY <1>5 DEF Numbered, PacketType
    <2>. QED
      BY <1>1, <2>1 DEF NumbersBelow
  <1>7. \A h \in HashType : h[3] \in Nat
    BY DEF HashType
  <1>8. HashesBelow(relay_dedup, next)
    <2>1. ASSUME NEW m \in Nodes, NEW i \in DOMAIN relay_dedup[m]
          PROVE  relay_dedup[m][i].hash \in HashType /\ relay_dedup[m][i].hash[3] < sends
      <3>. DEFINE cache == relay_dedup[m]
                  E == [hash : HashType, timestamp_ms : 0 .. MaxEvents]
      <3>1. cache \in Seq(E)
        BY DEF TypeOK
      <3>. HIDE DEF cache, E
      <3>2. i \in DOMAIN cache
        BY DEF cache
      <3>3. cache[i] \in E
        BY <3>1, <3>2
      <3>4. cache[i].hash \in HashType
        BY <3>3 DEF E
      <3>. QED
        BY <3>4 DEF cache, Numbered
    <2>. QED
      BY <1>1, <1>7, <2>1 DEF HashesBelow
  <1>9. \A h \in spoken : h[1] = "MESSAGE" /\ h[3] < next
    BY <1>1, <1>7 DEF Numbered, TypeOK
  <1>10. \A x \in handled : x.hash[3] < next
    <2>1. \A x \in handled : x.hash \in HashType /\ x.hash[3] < sends
      BY DEF Numbered, TypeOK
    <2>. QED
      BY <1>1, <1>7, <2>1
  <1>11. sends < next
    BY <1>1
  <1>. HIDE DEF next
  <1>12. NumbersBelow(link', next)
    BY <1>3, <1>5, <1>6, <1>11, SendKeepsNumbers
  <1>13. HashesBelow(relay_dedup', next)
    <2>1. CASE RelayRecord(n, g)
      <3>1. Recorded(relay_dedup, relay_dedup', n, g)
        BY <2>1, RecordRecords
      <3>2. g[3] < next
        BY <1>3, <1>11
      <3>. QED
        BY <1>8, <3>1, <3>2, RecordKeepsNumbers
    <2>2. CASE relay_dedup' = relay_dedup
      BY <1>8, <2>2
    <2>. QED
      BY <2>1, <2>2
  <1>14. \A h \in spoken' : h[1] = "MESSAGE" /\ h[3] < next
    BY <1>3, <1>4, <1>9, <1>11
  <1>15. NumberedNow'
    BY <1>2, <1>10, <1>12, <1>13, <1>14 DEF NumberedNow
  <1>. QED
    BY <1>15, NumberedParts, PTL

\* Passing a packet on gives no new number.
LEMMA RelayNumbers ==
    ASSUME IInv, Numbered, NEW l \in Links, link[l] # <<>>, RelayOrNot(l, Head(link[l]))
    PROVE  NumbersBelow(link', sends) /\ HashesBelow(relay_dedup', sends)
  <1>. DEFINE p == Head(link[l])
              air == Taken(link, l)
  <1>1. /\ GoodLinks(link) /\ link \in [Links -> Seq(PacketType)]
        /\ NumbersBelow(link, sends) /\ HashesBelow(relay_dedup, sends)
    BY LinksAreGood, NumberedParts DEF IInv, TypeOK, NumberedNow
  <1>2. GoodPacket(p) /\ GoodLinks(Rest(l))
    BY <1>1, RestIsGood
  <1>3. Rest(l) = air /\ air \in [Links -> Seq(PacketType)]
    BY <1>2 DEF Rest, Taken, GoodLinks
  <1>4. NumbersBelow(air, sends) /\ p.number < sends
    BY <1>1, TakeKeepsNumbers
  <1>5. CASE link' = Rest(l) /\ UNCHANGED relay_dedup
    BY <1>1, <1>3, <1>4, <1>5
  <1>6. CASE ~(link' = Rest(l) /\ UNCHANGED relay_dedup)
    <2>. DEFINE copy == [p EXCEPT !.ttl = (@ + 255) % 256, !.hops = OneMore(@)]
    <2>1. /\ p.ttl > 1
          /\ link' = SendTo(Rest(l), l[2], Neighbours[l[2]] \ {l[1]}, copy)
          /\ RelayRecord(l[2], Hash(p))
      BY <1>6 DEF RelayOrNot, RelayPacket
    <2>2. Hash(copy) = Hash(p)
      BY <1>2, <2>1, CopyHash
    <2>3. l[2] \in Nodes
      BY DEF Links
    <2>4. Recorded(relay_dedup, relay_dedup', l[2], Hash(p))
      BY <2>1, <2>3, RecordRecords DEF IInv
    <2>5. Hash(p)[3] = p.number /\ Hash(copy)[3] = copy.number
      BY DEF Hash
    <2>. HIDE DEF copy, air, p
    <2>6. copy.number < sends /\ Hash(p)[3] < sends
      BY <1>4, <2>2, <2>5
    <2>7. NumbersBelow(link', sends)
      BY <1>3, <1>4, <2>1, <2>6, SendKeepsNumbers
    <2>. QED
      BY <1>1, <2>4, <2>6, <2>7, RecordKeepsNumbers
  <1>. QED
    BY <1>5, <1>6

\* No step uses a number that was not given.
LEMMA NumberedStep ==
    ASSUME IInv, Numbered, [Next]_vars
    PROVE  Numbered'
  <1>1. CASE UNCHANGED <<link, relay_dedup, spoken, handled, sends>>
    BY <1>1 DEF Numbered
  <1>3. NumberedNow
    BY NumberedParts
  <1>4. ASSUME NEW n \in Nodes, SendText(n) \/ \E m \in Neighbours[n] : SendAnnounce(n, m)
        PROVE  Numbered'
    <2>1. PICK p \in NewPackets(n) :
              /\ Originate(p) /\ relay_dedup' = relay_dedup
              /\ \E T : link' = SendTo(link, n, T, p)
      BY <1>4, OriginatedIsNew DEF SendText, SendAnnounce
    <2>. QED
      BY <2>1, OriginateNumbers DEF IInv
  <1>5. ASSUME NEW n \in Nodes, NEW v \in Virtual[n], SendAs(n, v)
        PROVE  Numbered'
    <2>1. PICK p \in NewPackets(v) :
              /\ Originate(p) /\ RelayRecord(n, Hash(p))
              /\ link' = SendTo(link, n, Neighbours[n], p)
      BY <1>5, OriginatedIsNew DEF SendAs
    <2>. QED
      BY <2>1, OriginateNumbers DEF IInv
  <1>6. Originators \subseteq Nodes
    BY GossipAssumption
  <1>7. ASSUME NEW l \in Links, Discard(l) \/ Lose(l)
        PROVE  NumberedNow'
    <2>1. /\ link[l] # <<>> /\ link' = Taken(link, l)
          /\ UNCHANGED <<relay_dedup, spoken, handled, sends>>
      BY <1>7 DEF Discard, Lose, Rest, Taken
    <2>2. link \in [Links -> Seq(PacketType)]
      BY DEF IInv, TypeOK
    <2>3. NumbersBelow(Taken(link, l), sends)
      BY <1>3, <2>1, <2>2, TakeKeepsNumbers DEF NumberedNow
    <2>. QED
      BY <1>3, <2>1, <2>3 DEF NumberedNow
  <1>8. ASSUME NEW l \in Links, HandleAnnounce(l)
        PROVE  NumberedNow'
    <2>1. /\ link[l] # <<>> /\ RelayOrNot(l, Head(link[l]))
          /\ UNCHANGED <<spoken, handled, sends>>
      BY <1>8 DEF HandleAnnounce
    <2>2. NumbersBelow(link', sends) /\ HashesBelow(relay_dedup', sends)
      BY <2>1, RelayNumbers
    <2>. QED
      BY <1>3, <2>1, <2>2 DEF NumberedNow
  <1>9. ASSUME NEW l \in Links, HandleMessage(l)
        PROVE  NumberedNow'
    <2>. DEFINE p == Head(link[l])
    <2>1. /\ link[l] # <<>> /\ RelayOrNot(l, p)
          /\ UNCHANGED <<spoken, sends>>
      BY <1>9 DEF HandleMessage
    <2>2. NumbersBelow(link', sends) /\ HashesBelow(relay_dedup', sends)
      BY <2>1, RelayNumbers
    <2>. DEFINE now == [node |-> l[2], hash |-> Hash(p),
                        shown |-> IF nickname[l] = Nobody THEN p.sender ELSE nickname[l],
                        whole |-> l \notin halved]
    <2>3. handled' = handled \cup {now} /\ now.hash = Hash(p)
      BY <1>9 DEF HandleMessage
    <2>. HIDE DEF now
    <2>4. p.number < sends
      <3>1. link \in [Links -> Seq(PacketType)]
        BY DEF IInv, TypeOK
      <3>. QED
        BY <1>3, <2>1, <3>1, TakeKeepsNumbers DEF NumberedNow
    <2>5. now.hash[3] < sends
      BY <2>3, <2>4 DEF Hash
    <2>. QED
      BY <1>3, <2>1, <2>2, <2>3, <2>5 DEF NumberedNow
  <1>10. NumberedNow' => Numbered'
    BY NumberedParts, PTL
  <1>. QED
    BY <1>1, <1>4, <1>5, <1>6, <1>7, <1>8, <1>9, <1>10 DEF Next, Receive, Tick, vars

\* The stronger invariant, in a mesh within reach.
LEMMA FloodInvariance == ASSUME WithinReach PROVE Spec => []FInv
  <1>1. Init => FInv
    <2>1. Init => Numbered /\ FloodsOn
      BY DEF Init, Numbered, FloodsOn
    <2>. QED
      BY <2>1, InitIInv DEF FInv
  <1>2. FInv /\ [Next]_vars => FInv'
    BY NextIInv, NumberedStep, FloodsStep DEF FInv
  <1>. QED
    BY <1>1, <1>2, PTL DEF Spec

\* In every connected mesh of at most BITCHAT_MAX_HOPS + 1 devices, a message
\* has reached every device when the air has fallen silent, whatever the order
\* in which the devices took what came, unless a packet was lost or a key was
\* announced that may verify the message's signature: no cache is too small for
\* that and no detour uses up the TTL.
THEOREM GossipReachesMesh == ASSUME WithinReach PROVE Spec => []SilentMeshReached
  <1>1. FInv => SilentMeshReached
    <2>. SUFFICES ASSUME FInv, \A l \in Links : link[l] = <<>>,
                         losses = 0, NEW h \in spoken, NEW n \in Nodes,
                         ~h[4] \/ \A l \in Links : sign_pubkey[l] = Nobody
                  PROVE  \/ h[2] \in {n} \cup Virtual[n]
                         \/ \E x \in handled : x.node = n /\ x.hash = h
      BY DEF SilentMeshReached
    <2>1. PICK o \in Nodes : /\ h[2] \in {o} \cup Virtual[o]
                             /\ Flooding(link, relay_dedup, Having(handled, h, o), h)
      BY DEF FInv, FloodsOn, Undisturbed, Flooded
    <2>. DEFINE here == Having(handled, h, o)
    <2>2. here \in SUBSET Nodes /\ o \in here
      BY DEF Having
    <2>3. ASSUME NEW m \in here, NEW k \in Neighbours[m], k \notin here
          PROVE  FALSE
      <3>1. <<m, k>> \in Links
        BY <2>2, GossipAssumption DEF Links
      <3>2. LeadsWith(link[<<m, k>>], h, Cardinality(here))
        BY <2>1, <2>3, <3>1 DEF Flooding
      <3>. QED
        BY <3>1, <3>2 DEF LeadsWith
    <2>. HIDE DEF here
    <2>4. here = Nodes
      BY <2>2, <2>3 DEF WithinReach
    <2>5. n \in Having(handled, h, o)
      BY <2>4 DEF here
    <2>. QED
      BY <2>1, <2>5 DEF Having
  <1>. QED
    BY <1>1, FloodInvariance, PTL
=============================================================================
