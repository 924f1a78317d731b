---------------------------- MODULE PeerSessions ----------------------------
(***************************************************************************)
(* The peer table of BitchatBLE and the sessions in it.  A bridge accepts   *)
(* connections as the peripheral Hub from Centrals, devices that run the    *)
(* same code in its other role: they find the Hub by scanning, connect and  *)
(* start the Noise handshake.  Each connection has a handle on either side. *)
(*                                                                          *)
(* Each device handles the packets of its receive ring (RxRing) in order.   *)
(* Here inbox is the air and the ring together: it holds at most RX_ROOM    *)
(* packets, more are refused, and Lose takes any packet that has not been   *)
(* handled, as writes without response and notifications may get lost.      *)
(* A packet outlives its connection in the ring.  Every packet fits the MTU *)
(* (fragments are not part of this module) and is well formed and signed.   *)
(*                                                                          *)
(* A callback of the NimBLE host task and one turn of the loop task are one *)
(* action each.  The handshake timeout runs from connect_time_ms, and 15 s  *)
(* may pass between any two steps.                                          *)
(***************************************************************************)
EXTENDS NoiseSession, Picks

CONSTANTS Hub, Centrals,
          Virtual,           \* a virtual identity the Hub speaks for
          MAX_CONNECTIONS,   \* BITCHAT_MAX_CONNECTIONS
          RX_ROOM,           \* packets that fit in the ring
          Nobody,            \* an unknown address, sender or key
          MaxLinks,          \* bound: connections made
          MaxEvents          \* bound: announces, texts and faults, each

Nodes == Centrals \cup {Hub}

Slots == 1 .. MAX_CONNECTIONS
NoSlot == 0

EventKinds == {"announce", "text", "fault"}

\* Connection handles, given out by the controller: the lowest free one.
Handles == 0 .. Cardinality(Centrals) - 1

ASSUME PeerAssumption ==
    /\ MAX_CONNECTIONS \in Nat \ {0}
    /\ RX_ROOM \in Nat \ {0}
    /\ Hub \notin Centrals
    /\ Virtual \notin Nodes
    /\ IsFiniteSet(Centrals) /\ Centrals # {}
    /\ MaxEvents \in [EventKinds -> Nat]

VARIABLES
    peers,       \* node -> slot -> PeerSession
    inbox,       \* node -> packets received and not yet handled
    link,        \* central -> its connection with the Hub
    nextKey,     \* node -> the ephemeral key it generates next
    delivered,   \* history: node -> private messages passed to the bridge
    links,       \* connections made, for the bound
    events       \* events of each kind so far, for the bound; texts are numbered

vars == <<peers, inbox, link, nextKey, links, events, delivered>>

counters == <<links, events>>

-----------------------------------------------------------------------------
(* The peer table: _find_peer, _alloc_peer, _free_peer                      *)

FreeSlot == [active |-> FALSE, handle |-> 0, addr |-> Nobody, id |-> Nobody,
             we_are_central |-> FALSE, client |-> FALSE, announce_sent |-> FALSE,
             sign |-> Nobody, hs |-> ZeroHs]

First(S) == IF S = {} THEN NoSlot ELSE CHOOSE s \in S : \A t \in S : s <= t

FindPeer(table, h) == First({s \in Slots : table[s].active /\ table[s].handle = h})

\* The table after _alloc_peer; unchanged when it is full.
AllocPeer(table, h, addr, central) ==
    LET s == First({t \in Slots : ~table[t].active})
    IN  IF s = NoSlot THEN table
        ELSE [table EXCEPT ![s] = [FreeSlot EXCEPT !.active = TRUE, !.handle = h,
                                       !.addr = addr, !.we_are_central = central]]

\* Mutant of FreePeer: only a slot with a client is cleared.
FreePeerOfClient(table, h) ==
    LET s == FindPeer(table, h)
    IN  IF s = NoSlot \/ ~table[s].client THEN table
        ELSE [table EXCEPT ![s] = FreeSlot]

FreePeer(table, h) ==
    LET s == FindPeer(table, h)
    IN  IF s = NoSlot THEN table ELSE [table EXCEPT ![s] = FreeSlot]

Active(table) == {s \in Slots : table[s].active}

-----------------------------------------------------------------------------
(* Sending                                                                  *)

\* ttl is abstracted to whether a relay has changed it; the signature covers it.
\* dest is not part of the packet: it is the device that the slot of a
\* handshake packet belongs to.
Packet(type, sender) ==
    [type |-> type, sender |-> sender, relayed |-> FALSE, dest |-> Nobody,
     body |-> NoMsg]

Announce(node) == Packet("ANNOUNCE", node)

Handshake(node, dest, m) ==
    [Packet("HANDSHAKE", node) EXCEPT !.body = m, !.dest = dest]

Encrypted(node, ct) == [Packet("ENCRYPTED", node) EXCEPT !.body = ct]

Subscribers(lk, n) == {c \in Centrals : n = Hub /\ lk[c].stage = "subscribed"}

\* _send_to_peer: a central writes to its connection once the client is stored
\* in the slot; everyone else notifies all subscribed centrals.
Receivers(lk, n, peer) ==
    IF peer.we_are_central /\ peer.client
    THEN {m \in {Hub} : lk[n].stage # "down"}
    ELSE Subscribers(lk, n)

HandleOf(lk, n, m) == IF m = Hub THEN lk[n].hub_handle ELSE lk[m].handle

\* Mutant of Fits: the ring is never full.
FitsAlways(box) == box

\* A full ring refuses what comes after.
Fits(box) == SubSeq(box, 1, IF Len(box) < RX_ROOM THEN Len(box) ELSE RX_ROOM)

\* The inboxes after n has sent the packets of seq, each [peer, pkt], in order.
SendToPeers(lk, n, seq, boxes) ==
    [m \in Nodes |->
        LET got == Only(seq, {i \in DOMAIN seq : m \in Receivers(lk, n, seq[i].peer)})
        IN  Fits(boxes[m] \o [i \in DOMAIN got |-> [handle |-> HandleOf(lk, n, m),
                                                   pkt |-> got[i].pkt]])]

To(peer, pkt) == [peer |-> peer, pkt |-> pkt]

When(cond, x) == IF cond THEN <<x>> ELSE <<>>

\* To each of these slots of the table, in order, its packet.
ToEach(table, slots, pkts) ==
    LET order == Ascending(slots)
    IN  [i \in DOMAIN order |-> To(table[order[i]], pkts[order[i]])]

\* To each of these slots the same packet.
ToAll(table, slots, pkt) == ToEach(table, slots, [s \in Slots |-> pkt])

-----------------------------------------------------------------------------

\* An event that a bound counts.
Event(kind) ==
    /\ events[kind] < MaxEvents[kind]
    /\ events' = [events EXCEPT ![kind] = @ + 1]

FaultIf(bad) == IF bad THEN Event("fault") ELSE UNCHANGED events

Init ==
    /\ peers = [n \in Nodes |-> [s \in Slots |-> FreeSlot]]
    /\ inbox = [n \in Nodes |-> <<>>]
    /\ link = [c \in Centrals |-> [stage |-> "down", hub_handle |-> 0, handle |-> 0]]
    /\ nextKey = [n \in Nodes |-> 1]
    /\ links = 0
    /\ events = [k \in EventKinds |-> 0]
    /\ delivered = [n \in Nodes |-> <<>>]

-----------------------------------------------------------------------------
(* Connections (NimBLE host task)                                           *)

\* _on_connect: a slot, and our announce if there is one.
OnConnect(lk, n, h, addr, central) ==
    LET table == AllocPeer(peers[n], h, addr, central)
        s     == First({t \in Slots : table[t] # peers[n][t]})
    IN  IF s = NoSlot
        THEN [table |-> table, boxes |-> inbox]
        ELSE [table |-> [table EXCEPT ![s].announce_sent = TRUE],
              boxes |-> SendToPeers(lk, n, <<To(table[s], Announce(n))>>, inbox)]

\* A central that scans finds the Hub (_on_scan_result), has no slot with its
\* address and a slot free, and connects; the Hub's onConnect runs.
LinkUp(c) ==
    LET used == {link[d].hub_handle : d \in {x \in Centrals : link[x].stage # "down"}}
        h    == CHOOSE x \in Handles \ used : \A y \in Handles \ used : x <= y
        lk   == [link EXCEPT ![c] = [stage |-> "linked", hub_handle |-> h, handle |-> 0]]
        hub  == OnConnect(lk, Hub, h, c, FALSE)
    IN  /\ link[c].stage = "down"
        /\ links < MaxLinks
        /\ \A s \in Slots : ~(peers[c][s].active /\ peers[c][s].addr = Hub)
        /\ \E s \in Slots : ~peers[c][s].active
        /\ link' = lk
        /\ peers' = [peers EXCEPT ![Hub] = hub.table]
        /\ inbox' = hub.boxes
        /\ links' = links + 1
        /\ UNCHANGED <<nextKey, events, delivered>>

\* _connect_to_peripheral has found service and characteristic: _on_connect
\* registers the peer and announces, then client and remote_chr are stored in
\* the slot that _find_peer returns, and the central subscribes.
Subscribe(c) ==
    LET own == OnConnect(link, c, link[c].handle, Hub, TRUE)
        s   == FindPeer(own.table, link[c].handle)
    IN  /\ link[c].stage = "linked"
        /\ peers' = [peers EXCEPT ![c] =
                        IF s = NoSlot THEN own.table
                        ELSE [own.table EXCEPT ![s].client = TRUE]]
        /\ inbox' = own.boxes
        /\ link' = [link EXCEPT ![c].stage = "subscribed"]
        /\ UNCHANGED <<nextKey, counters, delivered>>

Down(c) == [link EXCEPT ![c].stage = "down"]

\* The connection ends, for any reason or because the service is missing:
\* onDisconnect runs on both sides.
LinkDown(c) ==
    /\ link[c].stage # "down"
    /\ peers' = [peers EXCEPT ![Hub] = FreePeer(@, link[c].hub_handle),
                              ![c]   = FreePeer(@, link[c].handle)]
    /\ link' = Down(c)
    /\ Event("fault")
    /\ UNCHANGED <<inbox, nextKey, links, delivered>>

\* The radio or a full buffer loses a packet.
Lose(n) ==
    /\ \E i \in DOMAIN inbox[n] : inbox' = [inbox EXCEPT ![n] = SubSeq(@, 1, i - 1) \o SubSeq(@, i + 1, Len(@))]
    /\ Event("fault")
    /\ UNCHANGED <<peers, link, nextKey, links, delivered>>

-----------------------------------------------------------------------------
(* _process_incoming, up to the dispatch                                    *)

Pkt(n) == Head(inbox[n]).pkt

Rest(n) == [inbox EXCEPT ![n] = Tail(@)]

\* The table with a slot for the packet's handle, created if there is none
\* and room for one, and with the id of the first sender on it.
Admitted(n) ==
    LET h     == Head(inbox[n]).handle
        table == IF FindPeer(peers[n], h) # NoSlot THEN peers[n]
                 ELSE AllocPeer(peers[n], h, Nobody, FALSE)
        s     == FindPeer(table, h)
    IN  IF s # NoSlot /\ table[s].id = Nobody
        THEN [table EXCEPT ![s].id = Pkt(n).sender] ELSE table

\* An announce is verified with the key it carries, anything else with the key
\* of the last announce on this connection, if there was one.
Verifies(peer, pkt) ==
    IF pkt.type = "ANNOUNCE" THEN ~pkt.relayed
    ELSE peer.sign = Nobody \/ (peer.sign = pkt.sender /\ ~pkt.relayed)

\* The handlers take the node, its table after admission and the slot in it.
Accepts(n, table, s, type) ==
    /\ Pkt(n).type = type
    /\ s # NoSlot
    /\ Verifies(table[s], Pkt(n))

\* No slot, or a bad signature: the packet is dropped (the slot stays).
Discard(n, table, s) ==
    /\ s # NoSlot => ~Verifies(table[s], Pkt(n))
    /\ peers' = [peers EXCEPT ![n] = table]
    /\ inbox' = Rest(n)
    /\ UNCHANGED <<link, nextKey, counters, delivered>>

\* _relay_packet: to every peer but those of the packet's handle.  The dedup
\* cache plays no part here: a packet reaches the Hub once, and centrals have
\* nobody to relay to.
Relays(n, table) ==
    LET relayed == [Pkt(n) EXCEPT !.relayed = TRUE]
    IN  IF Pkt(n).relayed THEN <<>>
        ELSE ToAll(table, {s \in Active(table) : table[s].handle # Head(inbox[n]).handle},
                   relayed)

\* noise_gen_keypair: every key is fresh.
NextKey(n) == [nextKey EXCEPT ![n] = @ + 1]

-----------------------------------------------------------------------------
(* The handlers (loop task)                                                 *)

\* _handle_announce; ok: the primitives of noise_hs_init succeed.
HandleAnnounce(n, table, s, ok) ==
    LET p == table[s]
        tries  == p.we_are_central /\ p.hs.phase = "IDLE"
        starts == tries /\ ok
        begun  == noise_hs_write_msg1(noise_hs_init("INITIATOR", Ephemeral(n, nextKey[n])))
        after  == [table EXCEPT ![s] =
                      [p EXCEPT !.sign = Pkt(n).sender, !.announce_sent = TRUE,
                                !.hs = CASE starts -> begun.hs
                                         [] tries /\ ~ok -> noise_hs_init("INITIATOR", NoKey)
                                         [] OTHER -> @]]
    IN  /\ Accepts(n, table, s, "ANNOUNCE")
        /\ ~ok => tries
        /\ peers' = [peers EXCEPT ![n] = after]
        /\ inbox' = SendToPeers(link, n,
                        When(~p.announce_sent, To(p, Announce(n)))
                        \o When(starts, To(p, Handshake(n, p.addr, begun.out)))
                        \o Relays(n, after),
                        Rest(n))
        /\ nextKey' = IF starts THEN NextKey(n) ELSE nextKey
        /\ FaultIf(~ok)
        /\ UNCHANGED <<link, links, delivered>>

\* _handle_message passes the text on, which changes nothing here (the bridge
\* is BridgeManager), and the packet is relayed.
HandleMessage(n, table, s) ==
    /\ Accepts(n, table, s, "MESSAGE")
    /\ peers' = [peers EXCEPT ![n] = table]
    /\ inbox' = SendToPeers(link, n, Relays(n, table), Rest(n))
    /\ UNCHANGED <<link, nextKey, counters, delivered>>

\* The step of the handshake that the phase calls for.
HandshakeStep(n, hs, m) ==
    CASE hs.phase = "IDLE" ->
            noise_hs_read_msg1_write_msg2(
                noise_hs_init("RESPONDER", Ephemeral(n, nextKey[n])), m, n)
      [] hs.phase = "AWAIT_MSG2" -> noise_hs_read_msg2_write_msg3(hs, m, n)
      [] hs.phase = "AWAIT_MSG3" -> noise_hs_read_msg3(hs, m)
      [] OTHER -> Step(hs, NoMsg)

\* _handle_noise_handshake.  result: the primitives succeed, noise_hs_init
\* fails (the phase stays IDLE), or a later one does.
HandleNoiseHandshake(n, table, s, result) ==
    LET p == table[s]
        idle  == p.hs.phase = "IDLE"
        step  == CASE result = "ok"        -> HandshakeStep(n, p.hs, Pkt(n).body)
                   [] result = "no_init"   -> Step(noise_hs_init("RESPONDER", NoKey), NoMsg)
                   [] result = "error"     -> Step(Fail(p.hs), NoMsg)
    IN  /\ Accepts(n, table, s, "HANDSHAKE")
        /\ result = "no_init" => idle
        /\ result = "error" => p.hs.phase \in {"IDLE", "AWAIT_MSG2", "AWAIT_MSG3"}
        /\ peers' = [peers EXCEPT ![n] = [table EXCEPT ![s].hs = step.hs]]
        /\ inbox' = SendToPeers(link, n,
                        When(step.out # NoMsg, To(p, Handshake(n, p.addr, step.out))),
                        Rest(n))
        /\ nextKey' = IF idle THEN NextKey(n) ELSE nextKey
        /\ FaultIf(result # "ok")
        /\ UNCHANGED <<link, links, delivered>>

\* Mutant of Advanced: n is not incremented.
AdvancedNot(p) == p

\* noise_hs_encrypt: the peer's state after it.
Advanced(p) == [p EXCEPT !.hs.send_cs = NextNonce(@)]

\* _handle_encrypted: without a session nothing; otherwise the nonce advances,
\* and a private message that decrypts is passed on and acknowledged.
HandleEncrypted(n, table, s) ==
    LET p == table[s]
        ct      == Pkt(n).body
        session == p.hs.phase = "TRANSPORT"
        opens   == session /\ Decrypts(p.hs.recv_cs, ct)
        private == opens /\ ct.pt.kind = "PRIVATE_MSG"
        read    == [p EXCEPT !.hs.recv_cs = NextNonce(@)]
        receipt == [ct.pt EXCEPT !.kind = "DELIVERED", !.from = n, !.to = p.hs.rs]
    IN  /\ Accepts(n, table, s, "ENCRYPTED")
        /\ peers' = [peers EXCEPT ![n] = [table EXCEPT ![s] =
                        CASE private -> Advanced(read)
                          [] session /\ ~private -> read
                          [] OTHER -> p]]
        /\ inbox' = SendToPeers(link, n,
                        When(private, To(p, Encrypted(n, CipherText(p.hs.send_cs, receipt)))),
                        Rest(n))
        /\ delivered' = [delivered EXCEPT ![n] = @ \o
                            When(private, [pt |-> ct.pt, rs |-> p.hs.rs])]
        /\ UNCHANGED <<link, nextKey, counters>>

\* PKT_REQUEST_SYNC: answered with our announce.
HandleRequestSync(n, table, s) ==
    /\ Accepts(n, table, s, "REQUEST_SYNC")
    /\ peers' = [peers EXCEPT ![n] = [table EXCEPT ![s].announce_sent = TRUE]]
    /\ inbox' = SendToPeers(link, n, <<To(table[s], Announce(n))>>, Rest(n))
    /\ UNCHANGED <<link, nextKey, counters, delivered>>

-----------------------------------------------------------------------------
(* Periodic work of loop() and what the bridge sends; without an active peer *)
(* these do nothing.                                                        *)

\* A peer stuck in the handshake is freed after BITCHAT_HANDSHAKE_TIMEOUT_MS.
\* _free_peer searches for its handle; a central's client is disconnected, and
\* its onDisconnect searches for the handle again.
HandshakeTimeout(n, s) ==
    LET p     == peers[n][s]
        freed == FindPeer(peers[n], p.handle)
        ends  == peers[n][freed].client /\ link[n].stage # "down"
    IN  /\ p.active
        /\ p.hs.phase \notin {"TRANSPORT", "IDLE"}
        /\ IF ends
           THEN /\ peers' = [peers EXCEPT ![n] = FreePeer(FreePeer(@, p.handle), p.handle),
                                          ![Hub] = FreePeer(@, link[n].hub_handle)]
                /\ link' = Down(n)
           ELSE /\ peers' = [peers EXCEPT ![n] = FreePeer(@, p.handle)]
                /\ link' = link
        /\ Event("fault")
        /\ UNCHANGED <<inbox, nextKey, links, delivered>>

\* Every BITCHAT_ANNOUNCE_INTERVAL_MS, to peers that had our announce.
Reannounce(n) ==
    /\ Event("announce")
    /\ Active(peers[n]) # {}
    /\ inbox' = SendToPeers(link, n,
                    ToAll(peers[n], {s \in Active(peers[n]) : peers[n][s].announce_sent},
                          Announce(n)), inbox)
    /\ UNCHANGED <<peers, link, nextKey, links, delivered>>

\* announce_virtual, by the Hub.
AnnounceVirtual ==
    /\ Event("announce")
    /\ Active(peers[Hub]) # {}
    /\ inbox' = SendToPeers(link, Hub,
                    ToAll(peers[Hub], Active(peers[Hub]), Announce(Virtual)), inbox)
    /\ UNCHANGED <<peers, link, nextKey, links, delivered>>

\* A phone asks the Hub for its announce; this firmware never asks itself.
RequestSync(c) ==
    /\ Event("announce")
    /\ link[c].stage = "subscribed"
    /\ Len(inbox[Hub]) < RX_ROOM
    /\ inbox' = [inbox EXCEPT ![Hub] =
                    Append(@, [handle |-> link[c].hub_handle,
                               pkt |-> Packet("REQUEST_SYNC", c)])]
    /\ UNCHANGED <<peers, link, nextKey, links, delivered>>

\* send_text: encrypted for a peer with a session, in the open for others.
SendText(n) ==
    LET table == peers[n]
        pt(p) == [kind |-> "PRIVATE_MSG", id |-> events["text"] + 1, from |-> n, to |-> p.hs.rs]
        pkts  == [s \in Slots |-> IF table[s].hs.phase = "TRANSPORT"
                                  THEN Encrypted(n, CipherText(table[s].hs.send_cs, pt(table[s])))
                                  ELSE Packet("MESSAGE", n)]
    IN  /\ Event("text")
        /\ Active(table) # {}
        /\ peers' = [peers EXCEPT ![n] = [s \in Slots |->
                        IF @[s].active /\ @[s].hs.phase = "TRANSPORT"
                        THEN Advanced(@[s]) ELSE @[s]]]
        /\ inbox' = SendToPeers(link, n, ToEach(table, Active(table), pkts), inbox)
        /\ UNCHANGED <<link, nextKey, links, delivered>>

\* send_text_as: always in the open, signed by the virtual identity.
SendTextAs ==
    /\ Event("text")
    /\ Active(peers[Hub]) # {}
    /\ inbox' = SendToPeers(link, Hub,
                    ToAll(peers[Hub], Active(peers[Hub]), Packet("MESSAGE", Virtual)), inbox)
    /\ UNCHANGED <<peers, link, nextKey, links, delivered>>

-----------------------------------------------------------------------------

Connections(c) == LinkUp(c) \/ Subscribe(c) \/ LinkDown(c)

Dispatch(n, table, s) ==
    \/ Discard(n, table, s)
    \/ \E ok \in BOOLEAN : HandleAnnounce(n, table, s, ok)
    \/ HandleMessage(n, table, s)
    \/ \E result \in {"ok", "no_init", "error"} : HandleNoiseHandshake(n, table, s, result)
    \/ HandleEncrypted(n, table, s)
    \/ HandleRequestSync(n, table, s)

Incoming(n) ==
    /\ inbox[n] # <<>>
    /\ \E table \in {Admitted(n)} :
          Dispatch(n, table, FindPeer(table, Head(inbox[n]).handle))

Next ==
    \/ \E c \in Centrals : Connections(c) \/ RequestSync(c)
    \/ \E n \in Nodes :
          \/ Incoming(n)
          \/ Lose(n)
          \/ \E s \in Slots : HandshakeTimeout(n, s)
          \/ Reannounce(n)
          \/ SendText(n)
    \/ AnnounceVirtual
    \/ SendTextAs

Spec == Init /\ [][Next]_vars

-----------------------------------------------------------------------------
(* Properties                                                               *)

Phases == {"IDLE", "AWAIT_MSG2", "AWAIT_MSG3", "TRANSPORT", "FAILED"}

\* Every variable keeps its type; the table and the ring keep their sizes.
TypeOK ==
    /\ \A n \in Nodes : \A s \in Slots :
          LET p == peers[n][s]
          IN  /\ p.active \in BOOLEAN /\ p.handle \in Handles
              /\ p.addr \in Nodes \cup {Nobody}
              /\ p.id \in Nodes \cup {Virtual, Nobody}
              /\ p.sign \in Nodes \cup {Virtual, Nobody}
              /\ p.hs.phase \in Phases
              /\ p.hs.role \in {"INITIATOR", "RESPONDER"}
    /\ \A n \in Nodes : Len(inbox[n]) <= RX_ROOM
    /\ \A c \in Centrals :
          /\ link[c].stage \in {"down", "linked", "subscribed"}
          /\ link[c].hub_handle \in Handles /\ link[c].handle \in Handles

Sessions == {x \in Nodes \X Slots : peers[x[1]][x[2]].hs.phase = "TRANSPORT"}

Hs(x) == peers[x[1]][x[2]].hs

\* No two cipher states anywhere send with the same key, so that no key is used
\* twice with one nonce, whatever was timed out, relayed or read in the wrong
\* phase before the two sessions came up.
SendKeysDistinct ==
    \A x, y \in Sessions : x # y => Hs(x).send_cs.k # Hs(y).send_cs.k

\* A private message is passed on only by the device whose static key it was
\* encrypted for, although notifications go to every central, and that device
\* has authenticated the key of the device that sent it.
PrivateDelivery ==
    \A n \in Nodes : \A i \in DOMAIN delivered[n] :
        LET d == delivered[n][i]
        IN  /\ d.pt.to = Static(n)
            /\ d.rs = Static(d.pt.from)

\* Whatever packets outlive their connection and however handles are reused, a
\* session is with the device at the other end of a connection that is up: at the
\* Hub the one that has the slot's handle now.
SessionOfConnection ==
    \A x \in Sessions :
        LET n == x[1]
            p == peers[n][x[2]]
        IN  IF n = Hub
            THEN \E c \in Centrals : /\ link[c].stage # "down"
                                     /\ link[c].hub_handle = p.handle
                                     /\ p.hs.rs = Static(c)
            ELSE link[n].stage # "down" /\ p.hs.rs = Static(Hub)

\* The nonce a session expects has not passed the nonce of any packet of that
\* session still on its way: a packet that cannot be opened because the counter
\* has run ahead would desynchronise the two for good.
ReceiverNotAhead ==
    \A x \in Sessions : \A i \in DOMAIN inbox[x[1]] :
        LET pkt == inbox[x[1]][i].pkt
        IN  pkt.type = "ENCRYPTED" /\ pkt.body.k = Hs(x).recv_cs.k
                => pkt.body.n >= Hs(x).recv_cs.n
=============================================================================
