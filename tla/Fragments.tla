----------------------------- MODULE Fragments -----------------------------
(***************************************************************************)
(* How a packet crosses one BLE hop (bitchat_ble.cpp): the sender pads it   *)
(* (_pad_packet), _send_to_peer sends it whole or in fragments              *)
(* (_send_fragmented), and the receiver collects fragments in a few slots   *)
(* (_handle_fragment), puts the reassembled packet into the receive ring    *)
(* and takes the padding off (_process_incoming).                           *)
(*                                                                          *)
(* The payload of a fragment is abstracted to the piece of the packet it    *)
(* carries: which packet, from which offset, how many bytes.  Lengths are   *)
(* the code's lengths in bytes.                                             *)
(*                                                                          *)
(* The radio may deliver a fragment never, late, out of order or again.     *)
(* Connections come and go while the slots stay: the packets sent with one  *)
(* handle may belong to several connections that had it one after another.  *)
(* The 32-bit message ids are random; two senders may draw the same one,    *)
(* but an id is not drawn twice on one handle.                              *)
(***************************************************************************)
EXTENDS Padding, Sequences, FiniteSetsExt

CONSTANTS
    BITCHAT_BLE_MTU,          \* 512, also RX_BUF_SIZE
    BITCHAT_MAX_FRAGMENTS,    \* 8 fragments per packet
    BITCHAT_FRAG_REASSEMBLY,  \* reassembly slots
    FRAG_BUFFER,              \* sizeof(FragReassembly::data), 2048
    FRAG_TIMEOUT,             \* BITCHAT_FRAG_TIMEOUT_MS in ticks
    FRAG_OVERHEAD,            \* header, sender id, fragment header, signature, margin
    PeerMtu,                  \* what _send_to_peer finds: the negotiated MTU - 3
    BridgePackets,            \* packets that another bridge may send
    PhonePackets,             \* packets that phones may send
    Handles, MsgIds,          \* connection handles, random message ids
    Bodies,                   \* [len, last, run] of a bridge's packets before padding
    PhoneForms,               \* [body, bytes]: packets of phones before and after padding
    PhoneChunks,              \* sizes into which a phone cuts a packet
    MaxRepeats,               \* bound: deliveries of a fragment beyond the first
    MaxTime                   \* bound: ticks of the clock

ASSUME FragmentsAssumption ==
    /\ BITCHAT_BLE_MTU \in Nat \ {0} /\ PeerMtu \in Nat \ {0}
    /\ BITCHAT_MAX_FRAGMENTS \in Nat \ {0}
    /\ BITCHAT_FRAG_REASSEMBLY \in Nat \ {0}
    /\ FRAG_BUFFER \in Nat /\ FRAG_TIMEOUT \in Nat
    /\ FRAG_OVERHEAD \in Nat /\ FRAG_OVERHEAD < BITCHAT_BLE_MTU
    /\ \A b \in Bodies : IsBytes(b)
    /\ \A f \in PhoneForms : IsBytes(f.body) /\ IsBytes(f.bytes)
    /\ PhoneChunks \subseteq Nat \ {0}
    /\ "none" \notin Handles \cup MsgIds
    /\ MaxRepeats \in Nat /\ MaxTime \in Nat

Packets == BridgePackets \cup PhonePackets

\* The chunk that _send_fragmented cuts, and the staging area per fragment.
SendChunk ==
    IF BITCHAT_BLE_MTU - FRAG_OVERHEAD < 64 THEN 64 ELSE BITCHAT_BLE_MTU - FRAG_OVERHEAD

StageChunk == FRAG_BUFFER \div BITCHAT_MAX_FRAGMENTS

FragSlots == 1 .. BITCHAT_FRAG_REASSEMBLY
Indexes   == 0 .. BITCHAT_MAX_FRAGMENTS - 1

VARIABLES
    frag_slots,  \* the reassembly slots
    time,         \* millis() in ticks
    sent,         \* packet -> how it was sent, or NotSent
    copies,       \* <<packet, index>> -> how often the fragment was received
    repeats,      \* deliveries beyond the first, of all fragments
    ring,         \* history: what was put into the receive ring
    handed,       \* history: packet -> how often its fragments completed one
    excused       \* history: packets that met a limit the code names

vars == <<frag_slots, time, sent, copies, repeats, ring, handed, excused>>

NotSent == [handle |-> "none"]

IsSent(p) == sent[p] # NotSent

\* The number of fragments of a packet of n bytes cut into chunks of c bytes.
Pieces(n, c) == (n + c - 1) \div c

\* The i-th chunk of packet p, counting from 0.
Chunk(p, i) ==
    LET s == sent[p]
        left == s.bytes.len - i * s.chunk
    IN  [packet |-> p, off |-> i * s.chunk,
         len |-> IF left > s.chunk THEN s.chunk ELSE left]

Total(p) == Pieces(sent[p].bytes.len, sent[p].chunk)

FragmentsOf(p) == {<<p, i>> : i \in 0 .. Total(p) - 1}

NoChunk == [packet |-> "none", off |-> 0, len |-> 0]

FreeSlot == [active |-> FALSE, msg_id |-> "none", conn_handle |-> "none",
             start_ms |-> 0, received_mask |-> {},
             data |-> [i \in Indexes |-> NoChunk]]

Init ==
    /\ frag_slots = [s \in FragSlots |-> FreeSlot]
    /\ time = 0
    /\ sent = [p \in Packets |-> NotSent]
    /\ copies = [f \in Packets \X Indexes |-> 0]
    /\ repeats = 0
    /\ ring = {}
    /\ handed = [p \in Packets |-> 0]
    /\ excused = {}

-----------------------------------------------------------------------------
(* Senders                                                                  *)

FreshId(h, id) == \A q \in Packets : ~(sent[q].handle = h /\ sent[q].msg_id = id)

\* _send_fragmented: the packet goes out in chunks under a random id, unless
\* that takes too many.
SendFragmented(p, h, id, body, bytes) ==
    /\ Pieces(bytes.len, SendChunk) <= BITCHAT_MAX_FRAGMENTS
    /\ FreshId(h, id)
    /\ sent' = [sent EXCEPT ![p] = [handle |-> h, msg_id |-> id, body |-> body,
                                    bytes |-> bytes, chunk |-> SendChunk,
                                    whole |-> FALSE]]

\* _send_to_peer by another bridge: in fragments if the packet exceeds the MTU
\* of the connection, and in one piece otherwise.  _send_packet, send_text_as,
\* _send_announce and _relay_packet pad; _send_handshake_packet,
\* _send_encrypted and _send_leave do not.
SendToPeer(p, h, id, body, padded) ==
    LET bytes == IF padded THEN pad_packet(body) ELSE body
    IN  /\ ~IsSent(p)
        /\ \/ /\ bytes.len > PeerMtu
              /\ SendFragmented(p, h, id, body, bytes)
           \/ /\ bytes.len <= PeerMtu
              /\ FreshId(h, id)
              /\ sent' = [sent EXCEPT ![p] = [handle |-> h, msg_id |-> id, body |-> body,
                                              bytes |-> bytes, chunk |-> bytes.len,
                                              whole |-> TRUE]]
        /\ UNCHANGED <<frag_slots, time, copies, repeats, ring, handed, excused>>

\* A phone sends a packet too long for one piece, padded and cut as its own
\* code decides.
PhoneSends(p, h, id, form, c) ==
    /\ ~IsSent(p)
    /\ FreshId(h, id)
    /\ form.bytes.len > PeerMtu
    /\ Pieces(form.bytes.len, c) <= BITCHAT_MAX_FRAGMENTS
    /\ sent' = [sent EXCEPT ![p] = [handle |-> h, msg_id |-> id, body |-> form.body,
                                    bytes |-> form.bytes, chunk |-> c, whole |-> FALSE]]
    /\ UNCHANGED <<frag_slots, time, copies, repeats, ring, handed, excused>>

-----------------------------------------------------------------------------
(* Receiver                                                                 *)

Received(p, i) ==
    /\ IsSent(p)
    /\ i < Total(p)
    /\ copies' = [copies EXCEPT ![<<p, i>>] = @ + 1]
    /\ repeats' = IF copies[<<p, i>>] > 0 THEN repeats + 1 ELSE repeats
    /\ repeats' <= MaxRepeats

Lowest(S) == CHOOSE s \in S : \A t \in S : s <= t

\* Mutant of Matching: the connection is not compared.
MatchingId(h, id) ==
    {s \in FragSlots : frag_slots[s].active /\ frag_slots[s].msg_id = id}

\* The slots collecting this message of this connection.
Matching(h, id) ==
    {s \in FragSlots : /\ frag_slots[s].active
                       /\ frag_slots[s].msg_id = id
                       /\ frag_slots[s].conn_handle = h}

\* Mutant of Expired: the timeout is not looked at.
ExpiredAny == {s \in FragSlots : frag_slots[s].active}

\* The slots whose message was begun too long ago.
Expired == {s \in FragSlots : /\ frag_slots[s].active
                              /\ time - frag_slots[s].start_ms > FRAG_TIMEOUT}

\* The slot table after the search, and the slots the search may take: those of
\* the message, or else the free ones after expired ones were freed.
Slots(h, id) ==
    IF Matching(h, id) # {} THEN [slots |-> frag_slots, use |-> Matching(h, id)]
    ELSE LET slots == [s \in FragSlots |->
                          IF s \in Expired THEN [frag_slots[s] EXCEPT !.active = FALSE]
                                           ELSE frag_slots[s]]
         IN  [slots |-> slots, use |-> {s \in FragSlots : ~slots[s].active}]

\* A slot ready for a fragment: the one found, or a cleared one.
Opened(slot, h, id) ==
    IF slot.active THEN slot
    ELSE [FreeSlot EXCEPT !.active = TRUE, !.msg_id = id, !.conn_handle = h,
                          !.start_ms = time]

\* The fragment in its staging area, unless it is there already.
Stored(slot, i, chunk) ==
    IF i \in slot.received_mask THEN slot
    ELSE [slot EXCEPT !.data[i] = chunk, !.received_mask = @ \cup {i}]

\* Mutant of AllReceived: one fragment too many is expected.
AllAndOneMore(slot, total) == slot.received_mask = 0 .. total

\* received_mask == expected_mask, with the total of the fragment that arrives.
AllReceived(slot, total) == slot.received_mask = 0 .. total - 1

\* The chunks in index order, and their length together.
Concatenated(slot, total) == [i \in 1 .. total |-> slot.data[i - 1]]

TotalLen(slot, total) == MapThenSumSet(LAMBDA i : slot.data[i].len, 0 .. total - 1)

\* The packets that slots of S hold pieces of.
PacketsIn(S) ==
    UNION {{frag_slots[s].data[i].packet : i \in frag_slots[s].received_mask} : s \in S}

\* Mutant of Acceptable: the staging area is not looked at.
AcceptableAnyLength(p, i) ==
    /\ Total(p) \in 1 .. BITCHAT_MAX_FRAGMENTS
    /\ i < Total(p)

\* The tests at the head of _handle_fragment.
Acceptable(p, i) ==
    /\ Total(p) \in 1 .. BITCHAT_MAX_FRAGMENTS
    /\ i < Total(p)
    /\ Chunk(p, i).len \in 1 .. StageChunk

\* _handle_fragment turns the fragment away: it fails a test, or no slot is free.
RefuseFragment(p, i) ==
    LET found == Slots(sent[p].handle, sent[p].msg_id)
    IN  /\ ~sent[p].whole
        /\ Received(p, i)
        /\ ~Acceptable(p, i) \/ found.use = {}
        /\ excused' = excused \cup {p}
        /\ UNCHANGED <<frag_slots, time, sent, ring, handed>>

\* Mutant of Release: the slot of a finished packet stays active.
ReleaseForgotten(slot) == slot

Release(slot) == [slot EXCEPT !.active = FALSE]

\* _handle_fragment takes the fragment.  When it is the last one missing, the
\* packet goes into the receive ring if it fits an entry and the ring is not
\* full, and the slot is released in any case.
HandleFragment(p, i, full) ==
    LET h     == sent[p].handle
        id    == sent[p].msg_id
        total == Total(p)
        found == Slots(h, id)
        s     == Lowest(found.use)
        slot  == Stored(Opened(found.slots[s], h, id), i, Chunk(p, i))
        done  == AllReceived(slot, total)
        fits  == TotalLen(slot, total) \in 1 .. BITCHAT_BLE_MTU
        lost  == IF found.slots = frag_slots THEN {} ELSE PacketsIn(Expired)
    IN  /\ ~sent[p].whole
        /\ Received(p, i)
        /\ Acceptable(p, i) /\ found.use # {}
        /\ full => done
        /\ frag_slots' = [found.slots EXCEPT ![s] = IF done THEN Release(slot) ELSE slot]
        /\ IF done /\ fits /\ ~full
           THEN /\ ring' = ring \cup {[handle |-> h, chunks |-> Concatenated(slot, total)]}
                /\ handed' = [handed EXCEPT ![p] = @ + 1]
           ELSE UNCHANGED <<ring, handed>>
        /\ excused' = excused \cup lost
                               \cup (IF done /\ (full \/ ~fits) THEN {p} ELSE {})
        /\ UNCHANGED <<time, sent>>

\* A packet that came whole is put into the ring by the host task's callback.
ReceiveWhole(p) ==
    /\ sent[p].whole
    /\ Received(p, 0)
    /\ ring' = ring \cup {[handle |-> sent[p].handle, chunks |-> <<Chunk(p, 0)>>]}
    /\ handed' = [handed EXCEPT ![p] = @ + 1]
    /\ UNCHANGED <<frag_slots, time, sent, excused>>

Tick ==
    /\ time < MaxTime
    /\ time' = time + 1
    /\ UNCHANGED <<frag_slots, sent, copies, repeats, ring, handed, excused>>

Next ==
    \/ Tick
    \/ \E h \in Handles, id \in MsgIds :
        \/ \E p \in BridgePackets, b \in Bodies, padded \in BOOLEAN :
              SendToPeer(p, h, id, b, padded)
        \/ \E p \in PhonePackets, form \in PhoneForms, c \in PhoneChunks :
              PhoneSends(p, h, id, form, c)
    \/ \E p \in Packets :
        \/ IsSent(p) /\ ReceiveWhole(p)
        \/ \E i \in Indexes :
              /\ IsSent(p)
              /\ \/ RefuseFragment(p, i)
                 \/ \E full \in BOOLEAN : HandleFragment(p, i, full)

Spec == Init /\ [][Next]_vars

-----------------------------------------------------------------------------
(* Properties                                                               *)

SlotType ==
    [active : BOOLEAN, msg_id : MsgIds \cup {"none"}, conn_handle : Handles \cup {"none"},
     start_ms : 0 .. MaxTime, received_mask : SUBSET Indexes,
     data : [Indexes -> [packet : Packets \cup {"none"}, off : Nat, len : 0 .. StageChunk]]]

\* Type invariant; a chunk in a slot never exceeds its staging area.
TypeOK ==
    /\ frag_slots \in [FragSlots -> SlotType]
    /\ time \in 0 .. MaxTime
    /\ DOMAIN sent = Packets
    /\ copies \in [Packets \X Indexes -> 0 .. MaxRepeats + 1]
    /\ repeats \in 0 .. MaxRepeats
    /\ handed \in [Packets -> 0 .. MaxRepeats + 1]
    /\ excused \subseteq Packets

PiecesInOrder(p) == [i \in 1 .. Total(p) |-> Chunk(p, i - 1)]

\* What _handle_fragment puts into the ring is one packet that was sent on this
\* handle, all of it and in order, whatever other messages, repeats and old
\* slots it was interleaved with.
ReassembledWhole ==
    \A e \in ring :
        \E p \in Packets : /\ IsSent(p)
                           /\ e.handle = sent[p].handle
                           /\ e.chunks = PiecesInOrder(p)

\* A packet enters the ring at most once for each time all of its fragments
\* came: repeats of some of them are not enough for a second time.
RepeatsNeedAll ==
    \A p \in Packets : IsSent(p) =>
        \A f \in FragmentsOf(p) : handed[p] <= copies[f]

\* A packet all of whose fragments came is in the ring, or it met a limit: a
\* chunk above the staging area, no free slot, a slot given up after the
\* timeout, a full ring or a packet longer than a ring entry.
ArrivedIsHandedOn ==
    \A p \in Packets :
        /\ IsSent(p)
        /\ p \notin excused
        /\ \A f \in FragmentsOf(p) : copies[f] > 0
        => \E e \in ring : e.chunks = PiecesInOrder(p)

\* A slot is given to another message only when its own message was finished or
\* begun more than the timeout ago: nobody's reassembly is cut short.
SlotsAreKept ==
    [][\A s \in FragSlots :
           /\ frag_slots[s].active
           /\ \/ frag_slots'[s].msg_id # frag_slots[s].msg_id
              \/ frag_slots'[s].conn_handle # frag_slots[s].conn_handle
           => time - frag_slots[s].start_ms > FRAG_TIMEOUT]_vars

\* What a connection takes in one piece fits a ring entry (the MTU is that of
\* setMTU at most), no packet that fits one is padded by more than a byte can say,
\* and phones pad as this code does or not at all.
PaddingFits ==
    /\ PeerMtu <= BITCHAT_BLE_MTU
    /\ \A n \in 1 .. BITCHAT_BLE_MTU : Block(n) <= n + 255
    /\ \A f \in PhoneForms : f.bytes = f.body \/ f.bytes = pad_packet(f.body)

\* What unpad_packet leaves of a packet that came through is the packet before
\* padding.  The exception are packets sent without padding whose end reads
\* like padding: _process_incoming takes bytes of their signature off.
PaddingComesOff ==
    \A e \in ring :
        LET p == e.chunks[1].packet
            s == sent[p]
        IN  unpad_packet(s.bytes) = s.body.len
            \/ /\ s.bytes = s.body
               /\ s.body.last \in 1 .. s.body.run
=============================================================================
