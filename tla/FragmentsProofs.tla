-------------------------- MODULE FragmentsProofs --------------------------
(***************************************************************************)
(* Proofs about fragmentation and reassembly: what goes into the receive    *)
(* ring is one packet, whole and in order; repeats of fragments alone never *)
(* complete a packet a second time; a packet whose fragments came and that  *)
(* met no limit is in the ring; no reassembly is cut short; and the padding  *)
(* of a packet in the ring comes off.                                       *)
(***************************************************************************)
EXTENDS Fragments, FiniteSetTheorems, WellFoundedInduction, TLAPS

-----------------------------------------------------------------------------
(* The inductive invariant                                                  *)

\* What is known of a packet that was sent.
SentRecord(r) ==
    /\ r.handle \in Handles /\ r.msg_id \in MsgIds
    /\ IsBytes(r.bytes)
    /\ r.chunk \in Nat \ {0}
    /\ r.whole \in BOOLEAN
    /\ r.whole => r.chunk = r.bytes.len
    /\ Pieces(r.bytes.len, r.chunk) \in 1 .. BITCHAT_MAX_FRAGMENTS

SentInv ==
    /\ sent = [p \in Packets |-> sent[p]]
    /\ \A p \in Packets : IsSent(p) => SentRecord(sent[p])

\* Handle and message id name one packet.
OneSenderEach ==
    \A p, q \in Packets :
        /\ IsSent(p) /\ IsSent(q)
        /\ sent[p].handle = sent[q].handle /\ sent[p].msg_id = sent[q].msg_id
        => p = q

\* The slot r collects the fragments of packet p.
Collects(r, p) ==
    r.active /\ r.conn_handle = sent[p].handle /\ r.msg_id = sent[p].msg_id

\* The slot r holds some, but not all, of the fragments of packet p, each in
\* its place.
HoldsPieces(r, p) ==
    /\ IsSent(p) /\ ~sent[p].whole
    /\ Collects(r, p)
    /\ r.received_mask # {}
    /\ r.received_mask \subseteq 0 .. Total(p) - 1
    /\ r.received_mask # 0 .. Total(p) - 1
    /\ \A i \in r.received_mask : r.data[i] = Chunk(p, i)

\* Every active slot is of one packet that was sent.
SlotsHoldPieces ==
    \A s \in FragSlots : frag_slots[s].active =>
        \E p \in Packets : HoldsPieces(frag_slots[s], p)

\* No two active slots are of the same message.
OneSlotEach ==
    \A s, t \in FragSlots :
        /\ frag_slots[s].active /\ frag_slots[t].active
        /\ frag_slots[s].conn_handle = frag_slots[t].conn_handle
        /\ frag_slots[s].msg_id = frag_slots[t].msg_id
        => s = t

\* A fragment was received once for each time its packet was completed, and
\* once more while it waits in a slot.
Counted ==
    \A p \in Packets : IsSent(p) =>
        \A i \in 0 .. Total(p) - 1 :
            /\ handed[p] <= copies[<<p, i>>]
            /\ \A s \in FragSlots :
                  Collects(frag_slots[s], p) /\ i \in frag_slots[s].received_mask
                  => handed[p] < copies[<<p, i>>]

InRing(p) == \E e \in ring : e.chunks = PiecesInOrder(p)

\* A fragment that came waits in a slot, unless its packet is in the ring or
\* met a limit.
Kept ==
    \A p \in Packets : IsSent(p) /\ p \notin excused /\ ~InRing(p) =>
        \A i \in 0 .. Total(p) - 1 : copies[<<p, i>>] > 0 =>
            \E s \in FragSlots :
                Collects(frag_slots[s], p) /\ i \in frag_slots[s].received_mask

\* Repeats are counted.
RepeatsCounted == \A f \in Packets \X Indexes : copies[f] <= repeats + 1

\* Nothing came of a packet that was not sent.
UnsentUntouched ==
    \A p \in Packets : ~IsSent(p) =>
        handed[p] = 0 /\ \A i \in Indexes : copies[<<p, i>>] = 0

IInv ==
    /\ TypeOK /\ SentInv /\ OneSenderEach /\ UnsentUntouched
    /\ SlotsHoldPieces /\ OneSlotEach
    /\ Counted /\ RepeatsCounted /\ Kept
    /\ ReassembledWhole

-----------------------------------------------------------------------------
(* Numbers and padding                                                      *)

\* Every non-empty set of numbers has a least element.
LEMMA LeastElement ==
    ASSUME NEW S \in SUBSET Nat, S # {}
    PROVE  \E i \in S : \A j \in S : i <= j
  <1>. DEFINE R == OpToRel(<, Nat)
  <1>1. IsWellFoundedOn(R, Nat)
    BY NatLessThanWellFounded
  <1>2. PICK x \in S : \A y \in S : ~ (<<y, x>> \in R)
    <2>. HIDE DEF R
    <2>. QED
      BY <1>1, WFMin, Zenon
  <1>3. \A y \in S : ~ (y < x)
    BY <1>2 DEF OpToRel
  <1>. QED
    BY <1>3

\* Lowest picks an element.
LEMMA LowestIsIn ==
    ASSUME NEW S \in SUBSET FragSlots, S # {}
    PROVE  Lowest(S) \in S
  <1>1. S \in SUBSET Nat
    BY DEF FragSlots
  <1>2. \E s \in S : \A t \in S : s <= t
    BY <1>1, LeastElement
  <1>. QED
    BY <1>2 DEF Lowest

\* A packet has at least one piece, and just one if the chunk is the packet.
LEMMA PiecesPositive ==
    ASSUME NEW n \in Nat \ {0}, NEW c \in Nat \ {0}
    PROVE  Pieces(n, c) \in Nat \ {0} /\ Pieces(n, n) = 1
  <1>1. (n + c - 1) \div c \in Nat
    OBVIOUS
  <1>2. (n + c - 1) \div c >= 1
    OBVIOUS
  <1>3. (n + n - 1) \div n = 1
    OBVIOUS
  <1>. QED
    BY <1>1, <1>2, <1>3 DEF Pieces

\* Block is a block; where no block holds the packet, it is the largest one.
LEMMA BlockIsBlock ==
    ASSUME NEW n \in Nat
    PROVE  Block(n) \in Blocks
  <1>. DEFINE fits == {b \in Blocks : n <= b}
  <1>1. CASE fits # {}
    <2>1. fits \in SUBSET Nat
      BY BlocksAssumption
    <2>. HIDE DEF fits
    <2>2. \E b \in fits : \A c \in fits : b <= c
      BY <1>1, <2>1, LeastElement
    <2>3. (CHOOSE b \in fits : \A c \in fits : b <= c) \in fits
      BY <2>2
    <2>. QED
      BY <1>1, <2>3 DEF Block, fits
  <1>2. CASE fits = {}
    <2>. DEFINE D == {n - b : b \in Blocks}
    <2>1. \A b \in Blocks : b \in Nat /\ b < n
      BY <1>2, BlocksAssumption
    <2>2. D \in SUBSET Nat /\ D # {}
      <3>1. \A b \in Blocks : n - b \in Nat
        BY <2>1
      <3>2. \E b \in Blocks : n - b \in D
        BY BlocksAssumption
      <3>. QED
        BY <3>1, <3>2
    <2>3. PICK d \in D : \A e \in D : d <= e
      <3>. HIDE DEF D
      <3>. QED
        BY <2>2, LeastElement
    <2>4. PICK b \in Blocks : d = n - b
      BY <2>3
    <2>5. \A c \in Blocks : c <= b
      BY <2>1, <2>3, <2>4
    <2>6. (CHOOSE x \in Blocks : \A c \in Blocks : c <= x) \in Blocks
      BY <2>4, <2>5
    <2>. QED
      BY <1>2, <2>6 DEF Block
  <1>. QED
    BY <1>1, <1>2

\* _pad_packet yields a packet: its length, last byte and run are consistent.
LEMMA PaddedIsBytes ==
    ASSUME NEW p, IsBytes(p)
    PROVE  IsBytes(pad_packet(p))
  <1>1. Block(p.len) \in Nat \ {0}
    BY BlockIsBlock, BlocksAssumption DEF IsBytes
  <1>2. CASE Block(p.len) <= p.len
    BY <1>2 DEF pad_packet
  <1>3. CASE ~(Block(p.len) <= p.len)
    <2>. DEFINE k == Block(p.len) - p.len
                byte == k % 256
                run == k + (IF p.last = byte THEN p.run ELSE 0)
    <2>1. k \in Nat \ {0} /\ p.len \in Nat /\ p.run \in 1 .. p.len
          /\ Block(p.len) = k + p.len
      BY <1>1, <1>3 DEF IsBytes
    <2>2. byte \in 0 .. 255
      BY <2>1
    <2>. HIDE DEF byte, k
    <2>3. run \in 1 .. k + p.len
      BY <2>1
    <2>4. pad_packet(p) = [len |-> Block(p.len), last |-> byte, run |-> run]
      BY <1>3 DEF pad_packet, byte, k
    <2>. QED
      BY <1>1, <2>1, <2>2, <2>3, <2>4 DEF IsBytes, ByteValues
  <1>. QED
    BY <1>2, <1>3

-----------------------------------------------------------------------------
(* Packets that were sent                                                   *)

\* What holds of a packet that was sent.
LEMMA SentFacts ==
    ASSUME SentInv, NEW p \in Packets, IsSent(p)
    PROVE  /\ SentRecord(sent[p])
           /\ Total(p) \in 1 .. BITCHAT_MAX_FRAGMENTS
           /\ 0 .. Total(p) - 1 \subseteq Indexes
           /\ 0 \in 0 .. Total(p) - 1
           /\ sent[p].whole => Total(p) = 1
  <1>1. SentRecord(sent[p])
    BY DEF SentInv
  <1>2. Total(p) \in 1 .. BITCHAT_MAX_FRAGMENTS
    BY <1>1 DEF SentRecord, Total
  <1>3. sent[p].whole => Total(p) = 1
    BY <1>1, PiecesPositive DEF SentRecord, Total, IsBytes
  <1>4. 0 .. Total(p) - 1 \subseteq Indexes /\ 0 \in 0 .. Total(p) - 1
    BY <1>2, FragmentsAssumption DEF Indexes
  <1>. QED
    BY <1>1, <1>2, <1>3, <1>4

\* What is said of a packet depends on how it was sent alone.
LEMMA SameSending ==
    ASSUME NEW q, sent'[q] = sent[q]
    PROVE  /\ Total(q)' = Total(q)
           /\ IsSent(q)' <=> IsSent(q)
           /\ \A i : Chunk(q, i)' = Chunk(q, i)
           /\ PiecesInOrder(q)' = PiecesInOrder(q)
  <1>1. Total(q)' = Total(q)
    BY DEF Total
  <1>2. IsSent(q)' <=> IsSent(q)
    BY DEF IsSent
  <1>3. \A i : Chunk(q, i)' = Chunk(q, i)
    BY DEF Chunk
  <1>4. PiecesInOrder(q)' = PiecesInOrder(q)
    BY <1>1, <1>3 DEF PiecesInOrder
  <1>. QED
    BY <1>1, <1>2, <1>3, <1>4

\* A chunk that _handle_fragment accepts fits its staging area.
LEMMA AcceptedChunk ==
    ASSUME SentInv, NEW p \in Packets, IsSent(p), NEW i \in Indexes, Acceptable(p, i)
    PROVE  /\ Chunk(p, i) \in [packet : Packets \cup {"none"}, off : Nat,
                               len : 0 .. StageChunk]
           /\ Chunk(p, i).packet = p
  <1>. DEFINE n == sent[p].bytes.len
              c == sent[p].chunk
              left == n - i * c
              k == IF left > c THEN c ELSE left
  <1>1. c \in Nat /\ i \in Nat
    BY SentFacts DEF SentRecord, Indexes
  <1>2. i * c \in Nat
    BY <1>1
  <1>3. Chunk(p, i) = [packet |-> p, off |-> i * c, len |-> k]
    BY DEF Chunk
  <1>4. k \in 1 .. StageChunk
    BY <1>3 DEF Acceptable
  <1>5. k \in 0 .. StageChunk
    BY <1>4, FragmentsAssumption DEF StageChunk
  <1>. HIDE DEF k, c
  <1>. QED
    BY <1>2, <1>3, <1>5

-----------------------------------------------------------------------------
(* Slots                                                                    *)

ChunkType == [packet : Packets \cup {"none"}, off : Nat, len : 0 .. StageChunk]

LEMMA FreeSlotType == FreeSlot \in SlotType
  <1>1. StageChunk \in Nat
    BY FragmentsAssumption DEF StageChunk
  <1>. QED
    BY <1>1, FragmentsAssumption DEF FreeSlot, SlotType, NoChunk, Indexes

\* A slot that is opened anew is empty; one that is active is used as it is.
LEMMA OpenedFacts ==
    ASSUME TypeOK, NEW r \in SlotType, NEW h \in Handles, NEW id \in MsgIds
    PROVE  LET o == Opened(r, h, id)
           IN  /\ o \in SlotType /\ o.active
               /\ r.active => o = r
               /\ ~r.active => /\ o.conn_handle = h /\ o.msg_id = id
                               /\ o.received_mask = {}
  <1>1. CASE r.active
    BY <1>1 DEF Opened, SlotType
  <1>2. CASE ~r.active
    <2>. DEFINE o == [active |-> TRUE, msg_id |-> id, conn_handle |-> h,
                      start_ms |-> time, received_mask |-> {},
                      data |-> [i \in Indexes |-> NoChunk]]
    <2>1. Opened(r, h, id) = o
      BY <1>2 DEF Opened, FreeSlot
    <2>2. [i \in Indexes |-> NoChunk] \in [Indexes -> ChunkType]
      BY FreeSlotType DEF FreeSlot, SlotType, ChunkType
    <2>3. o \in SlotType
      BY <2>2 DEF SlotType, ChunkType, TypeOK
    <2>. QED
      BY <1>2, <2>1, <2>3
  <1>. QED
    BY <1>1, <1>2

\* A fragment is stored in its place, and the others stay.
LEMMA StoredFacts ==
    ASSUME NEW r \in SlotType, NEW i \in Indexes, NEW c \in ChunkType
    PROVE  LET o == Stored(r, i, c)
           IN  /\ o \in SlotType
               /\ o.active = r.active
               /\ o.conn_handle = r.conn_handle /\ o.msg_id = r.msg_id
               /\ o.received_mask = r.received_mask \cup {i}
               /\ i \notin r.received_mask => o.data[i] = c
               /\ \A j \in r.received_mask : o.data[j] = r.data[j]
  <1>1. CASE i \in r.received_mask
    BY <1>1 DEF Stored, SlotType
  <1>2. CASE i \notin r.received_mask
    <2>. DEFINE d == [r.data EXCEPT ![i] = c]
                m == r.received_mask \cup {i}
                o == [r EXCEPT !.data = d, !.received_mask = m]
    <2>1. d \in [Indexes -> ChunkType]
      BY DEF SlotType, ChunkType
    <2>2. m \in SUBSET Indexes
      BY DEF SlotType
    <2>3. d[i] = c /\ \A j \in r.received_mask : d[j] = r.data[j]
      BY <1>2 DEF SlotType
    <2>4. Stored(r, i, c) = o
      BY <1>2 DEF Stored
    <2>. HIDE DEF d, m
    <2>5. /\ o.active = r.active /\ o.msg_id = r.msg_id
          /\ o.conn_handle = r.conn_handle
          /\ o.received_mask = m /\ o.data = d
      BY DEF SlotType
    <2>6. o \in SlotType
      <3>. DEFINE a == [r EXCEPT !.data = d]
      <3>1. a \in SlotType
        BY <2>1 DEF SlotType, ChunkType
      <3>. HIDE DEF a
      <3>2. [a EXCEPT !.received_mask = m] \in SlotType
        BY <2>2, <3>1 DEF SlotType
      <3>. QED
        BY <3>2 DEF a
    <2>. QED
      BY <1>2, <2>3, <2>4, <2>5, <2>6 DEF m
  <1>. QED
    BY <1>1, <1>2

\* Releasing a slot, or giving up an expired one, changes nothing else of it.
LEMMA ReleasedFacts ==
    ASSUME NEW r \in SlotType
    PROVE  LET o == [r EXCEPT !.active = FALSE]
           IN  /\ o \in SlotType /\ ~o.active
               /\ o.conn_handle = r.conn_handle /\ o.msg_id = r.msg_id
  BY DEF SlotType

\* The search for packet p: its result, the slot taken, and the slot with
\* fragment i in it.
Found(p) == Slots(sent[p].handle, sent[p].msg_id)

Chosen(p) == Lowest(Found(p).use)

Filled(p, i) ==
    Stored(Opened(Found(p).slots[Chosen(p)], sent[p].handle, sent[p].msg_id),
           i, Chunk(p, i))

\* The slot taken is that of the packet, and no slot changes; or the packet has
\* no slot, the one taken is free or has expired, and expired ones were freed.
LEMMA SearchFacts ==
    ASSUME TypeOK, NEW p, Found(p).use # {}
    PROVE  /\ Chosen(p) \in FragSlots
           /\ Found(p).slots \in [FragSlots -> SlotType]
           /\ \/ /\ Collects(frag_slots[Chosen(p)], p)
                 /\ Found(p).slots = frag_slots
              \/ /\ \A t \in FragSlots : ~Collects(frag_slots[t], p)
                 /\ ~Found(p).slots[Chosen(p)].active
                 /\ \A t \in FragSlots :
                       Found(p).slots[t] =
                           IF t \in Expired THEN [frag_slots[t] EXCEPT !.active = FALSE]
                                            ELSE frag_slots[t]
  <1>. DEFINE h == sent[p].handle
              id == sent[p].msg_id
              freed == [s \in FragSlots |->
                           IF s \in Expired THEN [frag_slots[s] EXCEPT !.active = FALSE]
                                            ELSE frag_slots[s]]
  <1>1. CASE Matching(h, id) # {}
    <2>1. Found(p).slots = frag_slots /\ Found(p).use = Matching(h, id)
      BY <1>1 DEF Found, Slots
    <2>2. Chosen(p) \in Matching(h, id)
      <3>1. Matching(h, id) \in SUBSET FragSlots
        BY DEF Matching
      <3>. QED
        BY <1>1, <2>1, <3>1, LowestIsIn DEF Chosen
    <2>. QED
      BY <2>1, <2>2 DEF Matching, Collects, TypeOK
  <1>2. CASE Matching(h, id) = {}
    <2>1. Found(p).slots = freed /\ Found(p).use = {s \in FragSlots : ~freed[s].active}
      BY <1>2 DEF Found, Slots
    <2>2. Chosen(p) \in {s \in FragSlots : ~freed[s].active}
      <3>1. {s \in FragSlots : ~freed[s].active} \in SUBSET FragSlots
        OBVIOUS
      <3>. QED
        BY <2>1, <3>1, LowestIsIn DEF Chosen
    <2>3. freed \in [FragSlots -> SlotType]
      BY ReleasedFacts DEF TypeOK
    <2>4. \A t \in FragSlots : ~Collects(frag_slots[t], p)
      BY <1>2 DEF Matching, Collects
    <2>. QED
      BY <2>1, <2>2, <2>3, <2>4
  <1>. QED
    BY <1>1, <1>2

\* If a slot was of the packet, it is the one taken.
LEMMA ChosenIsOwn ==
    ASSUME IInv, NEW p \in Packets, Found(p).use # {}, NEW t \in FragSlots,
           Collects(frag_slots[t], p)
    PROVE  t = Chosen(p) /\ Found(p).slots = frag_slots
  BY SearchFacts DEF IInv, OneSlotEach, Collects

\* The slot with the fragment in it: of this packet, with what it held of it
\* before and the fragment.
LEMMA FilledFacts ==
    ASSUME IInv, NEW p \in Packets, IsSent(p), NEW i \in 0 .. Total(p) - 1,
           Acceptable(p, i), Found(p).use # {}
    PROVE  LET o == Filled(p, i)
               r == frag_slots[Chosen(p)]
           IN  /\ o \in SlotType
               /\ Collects(o, p)
               /\ i \in o.received_mask
               /\ o.received_mask \subseteq 0 .. Total(p) - 1
               /\ \A j \in o.received_mask : o.data[j] = Chunk(p, j)
               /\ \A j \in o.received_mask \ {i} :
                     Collects(r, p) /\ j \in r.received_mask
               /\ Collects(r, p) => r.received_mask \subseteq o.received_mask
  <1>. USE DEF IInv
  <1>. DEFINE o == Filled(p, i)
              r == frag_slots[Chosen(p)]
              f == Found(p).slots[Chosen(p)]
              a == Opened(f, sent[p].handle, sent[p].msg_id)
              c == Chunk(p, i)
  <1>1. i \in Indexes /\ sent[p].handle \in Handles /\ sent[p].msg_id \in MsgIds
    BY SentFacts DEF SentRecord
  <1>2. c \in ChunkType
    BY <1>1, AcceptedChunk DEF ChunkType
  <1>3. f \in SlotType
    BY SearchFacts
  <1>4. /\ a \in SlotType /\ a.active
        /\ f.active => a = f
        /\ ~f.active => /\ a.conn_handle = sent[p].handle /\ a.msg_id = sent[p].msg_id
                        /\ a.received_mask = {}
    BY <1>1, <1>3, OpenedFacts
  <1>5. o = Stored(a, i, c)
    BY DEF Filled
  <1>. HIDE DEF o, a, c
  <1>6. /\ o \in SlotType /\ o.active
        /\ o.conn_handle = a.conn_handle /\ o.msg_id = a.msg_id
        /\ o.received_mask = a.received_mask \cup {i}
        /\ i \notin a.received_mask => o.data[i] = c
        /\ \A j \in a.received_mask : o.data[j] = a.data[j]
    BY <1>1, <1>2, <1>4, <1>5, StoredFacts
  <1>7. CASE Collects(r, p)
    <2>1. a = r
      BY <1>4, <1>7, ChosenIsOwn, SearchFacts DEF Collects
    <2>2. r.received_mask \subseteq 0 .. Total(p) - 1
          /\ \A j \in r.received_mask : r.data[j] = Chunk(p, j)
      <3>1. PICK q \in Packets : HoldsPieces(r, q)
        BY <1>7, SearchFacts DEF SlotsHoldPieces, Collects
      <3>2. q = p
        BY <1>7, <3>1 DEF HoldsPieces, Collects, OneSenderEach
      <3>. QED
        BY <3>1, <3>2 DEF HoldsPieces
    <2>3. \A j \in o.received_mask : o.data[j] = Chunk(p, j)
      BY <1>6, <2>1, <2>2 DEF c
    <2>. QED
      BY <1>6, <1>7, <2>1, <2>2, <2>3 DEF Collects, o
  <1>8. CASE ~Collects(r, p)
    <2>1. ~f.active
      BY <1>8, SearchFacts
    <2>2. o.data[i] = c /\ o.received_mask = {i}
      BY <1>4, <1>6, <2>1
    <2>. QED
      BY <1>4, <1>6, <1>8, <2>1, <2>2 DEF Collects, o, c
  <1>. QED
    BY <1>7, <1>8

\* A packet whose slot was given up is among the packets of expired slots.
LEMMA ExpiredIsNamed ==
    ASSUME IInv, NEW q \in Packets, IsSent(q), NEW t \in Expired,
           Collects(frag_slots[t], q)
    PROVE  q \in PacketsIn(Expired)
  <1>. USE DEF IInv
  <1>1. t \in FragSlots
    BY DEF Expired
  <1>2. PICK p \in Packets : HoldsPieces(frag_slots[t], p)
    BY <1>1 DEF SlotsHoldPieces, Collects
  <1>3. p = q
    BY <1>2 DEF HoldsPieces, Collects, OneSenderEach
  <1>4. PICK i \in frag_slots[t].received_mask : frag_slots[t].data[i] = Chunk(q, i)
    BY <1>2, <1>3 DEF HoldsPieces
  <1>5. frag_slots[t].data[i].packet = q
    BY <1>4 DEF Chunk
  <1>. QED
    BY <1>4, <1>5 DEF PacketsIn

\* What a fragment that is taken does to the slots.
LEMMA HandledSlots ==
    ASSUME IInv, NEW p \in Packets, IsSent(p), NEW i \in Indexes, NEW full \in BOOLEAN,
           HandleFragment(p, i, full)
    PROVE  /\ Found(p).use # {} /\ Acceptable(p, i) /\ i \in 0 .. Total(p) - 1
           /\ frag_slots' =
                 [Found(p).slots EXCEPT
                     ![Chosen(p)] = IF Filled(p, i).received_mask = 0 .. Total(p) - 1
                                    THEN [Filled(p, i) EXCEPT !.active = FALSE]
                                    ELSE Filled(p, i)]
           /\ UNCHANGED sent
  <1>1. i \in 0 .. Total(p) - 1
    <2>1. Total(p) \in Nat
      BY SentFacts DEF IInv
    <2>2. Acceptable(p, i)
      BY DEF HandleFragment
    <2>3. i \in Nat /\ i < Total(p)
      BY <2>2 DEF Acceptable, Indexes
    <2>. QED
      BY <2>1, <2>3
  <1>. QED
    BY <1>1 DEF HandleFragment, Found, Chosen, Filled, AllReceived, Release

\* The slots afterwards, one by one.
LEMMA SlotsAfter ==
    ASSUME IInv, NEW p \in Packets, IsSent(p), NEW i \in Indexes, NEW full \in BOOLEAN,
           HandleFragment(p, i, full)
    PROVE  LET s == Chosen(p)
               o == Filled(p, i)
               all == o.received_mask = 0 .. Total(p) - 1
           IN  /\ frag_slots' \in [FragSlots -> SlotType]
               /\ s \in FragSlots
               /\ ~all => frag_slots'[s] = o
               /\ all => ~frag_slots'[s].active
               /\ \A t \in FragSlots \ {s} :
                     \/ frag_slots'[t] = frag_slots[t]
                     \/ /\ frag_slots'[t] = [frag_slots[t] EXCEPT !.active = FALSE]
                        /\ ~frag_slots'[t].active
                        /\ t \in Expired /\ Found(p).slots # frag_slots
               /\ frag_slots[s].active /\ ~Collects(frag_slots[s], p) =>
                     s \in Expired /\ Found(p).slots # frag_slots
  <1>. DEFINE s == Chosen(p)
              o == Filled(p, i)
              all == o.received_mask = 0 .. Total(p) - 1
              g == Found(p).slots
              n == IF all THEN [o EXCEPT !.active = FALSE] ELSE o
  <1>1. /\ Found(p).use # {} /\ Acceptable(p, i) /\ i \in 0 .. Total(p) - 1
        /\ frag_slots' = [g EXCEPT ![s] = n]
    BY HandledSlots
  <1>2. s \in FragSlots /\ g \in [FragSlots -> SlotType]
    BY <1>1, SearchFacts DEF IInv
  <1>3. o \in SlotType
    BY <1>1, FilledFacts
  <1>4. n \in SlotType /\ (all => ~n.active) /\ (~all => n = o)
    BY <1>3, ReleasedFacts
  <1>5. TypeOK
    BY DEF IInv
  <1>6. frag_slots \in [FragSlots -> SlotType]
    BY <1>5 DEF TypeOK
  <1>7. \/ g = frag_slots /\ Collects(frag_slots[s], p)
        \/ /\ ~g[s].active
           /\ \A t \in FragSlots :
                 g[t] = IF t \in Expired THEN [frag_slots[t] EXCEPT !.active = FALSE]
                                         ELSE frag_slots[t]
    BY <1>1, <1>5, SearchFacts
  <1>8. \A t \in Expired : t \in FragSlots /\ frag_slots[t].active
    BY DEF Expired
  <1>. HIDE DEF s, o, g, n, all
  <1>9. frag_slots' \in [FragSlots -> SlotType] /\ frag_slots'[s] = n
        /\ \A t \in FragSlots \ {s} : frag_slots'[t] = g[t]
    BY <1>1, <1>2, <1>4
  <1>10. ASSUME NEW t \in FragSlots, g[t] # frag_slots[t]
         PROVE  /\ g[t] = [frag_slots[t] EXCEPT !.active = FALSE]
                /\ ~g[t].active
                /\ t \in Expired /\ g # frag_slots
    <2>1. frag_slots[t] \in SlotType
      BY <1>6
    <2>2. t \in Expired /\ g[t] = [frag_slots[t] EXCEPT !.active = FALSE]
      BY <1>7, <1>10
    <2>3. ~g[t].active
      BY <2>1, <2>2, ReleasedFacts
    <2>. QED
      BY <1>10, <2>2, <2>3
  <1>11. \A t \in FragSlots \ {s} :
            \/ frag_slots'[t] = frag_slots[t]
            \/ /\ frag_slots'[t] = [frag_slots[t] EXCEPT !.active = FALSE]
               /\ ~frag_slots'[t].active
               /\ t \in Expired /\ g # frag_slots
    BY <1>9, <1>10
  <1>12. frag_slots[s].active /\ ~Collects(frag_slots[s], p) =>
             s \in Expired /\ g # frag_slots
    BY <1>2, <1>7, <1>10
  <1>. QED
    BY <1>2, <1>4, <1>9, <1>11, <1>12 DEF s, o, all, g

\* A slot that is active afterwards is the one taken, with the fragment in it,
\* or was there before as it is now.
LEMMA ActiveAfter ==
    ASSUME IInv, NEW p \in Packets, IsSent(p), NEW i \in Indexes, NEW full \in BOOLEAN,
           HandleFragment(p, i, full), NEW t \in FragSlots, frag_slots'[t].active
    PROVE  \/ /\ t = Chosen(p) /\ frag_slots'[t] = Filled(p, i)
              /\ Filled(p, i).received_mask # 0 .. Total(p) - 1
           \/ t # Chosen(p) /\ frag_slots'[t] = frag_slots[t]
  <1>. DEFINE all == Filled(p, i).received_mask = 0 .. Total(p) - 1
  <1>1. /\ ~all => frag_slots'[Chosen(p)] = Filled(p, i)
        /\ all => ~frag_slots'[Chosen(p)].active
        /\ \A u \in FragSlots \ {Chosen(p)} :
              frag_slots'[u] = frag_slots[u] \/ ~frag_slots'[u].active
    BY SlotsAfter, ZenonT(40)
  <1>. HIDE DEF all
  <1>2. CASE t = Chosen(p)
    BY <1>1, <1>2, Zenon DEF all
  <1>3. CASE t # Chosen(p)
    BY <1>1, <1>3, Zenon
  <1>. QED
    BY <1>2, <1>3

\* A fragment keeps every active slot with one packet that was sent, and every
\* message with one slot.
LEMMA HandleKeepsSlots ==
    ASSUME IInv, NEW p \in Packets, IsSent(p), NEW i \in Indexes, NEW full \in BOOLEAN,
           HandleFragment(p, i, full)
    PROVE  SlotsHoldPieces' /\ OneSlotEach'
  <1>1. /\ Found(p).use # {} /\ Acceptable(p, i) /\ i \in 0 .. Total(p) - 1
        /\ UNCHANGED sent
    BY HandledSlots
  <1>2. ~sent[p].whole
    BY DEF HandleFragment
  <1>3. SlotsHoldPieces'
    <2>. SUFFICES ASSUME NEW t \in FragSlots, frag_slots'[t].active
                  PROVE  \E q \in Packets : HoldsPieces(frag_slots[t], q)'
      BY DEF SlotsHoldPieces
    <2>1. CASE frag_slots'[t] = Filled(p, i) /\ Filled(p, i).received_mask # 0 .. Total(p) - 1
      <3>1. HoldsPieces(Filled(p, i), p)
        BY <1>1, <1>2, <2>1, FilledFacts DEF HoldsPieces
      <3>2. HoldsPieces(frag_slots[t], p)'
        BY <1>1, <2>1, <3>1, SameSending DEF HoldsPieces, Collects
      <3>. QED
        BY <3>2
    <2>2. CASE frag_slots'[t] = frag_slots[t]
      <3>1. PICK q \in Packets : HoldsPieces(frag_slots[t], q)
        BY <2>2 DEF IInv, SlotsHoldPieces
      <3>2. HoldsPieces(frag_slots[t], q)'
        BY <1>1, <2>2, <3>1, SameSending DEF HoldsPieces, Collects
      <3>. QED
        BY <3>2
    <2>. QED
      BY <2>1, <2>2, ActiveAfter
  <1>4. OneSlotEach'
    <2>. SUFFICES ASSUME NEW t \in FragSlots, NEW u \in FragSlots,
                         frag_slots'[t].active, frag_slots'[u].active,
                         frag_slots'[t].conn_handle = frag_slots'[u].conn_handle,
                         frag_slots'[t].msg_id = frag_slots'[u].msg_id,
                         t # u
                  PROVE  FALSE
      BY DEF OneSlotEach
    <2>1. ASSUME NEW x \in FragSlots, NEW y \in FragSlots, x # y,
                 frag_slots'[x].active, frag_slots'[y].active,
                 frag_slots'[x].conn_handle = frag_slots'[y].conn_handle,
                 frag_slots'[x].msg_id = frag_slots'[y].msg_id,
                 x = Chosen(p), frag_slots'[x] = Filled(p, i)
          PROVE  FALSE
      <3>1. frag_slots'[y] = frag_slots[y]
        BY <2>1, ActiveAfter
      <3>2. Collects(frag_slots[y], p)
        BY <1>1, <2>1, <3>1, FilledFacts DEF Collects
      <3>. QED
        BY <1>1, <2>1, <3>2, ChosenIsOwn
    <2>2. CASE t = Chosen(p) /\ frag_slots'[t] = Filled(p, i)
      BY <2>1, <2>2
    <2>3. CASE u = Chosen(p) /\ frag_slots'[u] = Filled(p, i)
      BY <2>1, <2>3
    <2>4. CASE frag_slots'[t] = frag_slots[t] /\ frag_slots'[u] = frag_slots[u]
      BY <2>4 DEF IInv, OneSlotEach
    <2>. QED
      BY <2>2, <2>3, <2>4, ActiveAfter
  <1>. QED
    BY <1>3, <1>4

-----------------------------------------------------------------------------
(* What is counted                                                          *)

\* Receiving a fragment counts it.
LEMMA ReceivedCounts ==
    ASSUME IInv, NEW p \in Packets, NEW i \in Indexes, Received(p, i)
    PROVE  /\ IsSent(p) /\ i \in 0 .. Total(p) - 1
           /\ copies' \in [Packets \X Indexes -> 0 .. MaxRepeats + 1]
           /\ repeats' \in 0 .. MaxRepeats
           /\ RepeatsCounted'
           /\ copies'[<<p, i>>] = copies[<<p, i>>] + 1
           /\ \A q \in Packets, j \in Indexes :
                 q # p \/ j # i => copies'[<<q, j>>] = copies[<<q, j>>]
           /\ \A f \in Packets \X Indexes : copies[f] \in Nat
  <1>. USE DEF IInv
  <1>. DEFINE f == <<p, i>>
              k == copies[f] + 1
  <1>1. IsSent(p) /\ i < Total(p)
    BY DEF Received
  <1>2. i \in 0 .. Total(p) - 1
    BY <1>1, SentFacts DEF Indexes
  <1>3. /\ copies \in [Packets \X Indexes -> 0 .. MaxRepeats + 1]
        /\ repeats \in 0 .. MaxRepeats /\ MaxRepeats \in Nat
    BY FragmentsAssumption DEF TypeOK
  <1>4. copies[f] \in Nat /\ copies[f] <= repeats + 1
    BY <1>3 DEF RepeatsCounted
  <1>5. /\ copies' = [copies EXCEPT ![f] = k]
        /\ repeats' = IF copies[f] > 0 THEN repeats + 1 ELSE repeats
        /\ repeats' <= MaxRepeats
    BY DEF Received
  <1>6. repeats' \in 0 .. MaxRepeats /\ k <= repeats' + 1 /\ k \in 0 .. MaxRepeats + 1
        /\ repeats <= repeats'
    BY <1>3, <1>4, <1>5
  <1>. HIDE DEF k, f
  <1>7. f \in Packets \X Indexes
    BY DEF f
  <1>8. /\ copies' \in [Packets \X Indexes -> 0 .. MaxRepeats + 1]
        /\ copies'[f] = k
        /\ \A g \in Packets \X Indexes : g # f => copies'[g] = copies[g]
    BY <1>3, <1>5, <1>6, <1>7
  <1>9. RepeatsCounted'
    <2>. SUFFICES ASSUME NEW g \in Packets \X Indexes PROVE copies'[g] <= repeats' + 1
      BY DEF RepeatsCounted
    <2>1. copies[g] <= repeats + 1 /\ copies[g] \in Nat
      BY <1>3 DEF RepeatsCounted
    <2>2. CASE g = f
      BY <1>6, <1>8, <2>2
    <2>3. CASE g # f
      <3>1. copies'[g] = copies[g]
        BY <1>8, <2>3
      <3>2. repeats \in Nat /\ repeats' \in Nat
        BY <1>3, <1>6
      <3>. QED
        BY <1>6, <2>1, <3>1, <3>2
    <2>. QED
      BY <2>2, <2>3
  <1>. QED
    BY <1>1, <1>2, <1>3, <1>6, <1>8, <1>9 DEF f, k

\* The bound on completions follows from the counts.
LEMMA HandedBounded ==
    ASSUME IInv, NEW p \in Packets, NEW i \in Indexes, Received(p, i), UNCHANGED sent,
           \/ UNCHANGED handed
           \/ handed' = [handed EXCEPT ![p] = @ + 1],
           Counted'
    PROVE  handed' \in [Packets -> 0 .. MaxRepeats + 1]
  <1>1. handed \in [Packets -> 0 .. MaxRepeats + 1] /\ MaxRepeats \in Nat
    BY FragmentsAssumption DEF IInv, TypeOK
  <1>2. CASE UNCHANGED handed
    BY <1>1, <1>2
  <1>3. CASE handed' = [handed EXCEPT ![p] = @ + 1]
    <2>1. IsSent(p) /\ 0 \in 0 .. Total(p) - 1 /\ <<p, 0>> \in Packets \X Indexes
      BY ReceivedCounts, SentFacts DEF IInv
    <2>2. handed'[p] <= copies'[<<p, 0>>]
      BY <2>1, SameSending DEF Counted
    <2>3. copies'[<<p, 0>>] \in 0 .. MaxRepeats + 1
      BY <2>1, ReceivedCounts
    <2>4. handed'[p] = handed[p] + 1 /\ handed[p] \in Nat
      BY <1>1, <1>3
    <2>5. handed[p] + 1 \in 0 .. MaxRepeats + 1
      BY <1>1, <2>2, <2>3, <2>4
    <2>. QED
      BY <1>1, <1>3, <2>5
  <1>. QED
    BY <1>2, <1>3

\* Completing a packet is paid for by one receipt of each of its fragments.
LEMMA HandleKeepsCounted ==
    ASSUME IInv, NEW p \in Packets, IsSent(p), NEW i \in Indexes, NEW full \in BOOLEAN,
           HandleFragment(p, i, full)
    PROVE  Counted'
  <1>. DEFINE o == Filled(p, i)
              all == o.received_mask = 0 .. Total(p) - 1
  <1>1. /\ Found(p).use # {} /\ Acceptable(p, i) /\ i \in 0 .. Total(p) - 1
        /\ UNCHANGED sent
    BY HandledSlots
  <1>2. /\ copies'[<<p, i>>] = copies[<<p, i>>] + 1
        /\ \A q \in Packets, j \in Indexes :
              q # p \/ j # i => copies'[<<q, j>>] = copies[<<q, j>>]
        /\ \A f \in Packets \X Indexes : copies[f] \in Nat
    BY ReceivedCounts DEF HandleFragment
  <1>3. handed \in [Packets -> Nat]
    BY FragmentsAssumption DEF IInv, TypeOK
  <1>4. \/ UNCHANGED handed
        \/ all /\ handed' = [handed EXCEPT ![p] = @ + 1]
    BY DEF HandleFragment, Filled, Found, Chosen, AllReceived
  <1>5. /\ i \in o.received_mask
        /\ Collects(o, p)
        /\ \A j \in o.received_mask \ {i} :
              Collects(frag_slots[Chosen(p)], p) /\ j \in frag_slots[Chosen(p)].received_mask
    BY <1>1, FilledFacts
  <1>6. Chosen(p) \in FragSlots
    BY SlotsAfter
  <1>. SUFFICES ASSUME NEW q \in Packets, IsSent(q), NEW j \in 0 .. Total(q) - 1
                PROVE  /\ handed'[q] <= copies'[<<q, j>>]
                       /\ \A s \in FragSlots :
                             Collects(frag_slots[s], q)' /\ j \in frag_slots'[s].received_mask
                             => handed'[q] < copies'[<<q, j>>]
    BY <1>1, SameSending DEF Counted
  <1>7. j \in Indexes /\ <<q, j>> \in Packets \X Indexes
    BY SentFacts DEF IInv
  <1>8. handed[q] <= copies[<<q, j>>] /\ handed[q] \in Nat /\ copies[<<q, j>>] \in Nat
    BY <1>2, <1>3, <1>7 DEF IInv, Counted
  <1>. HIDE DEF o, all
  <1>9. CASE q # p
    <2>1. handed'[q] = handed[q] /\ copies'[<<q, j>>] = copies[<<q, j>>]
      BY <1>2, <1>3, <1>4, <1>7, <1>9
    <2>2. ASSUME NEW s \in FragSlots, Collects(frag_slots[s], q)',
                 j \in frag_slots'[s].received_mask
          PROVE  handed'[q] < copies'[<<q, j>>]
      <3>1. frag_slots'[s] = frag_slots[s] \/ frag_slots'[s] = o
        BY <2>2, ActiveAfter DEF Collects, o
      <3>2. CASE frag_slots'[s] = o
        <4>1. Collects(o, q)
          BY <1>1, <2>2, <3>2 DEF Collects
        <4>. QED
          BY <1>5, <1>9, <4>1 DEF IInv, OneSenderEach, Collects
      <3>3. CASE frag_slots'[s] = frag_slots[s]
        <4>1. Collects(frag_slots[s], q) /\ j \in frag_slots[s].received_mask
          BY <1>1, <2>2, <3>3 DEF Collects
        <4>. QED
          BY <2>1, <4>1 DEF IInv, Counted
      <3>. QED
        BY <3>1, <3>2, <3>3
    <2>. QED
      BY <1>8, <2>1, <2>2
  <1>10. CASE q = p
    <2>1. j \in o.received_mask => handed[p] < copies'[<<p, j>>]
      <3>1. CASE j = i
        BY <1>2, <1>8, <1>10, <3>1
      <3>2. CASE j # i /\ j \in o.received_mask
        <4>1. handed[p] < copies[<<p, j>>]
          BY <1>5, <1>6, <1>10, <3>2 DEF IInv, Counted
        <4>2. copies'[<<p, j>>] = copies[<<p, j>>]
          BY <1>2, <1>7, <3>2
        <4>. QED
          BY <4>1, <4>2
      <3>. QED
        BY <3>1, <3>2
    <2>2. copies'[<<p, j>>] \in Nat /\ copies[<<p, j>>] <= copies'[<<p, j>>]
      <3>1. CASE j = i
        BY <1>2, <1>8, <1>10, <3>1
      <3>2. CASE j # i
        BY <1>2, <1>7, <1>8, <1>10, <3>2
      <3>. QED
        BY <3>1, <3>2
    <2>3. CASE all /\ handed' = [handed EXCEPT ![p] = @ + 1]
      <3>1. j \in o.received_mask
        BY <1>10, <2>3 DEF all
      <3>2. handed'[p] = handed[p] + 1
        BY <1>3, <2>3
      <3>3. \A s \in FragSlots : ~Collects(frag_slots[s], p)'
        <4>. SUFFICES ASSUME NEW s \in FragSlots, Collects(frag_slots[s], p)'
                      PROVE  FALSE
          OBVIOUS
        <4>1. s # Chosen(p) /\ frag_slots'[s] = frag_slots[s]
          BY <2>3, ActiveAfter DEF Collects, all, o
        <4>2. Collects(frag_slots[s], p)
          BY <1>1, <4>1 DEF Collects
        <4>. QED
          BY <1>1, <4>1, <4>2, ChosenIsOwn
      <3>4. handed'[p] <= copies'[<<p, j>>]
        BY <1>8, <1>10, <2>1, <2>2, <3>1, <3>2
      <3>. QED
        BY <1>10, <3>3, <3>4
    <2>4. CASE UNCHANGED handed
      <3>1. ASSUME NEW s \in FragSlots, Collects(frag_slots[s], p)',
                   j \in frag_slots'[s].received_mask
            PROVE  handed'[p] < copies'[<<p, j>>]
        <4>1. CASE frag_slots'[s] = o
          BY <2>1, <2>4, <3>1, <4>1
        <4>2. CASE frag_slots'[s] = frag_slots[s]
          <5>1. Collects(frag_slots[s], p) /\ j \in frag_slots[s].received_mask
            BY <1>1, <3>1, <4>2 DEF Collects
          <5>2. handed[p] < copies[<<p, j>>]
            BY <1>10, <5>1 DEF IInv, Counted
          <5>. QED
            BY <1>8, <1>10, <2>2, <2>4, <5>2
        <4>. QED
          BY <3>1, <4>1, <4>2, ActiveAfter DEF Collects, o
      <3>2. handed'[p] <= copies'[<<p, j>>]
        BY <1>8, <1>10, <2>2, <2>4
      <3>. QED
        BY <1>10, <3>1, <3>2
    <2>. QED
      BY <1>4, <2>3, <2>4
  <1>. QED
    BY <1>9, <1>10

\* The packet completed goes into the ring whole and in order.
LEMMA HandleKeepsWhole ==
    ASSUME IInv, NEW p \in Packets, IsSent(p), NEW i \in Indexes, NEW full \in BOOLEAN,
           HandleFragment(p, i, full)
    PROVE  /\ ReassembledWhole'
           /\ ring \subseteq ring'
           /\ \/ InRing(p)'
              \/ p \in excused'
              \/ Filled(p, i).received_mask # 0 .. Total(p) - 1
  <1>. DEFINE o == Filled(p, i)
              all == o.received_mask = 0 .. Total(p) - 1
              e == [handle |-> sent[p].handle, chunks |-> Concatenated(o, Total(p))]
              in == ring' = ring \cup {e}
  <1>1. /\ Found(p).use # {} /\ Acceptable(p, i) /\ i \in 0 .. Total(p) - 1
        /\ UNCHANGED sent
    BY HandledSlots
  <1>2. \/ all /\ in
        \/ UNCHANGED ring /\ (all => p \in excused')
    BY DEF HandleFragment, Filled, Found, Chosen, AllReceived
  <1>3. \A j \in o.received_mask : o.data[j] = Chunk(p, j)
    BY <1>1, FilledFacts
  <1>4. all => e.handle = sent[p].handle /\ e.chunks = PiecesInOrder(p)
    <2>1. Total(p) \in Nat
      BY SentFacts DEF IInv
    <2>. SUFFICES ASSUME all
                  PROVE  Concatenated(o, Total(p)) = PiecesInOrder(p)
      OBVIOUS
    <2>. HIDE DEF o
    <2>2. \A k \in 1 .. Total(p) : o.data[k - 1] = Chunk(p, k - 1)
      BY <1>3, <2>1
    <2>. QED
      BY <2>2 DEF Concatenated, PiecesInOrder
  <1>. HIDE DEF o, e
  <1>5. ReassembledWhole'
    <2>. SUFFICES ASSUME NEW x \in ring'
                  PROVE  \E q \in Packets : /\ IsSent(q)
                                            /\ x.handle = sent[q].handle
                                            /\ x.chunks = PiecesInOrder(q)
      BY <1>1, SameSending DEF ReassembledWhole
    <2>1. CASE x \in ring
      BY <2>1 DEF IInv, ReassembledWhole
    <2>2. CASE all /\ x = e
      BY <1>4, <2>2
    <2>. QED
      BY <1>2, <2>1, <2>2
  <1>6. all /\ in => InRing(p)'
    BY <1>1, <1>4, SameSending DEF InRing
  <1>. QED
    BY <1>2, <1>5, <1>6 DEF o

\* A fragment that came stays in its slot until its packet is in the ring or met
\* a limit.
LEMMA HandleKeepsKept ==
    ASSUME IInv, NEW p \in Packets, IsSent(p), NEW i \in Indexes, NEW full \in BOOLEAN,
           HandleFragment(p, i, full)
    PROVE  Kept'
  <1>. DEFINE o == Filled(p, i)
  <1>1. /\ Found(p).use # {} /\ Acceptable(p, i) /\ i \in 0 .. Total(p) - 1
        /\ UNCHANGED sent
    BY HandledSlots
  <1>2. \A q \in Packets, j \in Indexes :
            q # p \/ j # i => copies'[<<q, j>>] = copies[<<q, j>>]
    BY ReceivedCounts DEF HandleFragment
  <1>3. /\ i \in o.received_mask
        /\ Collects(o, p)
        /\ Collects(frag_slots[Chosen(p)], p) =>
              frag_slots[Chosen(p)].received_mask \subseteq o.received_mask
    BY <1>1, FilledFacts
  <1>4. /\ excused \subseteq excused'
        /\ Found(p).slots # frag_slots => PacketsIn(Expired) \subseteq excused'
    BY DEF HandleFragment, Found
  <1>5. ring \subseteq ring'
    BY HandleKeepsWhole
  <1>. HIDE DEF o
  <1>. SUFFICES ASSUME NEW q \in Packets, IsSent(q), q \notin excused', ~InRing(q)',
                       NEW j \in 0 .. Total(q) - 1, copies'[<<q, j>>] > 0
                PROVE  \E s \in FragSlots : /\ Collects(frag_slots[s], q)'
                                            /\ j \in frag_slots'[s].received_mask
    BY <1>1, SameSending DEF Kept
  <1>6. j \in Indexes
    BY SentFacts DEF IInv
  <1>7. q \notin excused /\ ~InRing(q)
    BY <1>1, <1>4, <1>5, SameSending DEF InRing
  <1>8. ASSUME copies[<<q, j>>] > 0
        PROVE  \E s \in FragSlots :
                  Collects(frag_slots[s], q) /\ j \in frag_slots[s].received_mask
    BY <1>7, <1>8 DEF IInv, Kept
  <1>9. CASE q = p
    <2>1. o.received_mask # 0 .. Total(p) - 1
      BY <1>9, HandleKeepsWhole DEF o
    <2>2. frag_slots'[Chosen(p)] = o /\ Chosen(p) \in FragSlots
      BY <2>1, SlotsAfter DEF o
    <2>3. j \in o.received_mask
      <3>1. CASE j = i
        BY <1>3, <3>1
      <3>2. CASE j # i
        <4>1. copies[<<q, j>>] > 0
          BY <1>2, <1>6, <3>2
        <4>2. PICK s \in FragSlots :
                  Collects(frag_slots[s], p) /\ j \in frag_slots[s].received_mask
          BY <1>8, <1>9, <4>1
        <4>3. s = Chosen(p)
          BY <1>1, <4>2, ChosenIsOwn
        <4>. QED
          BY <1>3, <4>2, <4>3
      <3>. QED
        BY <3>1, <3>2
    <2>. QED
      BY <1>1, <1>3, <1>9, <2>2, <2>3 DEF Collects
  <1>10. CASE q # p
    <2>1. copies[<<q, j>>] > 0
      BY <1>2, <1>6, <1>10
    <2>2. PICK s \in FragSlots :
              Collects(frag_slots[s], q) /\ j \in frag_slots[s].received_mask
      BY <1>8, <2>1
    <2>3. s \in Expired => Found(p).slots = frag_slots
      BY <1>4, <2>2, ExpiredIsNamed
    <2>4. s # Chosen(p)
      <3>. SUFFICES ASSUME s = Chosen(p) PROVE FALSE
        OBVIOUS
      <3>1. ~Collects(frag_slots[s], p)
        BY <1>10, <2>2 DEF IInv, OneSenderEach, Collects
      <3>2. frag_slots[s].active
        BY <2>2 DEF Collects
      <3>. QED
        BY <2>3, <3>1, <3>2, SlotsAfter
    <2>5. frag_slots'[s] = frag_slots[s]
      BY <2>3, <2>4, SlotsAfter
    <2>. QED
      BY <1>1, <2>2, <2>5 DEF Collects
  <1>. QED
    BY <1>9, <1>10

-----------------------------------------------------------------------------
(* Every action preserves the invariant                                     *)

\* What stays when sendings and slots stay.
LEMMA SlotsUntouched ==
    ASSUME IInv, UNCHANGED <<frag_slots, sent>>
    PROVE  SentInv' /\ OneSenderEach' /\ SlotsHoldPieces' /\ OneSlotEach'
  <1>. USE DEF IInv
  <1>1. \A q \in Packets : Total(q)' = Total(q) /\ (IsSent(q)' <=> IsSent(q))
    BY SameSending
  <1>2. SentInv' /\ OneSenderEach'
    BY <1>1 DEF SentInv, SentRecord, OneSenderEach
  <1>3. SlotsHoldPieces'
    <2>. SUFFICES ASSUME NEW s \in FragSlots, frag_slots[s].active
                  PROVE  \E p \in Packets : HoldsPieces(frag_slots[s], p)'
      BY DEF SlotsHoldPieces
    <2>1. PICK p \in Packets : HoldsPieces(frag_slots[s], p)
      BY DEF SlotsHoldPieces
    <2>2. HoldsPieces(frag_slots[s], p)'
      BY <2>1, SameSending DEF HoldsPieces, Collects
    <2>. QED
      BY <2>2
  <1>4. OneSlotEach'
    BY DEF OneSlotEach
  <1>. QED
    BY <1>2, <1>3, <1>4

\* Time passes.
LEMMA TickKeeps == IInv /\ Tick => IInv'
  <1>. SUFFICES ASSUME IInv, Tick PROVE IInv'
    OBVIOUS
  <1>. USE DEF IInv
  <1>1. UNCHANGED <<frag_slots, sent, copies, repeats, ring, handed, excused>>
    BY DEF Tick
  <1>2. \A q \in Packets : /\ Total(q)' = Total(q)
                           /\ IsSent(q)' <=> IsSent(q)
                           /\ PiecesInOrder(q)' = PiecesInOrder(q)
    BY <1>1, SameSending
  <1>3. time' \in 0 .. MaxTime
    BY FragmentsAssumption DEF Tick, TypeOK
  <1>4. TypeOK'
    BY <1>1, <1>3 DEF TypeOK
  <1>5. SentInv' /\ OneSenderEach' /\ SlotsHoldPieces' /\ OneSlotEach'
    BY <1>1, SlotsUntouched
  <1>6. UnsentUntouched' /\ RepeatsCounted'
    BY <1>1, <1>2 DEF UnsentUntouched, RepeatsCounted
  <1>7. Counted'
    BY <1>1, <1>2 DEF Counted, Collects
  <1>8. Kept' /\ ReassembledWhole'
    BY <1>1, <1>2 DEF Kept, InRing, Collects, ReassembledWhole
  <1>. QED
    BY <1>4, <1>5, <1>6, <1>7, <1>8

\* A packet is sent: no slot is of its message, and nothing of it has come.
LEMMA SendKeeps ==
    ASSUME IInv, NEW p \in Packets, ~IsSent(p), NEW r, SentRecord(r),
           FreshId(r.handle, r.msg_id), sent' = [sent EXCEPT ![p] = r],
           UNCHANGED <<frag_slots, time, copies, repeats, ring, handed, excused>>
    PROVE  IInv'
  <1>. USE DEF IInv
  <1>1. /\ sent' = [q \in Packets |-> sent'[q]]
        /\ sent'[p] = r
        /\ \A q \in Packets : q # p => sent'[q] = sent[q]
    BY DEF SentInv
  <1>2. IsSent(p)'
    <2>1. r # NotSent
      BY FragmentsAssumption DEF NotSent, SentRecord
    <2>. QED
      BY <1>1, <2>1 DEF IsSent, NotSent
  <1>3. \A q \in Packets : q # p => /\ Total(q)' = Total(q)
                                    /\ IsSent(q)' <=> IsSent(q)
                                    /\ PiecesInOrder(q)' = PiecesInOrder(q)
                                    /\ \A i : Chunk(q, i)' = Chunk(q, i)
    BY <1>1, SameSending
  <1>4. TypeOK'
    BY <1>1 DEF TypeOK
  <1>5. SentInv'
    BY <1>1, <1>3 DEF SentInv, SentRecord
  <1>6. OneSenderEach'
    <2>1. \A q \in Packets : q # p =>
              ~(sent'[q].handle = sent'[p].handle /\ sent'[q].msg_id = sent'[p].msg_id)
      BY <1>1 DEF FreshId
    <2>2. ASSUME NEW q \in Packets \ {p}, NEW u \in Packets \ {p}, IsSent(q)', IsSent(u)',
                 sent'[q].handle = sent'[u].handle, sent'[q].msg_id = sent'[u].msg_id
          PROVE  q = u
      BY <1>1, <1>3, <2>2 DEF OneSenderEach
    <2>. QED
      BY <2>1, <2>2 DEF OneSenderEach
  <1>7. UnsentUntouched' /\ RepeatsCounted'
    BY <1>2, <1>3 DEF UnsentUntouched, RepeatsCounted
  <1>8. ASSUME NEW s \in FragSlots, frag_slots[s].active
        PROVE  /\ \E q \in Packets : HoldsPieces(frag_slots[s], q)'
               /\ ~Collects(frag_slots[s], p)'
    <2>1. PICK q \in Packets : HoldsPieces(frag_slots[s], q)
      BY <1>8 DEF SlotsHoldPieces
    <2>2. q # p /\ sent'[q] = sent[q]
      BY <1>1, <2>1 DEF HoldsPieces
    <2>3. HoldsPieces(frag_slots[s], q)'
      BY <1>3, <2>1, <2>2 DEF HoldsPieces, Collects
    <2>4. ~Collects(frag_slots[s], p)'
      BY <1>1, <2>1 DEF FreshId, HoldsPieces, Collects
    <2>. QED
      BY <2>3, <2>4
  <1>9. SlotsHoldPieces' /\ OneSlotEach'
    BY <1>8 DEF SlotsHoldPieces, OneSlotEach
  <1>10. handed[p] = 0 /\ \A i \in Indexes : copies[<<p, i>>] = 0
    BY DEF UnsentUntouched
  <1>11. 0 .. Total(p)' - 1 \subseteq Indexes
    BY <1>1, FragmentsAssumption DEF SentRecord, Total, Indexes
  <1>12. Counted'
    <2>. SUFFICES ASSUME NEW q \in Packets, IsSent(q)', NEW i \in 0 .. Total(q)' - 1
                  PROVE  /\ handed[q] <= copies[<<q, i>>]
                         /\ \A s \in FragSlots :
                               Collects(frag_slots[s], q)' /\ i \in frag_slots[s].received_mask
                               => handed[q] < copies[<<q, i>>]
      BY DEF Counted
    <2>1. CASE q = p
      <3>1. handed[q] <= copies[<<q, i>>]
        BY <1>10, <1>11, <2>1
      <3>2. \A s \in FragSlots : ~Collects(frag_slots[s], q)'
        BY <1>8, <2>1 DEF Collects
      <3>. QED
        BY <3>1, <3>2
    <2>2. CASE q # p
      BY <1>1, <1>3, <2>2 DEF Counted, Collects
    <2>. QED
      BY <2>1, <2>2
  <1>13. Kept'
    <2>. SUFFICES ASSUME NEW q \in Packets, IsSent(q)', q \notin excused, ~InRing(q)',
                         NEW i \in 0 .. Total(q)' - 1, copies[<<q, i>>] > 0
                  PROVE  \E s \in FragSlots : /\ Collects(frag_slots[s], q)'
                                              /\ i \in frag_slots[s].received_mask
      BY DEF Kept
    <2>1. q # p
      BY <1>10, <1>11
    <2>2. ~InRing(q)
      BY <1>3, <2>1 DEF InRing
    <2>. QED
      BY <1>1, <1>3, <2>1, <2>2 DEF Kept, Collects
  <1>14. ReassembledWhole'
    <2>. SUFFICES ASSUME NEW e \in ring
                  PROVE  \E q \in Packets : /\ IsSent(q)'
                                            /\ e.handle = sent'[q].handle
                                            /\ e.chunks = PiecesInOrder(q)'
      BY DEF ReassembledWhole
    <2>1. PICK q \in Packets : /\ IsSent(q)
                               /\ e.handle = sent[q].handle
                               /\ e.chunks = PiecesInOrder(q)
      BY DEF ReassembledWhole
    <2>. QED
      BY <1>1, <1>3, <2>1
  <1>. QED
    BY <1>4, <1>5, <1>6, <1>7, <1>9, <1>12, <1>13, <1>14

\* Another bridge sends a packet.
LEMMA BridgeSendKeeps ==
    ASSUME IInv, NEW p \in BridgePackets, NEW h \in Handles, NEW id \in MsgIds,
           NEW b \in Bodies, NEW padded \in BOOLEAN, SendToPeer(p, h, id, b, padded)
    PROVE  IInv'
  <1>. DEFINE bytes == IF padded THEN pad_packet(b) ELSE b
              c == IF bytes.len > PeerMtu THEN SendChunk ELSE bytes.len
              w == ~(bytes.len > PeerMtu)
              r == [handle |-> h, msg_id |-> id, body |-> b, bytes |-> bytes,
                    chunk |-> c, whole |-> w]
  <1>1. IsBytes(bytes)
    BY FragmentsAssumption, PaddedIsBytes
  <1>2. bytes.len \in Nat \ {0} /\ PeerMtu \in Nat
    BY <1>1, FragmentsAssumption DEF IsBytes
  <1>3. SendChunk \in Nat \ {0}
    BY FragmentsAssumption DEF SendChunk
  <1>4. /\ FreshId(h, id) /\ ~IsSent(p)
        /\ sent' = [sent EXCEPT ![p] = r]
        /\ bytes.len > PeerMtu => Pieces(bytes.len, c) <= BITCHAT_MAX_FRAGMENTS
        /\ UNCHANGED <<frag_slots, time, copies, repeats, ring, handed, excused>>
    <2>1. /\ ~IsSent(p)
          /\ UNCHANGED <<frag_slots, time, copies, repeats, ring, handed, excused>>
      BY DEF SendToPeer
    <2>2. CASE bytes.len > PeerMtu
      <3>1. SendFragmented(p, h, id, b, bytes)
        BY <1>2, <2>2 DEF SendToPeer
      <3>2. c = SendChunk /\ w = FALSE
        BY <2>2
      <3>. QED
        BY <2>1, <2>2, <3>1, <3>2 DEF SendFragmented
    <2>3. CASE ~(bytes.len > PeerMtu)
      <3>1. /\ FreshId(h, id)
            /\ sent' = [sent EXCEPT ![p] = [handle |-> h, msg_id |-> id, body |-> b,
                                            bytes |-> bytes, chunk |-> bytes.len,
                                            whole |-> TRUE]]
        BY <2>3 DEF SendToPeer
      <3>2. c = bytes.len /\ w = TRUE
        BY <2>3
      <3>. QED
        BY <2>1, <2>3, <3>1, <3>2
    <2>. QED
      BY <2>2, <2>3
  <1>. HIDE DEF bytes
  <1>5. c \in Nat \ {0} /\ w \in BOOLEAN /\ (w => c = bytes.len)
    BY <1>2, <1>3
  <1>6. Pieces(bytes.len, c) \in 1 .. BITCHAT_MAX_FRAGMENTS
    <2>1. Pieces(bytes.len, c) \in Nat \ {0} /\ Pieces(bytes.len, bytes.len) = 1
      BY <1>2, <1>5, PiecesPositive
    <2>2. Pieces(bytes.len, c) <= BITCHAT_MAX_FRAGMENTS
      BY <1>2, <1>4, <2>1, FragmentsAssumption
    <2>. QED
      BY <2>1, <2>2, FragmentsAssumption
  <1>. HIDE DEF c, w
  <1>7. SentRecord(r)
    BY <1>1, <1>5, <1>6 DEF SentRecord
  <1>8. p \in Packets /\ FreshId(r.handle, r.msg_id)
    BY <1>4 DEF Packets
  <1>. HIDE DEF r
  <1>. QED
    BY <1>4, <1>7, <1>8, SendKeeps

\* A phone sends a packet.
LEMMA PhoneSendKeeps ==
    ASSUME IInv, NEW p \in PhonePackets, NEW h \in Handles, NEW id \in MsgIds,
           NEW form \in PhoneForms, NEW c \in PhoneChunks, PhoneSends(p, h, id, form, c)
    PROVE  IInv'
  <1>. DEFINE r == [handle |-> h, msg_id |-> id, body |-> form.body,
                    bytes |-> form.bytes, chunk |-> c, whole |-> FALSE]
  <1>1. /\ FreshId(h, id) /\ ~IsSent(p)
        /\ sent' = [sent EXCEPT ![p] = r]
        /\ Pieces(form.bytes.len, c) <= BITCHAT_MAX_FRAGMENTS
        /\ UNCHANGED <<frag_slots, time, copies, repeats, ring, handed, excused>>
    BY DEF PhoneSends
  <1>2. IsBytes(form.bytes) /\ c \in Nat \ {0}
    BY FragmentsAssumption
  <1>3. Pieces(form.bytes.len, c) \in 1 .. BITCHAT_MAX_FRAGMENTS
    <2>1. Pieces(form.bytes.len, c) \in Nat \ {0}
      BY <1>2, PiecesPositive DEF IsBytes
    <2>. QED
      BY <1>1, <2>1, FragmentsAssumption
  <1>4. SentRecord(r)
    BY <1>2, <1>3 DEF SentRecord
  <1>5. p \in Packets /\ FreshId(r.handle, r.msg_id)
    BY <1>1 DEF Packets
  <1>. HIDE DEF r
  <1>. QED
    BY <1>1, <1>4, <1>5, SendKeeps

\* A packet that came whole.
LEMMA WholeKeeps ==
    ASSUME IInv, NEW p \in Packets, IsSent(p), ReceiveWhole(p)
    PROVE  IInv'
  <1>. USE DEF IInv
  <1>. DEFINE e == [handle |-> sent[p].handle, chunks |-> <<Chunk(p, 0)>>]
  <1>1. /\ sent[p].whole /\ Received(p, 0)
        /\ ring' = ring \cup {e}
        /\ handed' = [handed EXCEPT ![p] = @ + 1]
        /\ UNCHANGED <<frag_slots, time, sent, excused>>
    BY DEF ReceiveWhole
  <1>2. 0 \in Indexes /\ Total(p) = 1 /\ 0 \in 0 .. Total(p) - 1
    BY <1>1, SentFacts
  <1>3. /\ copies' \in [Packets \X Indexes -> 0 .. MaxRepeats + 1]
        /\ repeats' \in 0 .. MaxRepeats
        /\ RepeatsCounted'
        /\ copies'[<<p, 0>>] = copies[<<p, 0>>] + 1
        /\ \A q \in Packets, j \in Indexes :
              q # p \/ j # 0 => copies'[<<q, j>>] = copies[<<q, j>>]
        /\ \A f \in Packets \X Indexes : copies[f] \in Nat
    BY <1>1, <1>2, ReceivedCounts
  <1>4. handed \in [Packets -> Nat]
    BY FragmentsAssumption DEF TypeOK
  <1>5. \A q \in Packets : /\ Total(q)' = Total(q)
                           /\ IsSent(q)' <=> IsSent(q)
                           /\ PiecesInOrder(q)' = PiecesInOrder(q)
    BY <1>1, SameSending
  <1>6. \A s \in FragSlots : ~Collects(frag_slots[s], p)
    <2>. SUFFICES ASSUME NEW s \in FragSlots, Collects(frag_slots[s], p) PROVE FALSE
      OBVIOUS
    <2>1. PICK q \in Packets : HoldsPieces(frag_slots[s], q)
      BY DEF SlotsHoldPieces, Collects
    <2>. QED
      BY <1>1, <2>1 DEF HoldsPieces, Collects, OneSenderEach
  <1>7. Counted'
    <2>. SUFFICES ASSUME NEW q \in Packets, IsSent(q), NEW j \in 0 .. Total(q) - 1
                  PROVE  /\ handed'[q] <= copies'[<<q, j>>]
                         /\ \A s \in FragSlots :
                               Collects(frag_slots[s], q) /\ j \in frag_slots[s].received_mask
                               => handed'[q] < copies'[<<q, j>>]
      BY <1>1, <1>5 DEF Counted, Collects
    <2>1. CASE q = p
      <3>1. j = 0
        BY <1>2, <2>1
      <3>2. handed[p] <= copies[<<p, 0>>]
        BY <1>2 DEF Counted
      <3>3. handed'[p] = handed[p] + 1 /\ handed[p] \in Nat /\ copies[<<p, 0>>] \in Nat
        BY <1>1, <1>2, <1>3, <1>4
      <3>. QED
        BY <1>3, <1>6, <2>1, <3>1, <3>2, <3>3
    <2>2. CASE q # p
      <3>1. j \in Indexes
        BY SentFacts
      <3>2. handed'[q] = handed[q] /\ copies'[<<q, j>>] = copies[<<q, j>>]
        BY <1>1, <1>3, <1>4, <2>2, <3>1
      <3>. QED
        BY <3>2 DEF Counted
    <2>. QED
      BY <2>1, <2>2
  <1>8. handed' \in [Packets -> 0 .. MaxRepeats + 1]
    BY <1>1, <1>2, <1>7, HandedBounded
  <1>9. TypeOK'
    BY <1>1, <1>3, <1>8 DEF TypeOK
  <1>10. SentInv' /\ OneSenderEach' /\ SlotsHoldPieces' /\ OneSlotEach'
    BY <1>1, SlotsUntouched
  <1>11. UnsentUntouched'
    BY <1>1, <1>3, <1>4, <1>5 DEF UnsentUntouched
  <1>12. e.handle = sent[p].handle /\ e.chunks = PiecesInOrder(p)
    <2>1. PiecesInOrder(p) = [k \in 1 .. 1 |-> Chunk(p, k - 1)]
      BY <1>2 DEF PiecesInOrder
    <2>2. \A k \in 1 .. 1 : Chunk(p, k - 1) = Chunk(p, 0)
      <3>1. \A k \in 1 .. 1 : k - 1 = 0
        OBVIOUS
      <3>. QED
        BY <3>1
    <2>. DEFINE c == Chunk(p, 0)
    <2>3. PiecesInOrder(p) = [k \in 1 .. 1 |-> c]
      BY <2>1, <2>2
    <2>. HIDE DEF c
    <2>4. <<c>> = [k \in 1 .. 1 |-> c]
      OBVIOUS
    <2>. QED
      BY <2>3, <2>4 DEF c
  <1>. HIDE DEF e
  <1>13. Kept'
    <2>. SUFFICES ASSUME NEW q \in Packets, IsSent(q), q \notin excused, ~InRing(q)',
                         NEW j \in 0 .. Total(q) - 1, copies'[<<q, j>>] > 0
                  PROVE  \E s \in FragSlots : /\ Collects(frag_slots[s], q)
                                              /\ j \in frag_slots[s].received_mask
      BY <1>1, <1>5 DEF Kept, Collects
    <2>1. q # p
      BY <1>1, <1>5, <1>12 DEF InRing
    <2>2. ~InRing(q)
      BY <1>1, <1>5 DEF InRing
    <2>3. copies[<<q, j>>] > 0
      BY <1>3, <2>1, SentFacts
    <2>. QED
      BY <2>2, <2>3 DEF Kept
  <1>14. ReassembledWhole'
    <2>. SUFFICES ASSUME NEW x \in ring'
                  PROVE  \E q \in Packets : /\ IsSent(q)
                                            /\ x.handle = sent[q].handle
                                            /\ x.chunks = PiecesInOrder(q)
      BY <1>1, <1>5 DEF ReassembledWhole
    <2>1. CASE x = e
      BY <1>12, <2>1
    <2>2. CASE x \in ring
      BY <2>2 DEF ReassembledWhole
    <2>. QED
      BY <1>1, <2>1, <2>2
  <1>. QED
    BY <1>3, <1>7, <1>9, <1>10, <1>11, <1>13, <1>14

\* A fragment is turned away: it is counted, and its packet is excused.
LEMMA RefuseKeeps ==
    ASSUME IInv, NEW p \in Packets, NEW i \in Indexes, RefuseFragment(p, i)
    PROVE  IInv'
  <1>. USE DEF IInv
  <1>1. /\ Received(p, i)
        /\ excused' = excused \cup {p}
        /\ UNCHANGED <<frag_slots, time, sent, ring, handed>>
    BY DEF RefuseFragment
  <1>2. /\ IsSent(p)
        /\ copies' \in [Packets \X Indexes -> 0 .. MaxRepeats + 1]
        /\ repeats' \in 0 .. MaxRepeats
        /\ RepeatsCounted'
        /\ copies'[<<p, i>>] = copies[<<p, i>>] + 1
        /\ \A q \in Packets, j \in Indexes :
              q # p \/ j # i => copies'[<<q, j>>] = copies[<<q, j>>]
        /\ \A f \in Packets \X Indexes : copies[f] \in Nat
    BY <1>1, ReceivedCounts
  <1>3. \A q \in Packets : /\ Total(q)' = Total(q)
                           /\ IsSent(q)' <=> IsSent(q)
                           /\ PiecesInOrder(q)' = PiecesInOrder(q)
    BY <1>1, SameSending
  <1>4. TypeOK'
    BY <1>1, <1>2 DEF TypeOK
  <1>5. SentInv' /\ OneSenderEach' /\ SlotsHoldPieces' /\ OneSlotEach'
    BY <1>1, SlotsUntouched
  <1>6. UnsentUntouched'
    BY <1>1, <1>2, <1>3 DEF UnsentUntouched
  <1>7. Counted'
    <2>. SUFFICES ASSUME NEW q \in Packets, IsSent(q), NEW j \in 0 .. Total(q) - 1
                  PROVE  /\ handed[q] <= copies'[<<q, j>>]
                         /\ \A s \in FragSlots :
                               Collects(frag_slots[s], q) /\ j \in frag_slots[s].received_mask
                               => handed[q] < copies'[<<q, j>>]
      BY <1>1, <1>3 DEF Counted, Collects
    <2>1. j \in Indexes /\ copies[<<q, j>>] \in Nat
      BY <1>2, SentFacts
    <2>2. copies'[<<q, j>>] \in Nat /\ copies[<<q, j>>] <= copies'[<<q, j>>]
      <3>1. CASE q = p /\ j = i
        BY <1>2, <2>1, <3>1
      <3>2. CASE ~(q = p /\ j = i)
        BY <1>2, <2>1, <3>2
      <3>. QED
        BY <3>1, <3>2
    <2>3. handed[q] \in Nat
      BY FragmentsAssumption DEF TypeOK
    <2>4. handed[q] <= copies[<<q, j>>]
      BY DEF Counted
    <2>5. ASSUME NEW s \in FragSlots, Collects(frag_slots[s], q),
                 j \in frag_slots[s].received_mask
          PROVE  handed[q] < copies[<<q, j>>]
      BY <2>5 DEF Counted
    <2>. QED
      BY <2>1, <2>2, <2>3, <2>4, <2>5
  <1>8. Kept'
    <2>. SUFFICES ASSUME NEW q \in Packets, IsSent(q), q \notin excused', ~InRing(q),
                         NEW j \in 0 .. Total(q) - 1, copies'[<<q, j>>] > 0
                  PROVE  \E s \in FragSlots : /\ Collects(frag_slots[s], q)
                                              /\ j \in frag_slots[s].received_mask
      BY <1>1, <1>3 DEF Kept, Collects, InRing
    <2>1. q # p /\ q \notin excused
      BY <1>1
    <2>2. copies[<<q, j>>] > 0
      BY <1>2, <2>1, SentFacts
    <2>. QED
      BY <2>1, <2>2 DEF Kept
  <1>9. ReassembledWhole'
    BY <1>1, <1>3 DEF ReassembledWhole
  <1>. QED
    BY <1>2, <1>4, <1>5, <1>6, <1>7, <1>8, <1>9

\* A fragment is taken.
LEMMA HandleKeeps ==
    ASSUME IInv, NEW p \in Packets, IsSent(p), NEW i \in Indexes, NEW full \in BOOLEAN,
           HandleFragment(p, i, full)
    PROVE  IInv'
  <1>1. Received(p, i) /\ UNCHANGED <<time, sent>>
    BY DEF HandleFragment
  <1>2. /\ copies' \in [Packets \X Indexes -> 0 .. MaxRepeats + 1]
        /\ repeats' \in 0 .. MaxRepeats
        /\ RepeatsCounted'
        /\ \A q \in Packets, j \in Indexes :
              q # p \/ j # i => copies'[<<q, j>>] = copies[<<q, j>>]
    BY <1>1, ReceivedCounts
  <1>3. Counted' /\ Kept' /\ ReassembledWhole' /\ SlotsHoldPieces' /\ OneSlotEach'
    BY HandleKeepsCounted, HandleKeepsKept, HandleKeepsWhole, HandleKeepsSlots
  <1>4. UNCHANGED handed \/ handed' = [handed EXCEPT ![p] = @ + 1]
    BY DEF HandleFragment
  <1>5. handed' \in [Packets -> 0 .. MaxRepeats + 1]
    BY <1>1, <1>3, <1>4, HandedBounded
  <1>6. frag_slots' \in [FragSlots -> SlotType]
    BY SlotsAfter
  <1>7. excused' \subseteq Packets
    <2>1. PacketsIn(Expired) \subseteq Packets
      <3>. SUFFICES ASSUME NEW t \in Expired, NEW j \in frag_slots[t].received_mask
                    PROVE  frag_slots[t].data[j].packet \in Packets
        BY DEF PacketsIn
      <3>1. PICK q \in Packets : HoldsPieces(frag_slots[t], q)
        BY DEF IInv, SlotsHoldPieces, Expired
      <3>2. frag_slots[t].data[j] = Chunk(q, j)
        BY <3>1 DEF HoldsPieces
      <3>3. Chunk(q, j).packet = q
        BY DEF Chunk
      <3>. QED
        BY <3>2, <3>3
    <2>2. excused \subseteq Packets
      BY DEF IInv, TypeOK
    <2>3. excused' \subseteq excused \cup PacketsIn(Expired) \cup {p}
      BY DEF HandleFragment
    <2>. QED
      BY <2>1, <2>2, <2>3
  <1>8. TypeOK'
    BY <1>1, <1>2, <1>5, <1>6, <1>7 DEF IInv, TypeOK
  <1>9. SentInv' /\ OneSenderEach'
    BY <1>1 DEF IInv, SentInv, SentRecord, OneSenderEach, IsSent, NotSent
  <1>10. UnsentUntouched'
    <2>. SUFFICES ASSUME NEW q \in Packets, ~IsSent(q)
                  PROVE  handed'[q] = 0 /\ \A j \in Indexes : copies'[<<q, j>>] = 0
      BY <1>1, SameSending DEF UnsentUntouched
    <2>1. q # p /\ handed[q] = 0 /\ \A j \in Indexes : copies[<<q, j>>] = 0
      BY DEF IInv, UnsentUntouched
    <2>2. handed'[q] = handed[q]
      BY <1>4, <2>1 DEF IInv, TypeOK
    <2>. QED
      BY <1>2, <2>1, <2>2
  <1>. QED
    BY <1>2, <1>3, <1>8, <1>9, <1>10 DEF IInv

\* The invariant holds initially.
LEMMA InitIInv == Init => IInv
  <1>. SUFFICES ASSUME Init PROVE IInv
    OBVIOUS
  <1>1. TypeOK
    BY FreeSlotType, FragmentsAssumption DEF Init, TypeOK
  <1>2. \A p \in Packets : ~IsSent(p)
    BY DEF Init, IsSent
  <1>3. \A s \in FragSlots : ~frag_slots[s].active
    BY DEF Init, FreeSlot
  <1>4. sent = [p \in Packets |-> sent[p]]
    BY DEF Init
  <1>5. UnsentUntouched
    BY DEF Init, UnsentUntouched
  <1>6. RepeatsCounted /\ ReassembledWhole
    BY DEF Init, RepeatsCounted, ReassembledWhole
  <1>7. SentInv /\ OneSenderEach /\ Counted /\ Kept
    BY <1>2, <1>4 DEF SentInv, OneSenderEach, Counted, Kept
  <1>8. SlotsHoldPieces /\ OneSlotEach
    BY <1>3 DEF SlotsHoldPieces, OneSlotEach
  <1>. QED
    BY <1>1, <1>5, <1>6, <1>7, <1>8 DEF IInv

\* Every step preserves the invariant.
LEMMA NextIInv == IInv /\ [Next]_vars => IInv'
  <1>. SUFFICES ASSUME IInv, [Next]_vars PROVE IInv'
    OBVIOUS
  <1>1. CASE UNCHANGED vars
    <2>1. UNCHANGED <<frag_slots, time, sent, copies, repeats, ring, handed, excused>>
      BY <1>1 DEF vars
    <2>2. \A q \in Packets : /\ Total(q)' = Total(q)
                             /\ IsSent(q)' <=> IsSent(q)
                             /\ PiecesInOrder(q)' = PiecesInOrder(q)
      BY <2>1, SameSending
    <2>3. SentInv' /\ OneSenderEach' /\ SlotsHoldPieces' /\ OneSlotEach'
      BY <2>1, SlotsUntouched
    <2>4. TypeOK' /\ UnsentUntouched' /\ RepeatsCounted'
      BY <2>1, <2>2 DEF IInv, TypeOK, UnsentUntouched, RepeatsCounted
    <2>5. Counted' /\ Kept' /\ ReassembledWhole'
      BY <2>1, <2>2 DEF IInv, Counted, Kept, InRing, Collects, ReassembledWhole
    <2>. QED
      BY <2>3, <2>4, <2>5 DEF IInv
  <1>. QED
    BY <1>1, TickKeeps, BridgeSendKeeps, PhoneSendKeeps, WholeKeeps, RefuseKeeps,
       HandleKeeps
    DEF Next

\* The invariant holds throughout.
LEMMA Invariance == Spec => []IInv
  BY InitIInv, NextIInv, PTL DEF Spec

-----------------------------------------------------------------------------
(* The theorems                                                             *)

\* The reassembly state keeps its types; in particular no chunk in a slot
\* exceeds its staging area.
THEOREM FragmentsTypeCorrect == Spec => []TypeOK
  <1>1. IInv => TypeOK
    BY DEF IInv
  <1>. QED
    BY <1>1, Invariance, PTL

\* Whatever is lost, delayed, repeated or interleaved, what _handle_fragment
\* puts into the ring is one packet sent on that handle, whole and in order.
THEOREM FragmentsReassembleWhole == Spec => []ReassembledWhole
  <1>1. IInv => ReassembledWhole
    BY DEF IInv
  <1>. QED
    BY <1>1, Invariance, PTL

\* A packet is completed at most as often as each of its fragments came.
THEOREM FragmentsRepeatsNeedAll == Spec => []RepeatsNeedAll
  <1>1. IInv => RepeatsNeedAll
    <2>. SUFFICES ASSUME IInv, NEW p \in Packets, IsSent(p), NEW f \in FragmentsOf(p)
                  PROVE  handed[p] <= copies[f]
      BY DEF RepeatsNeedAll
    <2>1. PICK i \in 0 .. Total(p) - 1 : f = <<p, i>>
      BY DEF FragmentsOf
    <2>. QED
      BY <2>1 DEF IInv, Counted
  <1>. QED
    BY <1>1, Invariance, PTL

\* A packet whose fragments all came is in the ring, unless it met one of the
\* limits the code names.
THEOREM FragmentsHandOn == Spec => []ArrivedIsHandedOn
  <1>1. IInv => ArrivedIsHandedOn
    <2>. SUFFICES ASSUME IInv, NEW p \in Packets, IsSent(p), p \notin excused,
                         \A f \in FragmentsOf(p) : copies[f] > 0, ~InRing(p)
                  PROVE  FALSE
      BY DEF ArrivedIsHandedOn, InRing
    <2>1. \A i \in 0 .. Total(p) - 1 : copies[<<p, i>>] > 0
      BY DEF FragmentsOf
    <2>2. \A i \in 0 .. Total(p) - 1 : \E s \in FragSlots :
              Collects(frag_slots[s], p) /\ i \in frag_slots[s].received_mask
      BY <2>1 DEF IInv, Kept
    <2>3. 0 \in 0 .. Total(p) - 1
      BY SentFacts DEF IInv
    <2>4. PICK s \in FragSlots : Collects(frag_slots[s], p)
      BY <2>2, <2>3
    <2>5. \A t \in FragSlots : Collects(frag_slots[t], p) => t = s
      BY <2>4 DEF IInv, OneSlotEach, Collects
    <2>6. 0 .. Total(p) - 1 \subseteq frag_slots[s].received_mask
      BY <2>2, <2>5
    <2>7. PICK q \in Packets : HoldsPieces(frag_slots[s], q)
      BY <2>4 DEF IInv, SlotsHoldPieces, Collects
    <2>8. q = p
      BY <2>4, <2>7 DEF IInv, OneSenderEach, HoldsPieces, Collects
    <2>. QED
      BY <2>6, <2>7, <2>8 DEF HoldsPieces
  <1>. QED
    BY <1>1, Invariance, PTL

\* A slot goes to another message only when its own was finished or begun more
\* than the timeout ago.
THEOREM FragmentsSlotsAreKept == Spec => SlotsAreKept
  <1>. DEFINE A == \A s \in FragSlots :
                       /\ frag_slots[s].active
                       /\ \/ frag_slots'[s].msg_id # frag_slots[s].msg_id
                          \/ frag_slots'[s].conn_handle # frag_slots[s].conn_handle
                       => time - frag_slots[s].start_ms > FRAG_TIMEOUT
  <1>1. ASSUME IInv, NEW p \in Packets, IsSent(p), NEW i \in Indexes, NEW full \in BOOLEAN,
               HandleFragment(p, i, full)
        PROVE  A
    <2>. SUFFICES ASSUME NEW s \in FragSlots, frag_slots[s].active,
                         \/ frag_slots'[s].msg_id # frag_slots[s].msg_id
                         \/ frag_slots'[s].conn_handle # frag_slots[s].conn_handle
                  PROVE  s \in Expired
      BY DEF Expired
    <2>1. frag_slots[s] \in SlotType
      BY <1>1 DEF IInv, TypeOK
    <2>2. s = Chosen(p)
      <3>. DEFINE r == frag_slots[s]
                  x == [r EXCEPT !.active = FALSE]
      <3>1. x.msg_id = r.msg_id /\ x.conn_handle = r.conn_handle
        BY <2>1, ReleasedFacts
      <3>2. s # Chosen(p) => frag_slots'[s] = r \/ frag_slots'[s] = x
        BY <1>1, SlotsAfter
      <3>. HIDE DEF x
      <3>. QED
        BY <3>1, <3>2
    <2>3. CASE ~Collects(frag_slots[s], p)
      BY <1>1, <2>2, <2>3, SlotsAfter
    <2>4. CASE Collects(frag_slots[s], p)
      <3>. DEFINE o == Filled(p, i)
      <3>1. /\ Found(p).use # {} /\ Acceptable(p, i) /\ i \in 0 .. Total(p) - 1
            /\ frag_slots' =
                  [Found(p).slots EXCEPT
                      ![Chosen(p)] = IF o.received_mask = 0 .. Total(p) - 1
                                     THEN [o EXCEPT !.active = FALSE] ELSE o]
        BY <1>1, HandledSlots
      <3>2. o \in SlotType /\ Collects(o, p)
        BY <1>1, <3>1, FilledFacts
      <3>3. Found(p).slots \in [FragSlots -> SlotType]
        BY <1>1, <3>1, SearchFacts DEF IInv
      <3>. HIDE DEF o
      <3>4. frag_slots'[s] = o \/ frag_slots'[s] = [o EXCEPT !.active = FALSE]
        BY <2>2, <3>1, <3>3
      <3>5. frag_slots'[s].msg_id = o.msg_id /\ frag_slots'[s].conn_handle = o.conn_handle
        BY <3>2, <3>4, ReleasedFacts
      <3>. QED
        BY <2>4, <3>2, <3>5 DEF Collects
    <2>. QED
      BY <2>3, <2>4
  <1>2. IInv /\ [Next]_vars => [A]_vars
    <2>1. CASE UNCHANGED frag_slots
      BY <2>1
    <2>2. CASE \E p \in Packets, i \in Indexes, full \in BOOLEAN :
                   IsSent(p) /\ HandleFragment(p, i, full)
      BY <1>1, <2>2
    <2>. QED
      BY <2>1, <2>2
      DEF Next, vars, Tick, SendToPeer, PhoneSends, ReceiveWhole, RefuseFragment
  <1>. QED
    BY <1>2, Invariance, PTL DEF Spec, SlotsAreKept

\* unpad_packet undoes _pad_packet wherever the padding is at most 255 bytes,
\* whatever the packet ends in: the number of bytes added then fits the byte
\* that says it.
THEOREM ShortPaddingComesOff ==
    ASSUME NEW p, IsBytes(p), Block(p.len) - p.len \in 1 .. 255
    PROVE  unpad_packet(pad_packet(p)) = p.len
  <1>. DEFINE k == Block(p.len) - p.len
              run == k + (IF p.last = k THEN p.run ELSE 0)
  <1>1. p.len \in Nat /\ p.run \in Nat /\ Block(p.len) \in Nat
    <2>1. p.len \in Nat /\ p.run \in Nat
      BY DEF IsBytes
    <2>2. Block(p.len) \in Blocks
      BY <2>1, BlockIsBlock
    <2>. QED
      BY <2>1, <2>2, BlocksAssumption
  <1>2. k \in 1 .. 255 /\ k % 256 = k
    BY <1>1
  <1>3. pad_packet(p) = [len |-> Block(p.len), last |-> k, run |-> run]
    BY <1>1, <1>2 DEF pad_packet
  <1>4. run >= k /\ k <= Block(p.len) /\ Block(p.len) - k = p.len
    BY <1>1, <1>2
  <1>5. run \in Nat
    BY <1>1, <1>2
  <1>. DEFINE o == [len |-> Block(p.len), last |-> k, run |-> run]
  <1>. HIDE DEF run, k
  <1>6. o.len = Block(p.len) /\ o.last = k /\ o.run = run
    OBVIOUS
  <1>. HIDE DEF o
  <1>7. unpad_packet(o) = p.len
    BY <1>1, <1>2, <1>4, <1>5, <1>6 DEF unpad_packet
  <1>. QED
    BY <1>3, <1>7 DEF o

-----------------------------------------------------------------------------
(* The length of a packet put together                                      *)

\* The pieces of a packet of n bytes in chunks of c: all but the last one are
\* full.
LEMMA PiecesCover ==
    ASSUME NEW n \in Nat \ {0}, NEW c \in Nat \ {0}
    PROVE  LET last == Pieces(n, c) - 1
           IN  /\ last \in Nat
               /\ last * c < n
               /\ n <= last * c + c
  <1>. DEFINE k == (n + c - 1) \div c
              r == (n + c - 1) % c
  <1>1. k \in Nat /\ r \in 0 .. c - 1 /\ n + c - 1 = c * k + r
    OBVIOUS
  <1>2. k >= 1
    OBVIOUS
  <1>. HIDE DEF k, r
  <1>. DEFINE before == k - 1
  <1>3. c * k = before * c + c /\ before * c \in Nat
    BY <1>1, <1>2
  <1>4. before \in Nat
    BY <1>1, <1>2
  <1>. HIDE DEF before
  <1>5. before * c < n /\ n <= before * c + c
    BY <1>1, <1>3
  <1>. QED
    BY <1>4, <1>5 DEF Pieces, k, before

\* The length that a part of the pieces 0 .. last has, all of length c but the
\* last one, of length r.
PartLen(s, last, c, r) ==
    IF last \in s THEN (Cardinality(s) - 1) * c + r ELSE Cardinality(s) * c

LessByOne(s, i, last, c, r) ==
    /\ PartLen(s, last, c, r) =
          (IF i = last THEN r ELSE c) + PartLen(s \ {i}, last, c, r)
    /\ Cardinality(s) \in Nat /\ Cardinality(s \ {i}) \in Nat
    /\ Cardinality(s \ {i}) < Cardinality(s)

\* Taking a piece away takes its length away.
LEMMA PartLenStep ==
    ASSUME NEW last \in Nat, NEW c \in Nat, NEW r \in Nat,
           NEW s \in SUBSET (0 .. last), NEW i \in s
    PROVE  LessByOne(s, i, last, c, r)
  <1>. DEFINE k == Cardinality(s)
              rest == s \ {i}
              kr == Cardinality(rest)
  <1>1. IsFiniteSet(0 .. last)
    BY FS_Interval
  <1>2. IsFiniteSet(s) /\ IsFiniteSet(rest)
    BY <1>1, FS_Subset
  <1>3. k \in Nat /\ kr \in Nat
    BY <1>2, FS_CardinalityType
  <1>4. kr = k - 1
    BY <1>2, FS_RemoveElement
  <1>. HIDE DEF k, kr
  <1>5. CASE i = last
    <2>1. last \in s /\ last \notin rest
      BY <1>5
    <2>. QED
      BY <1>3, <1>4, <1>5, <2>1 DEF PartLen, LessByOne, k, kr
  <1>6. CASE i # last /\ last \in s
    <2>1. last \in rest
      BY <1>6
    <2>2. (k - 1) * c = (kr - 1) * c + c
      BY <1>3, <1>4
    <2>3. PartLen(s, last, c, r) = (k - 1) * c + r
      BY <1>6 DEF PartLen, k
    <2>4. PartLen(rest, last, c, r) = (kr - 1) * c + r
      BY <2>1 DEF PartLen, kr
    <2>5. (kr - 1) * c \in Int
      BY <1>3
    <2>6. PartLen(s, last, c, r) = c + PartLen(rest, last, c, r)
      BY <2>2, <2>3, <2>4, <2>5
    <2>. QED
      BY <1>3, <1>4, <1>6, <2>6 DEF LessByOne, k, kr
  <1>7. CASE last \notin s
    <2>1. last \notin rest /\ i # last
      BY <1>7
    <2>2. k * c = kr * c + c
      BY <1>3, <1>4
    <2>3. PartLen(s, last, c, r) = k * c
      BY <1>7 DEF PartLen, k
    <2>4. PartLen(rest, last, c, r) = kr * c
      BY <2>1 DEF PartLen, kr
    <2>5. kr * c \in Nat
      BY <1>3
    <2>6. PartLen(s, last, c, r) = c + PartLen(rest, last, c, r)
      BY <2>2, <2>3, <2>4, <2>5
    <2>. QED
      BY <1>3, <1>4, <2>1, <2>6 DEF LessByOne, k, kr
  <1>. QED
    BY <1>5, <1>6, <1>7

\* What the sum over the pieces is, by recursion on the pieces that are left.
SumOver(f, slot, last) ==
    f = [s \in SUBSET (0 .. last) |->
            IF s = {} THEN 0
            ELSE slot.data[CHOOSE x \in s : TRUE].len + f[s \ {CHOOSE x \in s : TRUE}]]

LEMMA TotalLenIsSum ==
    ASSUME NEW slot, NEW last \in Nat
    PROVE  TotalLen(slot, last + 1) = (CHOOSE f : SumOver(f, slot, last))[0 .. last]
  <1>1. (last + 1) - 1 = last
    OBVIOUS
  <1>. QED
    BY <1>1 DEF TotalLen, MapThenSumSet, MapThenFoldSet, SumOver

\* The lengths of all pieces add up to the length of the packet.
LEMMA PiecesAddUp ==
    ASSUME NEW slot, NEW last \in Nat, NEW c \in Nat, NEW r \in Nat,
           \A i \in 0 .. last : slot.data[i].len = IF i = last THEN r ELSE c
    PROVE  TotalLen(slot, last + 1) = last * c + r
  <1>. DEFINE all == SUBSET (0 .. last)
              pick(s) == CHOOSE x \in s : TRUE
              known == [s \in all |-> PartLen(s, last, c, r)]
              sum == CHOOSE f : SumOver(f, slot, last)
  <1>1. PartLen({}, last, c, r) = 0
    BY FS_EmptySet DEF PartLen
  <1>2. ASSUME NEW s \in all, s # {}
        PROVE  /\ pick(s) \in s /\ s \ {pick(s)} \in all
               /\ PartLen(s, last, c, r)
                     = slot.data[pick(s)].len + PartLen(s \ {pick(s)}, last, c, r)
               /\ Cardinality(s) \in Nat /\ Cardinality(s \ {pick(s)}) \in Nat
               /\ Cardinality(s \ {pick(s)}) < Cardinality(s)
    <2>1. pick(s) \in s
      BY <1>2
    <2>. DEFINE gone == pick(s)
    <2>2. gone \in s /\ gone \in 0 .. last
      BY <2>1
    <2>. HIDE DEF gone
    <2>3. slot.data[gone].len = IF gone = last THEN r ELSE c
      BY <2>2
    <2>4. LessByOne(s, gone, last, c, r)
      <3>1. s \in SUBSET (0 .. last)
        OBVIOUS
      <3>. HIDE DEF all
      <3>. QED
        BY <2>2, <3>1, PartLenStep
    <2>. QED
      BY <2>2, <2>3, <2>4 DEF gone, LessByOne
  <1>3. SumOver(known, slot, last)
    <2>1. ASSUME NEW s \in all
          PROVE  known[s] = IF s = {} THEN 0
                            ELSE slot.data[pick(s)].len + known[s \ {pick(s)}]
      BY <1>1, <1>2
    <2>2. known = [s \in all |-> known[s]]
      OBVIOUS
    <2>. HIDE DEF known
    <2>. QED
      BY <2>1, <2>2 DEF SumOver
  <1>4. SumOver(sum, slot, last)
    <2>. HIDE DEF known
    <2>. QED
      BY <1>3
  <1>. HIDE DEF sum
  <1>5. \A s \in all : sum[s] = IF s = {} THEN 0
                                ELSE slot.data[pick(s)].len + sum[s \ {pick(s)}]
    BY <1>4 DEF SumOver
  <1>. DEFINE wrong == {k \in Nat : \E s \in all :
                           Cardinality(s) = k /\ sum[s] # PartLen(s, last, c, r)}
  <1>6. wrong = {}
    <2>. SUFFICES ASSUME wrong # {} PROVE FALSE
      OBVIOUS
    <2>1. wrong \in SUBSET Nat
      OBVIOUS
    <2>2. PICK k \in wrong : \A j \in wrong : k <= j
      <3>. HIDE DEF wrong
      <3>. QED
        BY <2>1, LeastElement
    <2>3. PICK s \in all : Cardinality(s) = k /\ sum[s] # PartLen(s, last, c, r)
      BY <2>2
    <2>4. s # {}
      BY <1>1, <1>5, <2>3
    <2>. DEFINE rest == s \ {pick(s)}
    <2>5. rest \in all /\ Cardinality(rest) \in Nat /\ Cardinality(rest) < k
      BY <1>2, <2>3, <2>4
    <2>6. Cardinality(rest) \notin wrong
      BY <2>1, <2>2, <2>5
    <2>7. sum[rest] = PartLen(rest, last, c, r)
      BY <2>5, <2>6
    <2>8. sum[s] = slot.data[pick(s)].len + sum[rest]
      BY <1>5, <2>4
    <2>9. PartLen(s, last, c, r) = slot.data[pick(s)].len + PartLen(rest, last, c, r)
      BY <1>2, <2>4
    <2>. QED
      BY <2>3, <2>7, <2>8, <2>9
  <1>7. \A s \in all : s # {} => sum[s] = PartLen(s, last, c, r)
    BY <1>2, <1>6
  <1>8. sum[0 .. last] = PartLen(0 .. last, last, c, r)
    <2>1. 0 \in 0 .. last
      OBVIOUS
    <2>. QED
      BY <1>7, <2>1
  <1>9. Cardinality(0 .. last) = last + 1
    BY FS_Interval
  <1>10. PartLen(0 .. last, last, c, r) = last * c + r
    BY <1>9 DEF PartLen
  <1>. QED
    BY <1>8, <1>10, TotalLenIsSum DEF sum

-----------------------------------------------------------------------------
(* Padding that comes off                                                   *)

\* How a packet was sent: as it is or padded, and in one piece only if it is short.
Formed(r) ==
    /\ IsBytes(r.body)
    /\ r.bytes = r.body \/ r.bytes = pad_packet(r.body)
    /\ r.whole => r.bytes.len <= BITCHAT_BLE_MTU

SentFormed == \A p \in Packets : IsSent(p) => Formed(sent[p])

\* What is in the ring fits an entry as it was sent.
RingShort ==
    \A e \in ring :
        \E p \in Packets : /\ IsSent(p)
                           /\ e.chunks = PiecesInOrder(p)
                           /\ sent[p].bytes.len <= BITCHAT_BLE_MTU

PInv == IInv /\ SentFormed /\ RingShort

\* The pieces of a packet that a slot holds have the length of the packet.
LEMMA CompleteLen ==
    ASSUME IInv, NEW p \in Packets, IsSent(p), NEW slot,
           \A i \in 0 .. Total(p) - 1 : slot.data[i] = Chunk(p, i)
    PROVE  TotalLen(slot, Total(p)) = sent[p].bytes.len
  <1>. DEFINE n == sent[p].bytes.len
              c == sent[p].chunk
              last == Total(p) - 1
              r == n - last * c
  <1>1. n \in Nat \ {0} /\ c \in Nat \ {0}
    BY SentFacts DEF IInv, SentRecord, IsBytes
  <1>2. Total(p) \in Nat /\ Total(p) = last + 1
    BY SentFacts DEF IInv
  <1>3. Total(p) = Pieces(n, c)
    BY DEF Total
  <1>4. last \in Nat /\ last * c < n /\ n <= last * c + c
    <2>. HIDE DEF n, c
    <2>. QED
      BY <1>1, <1>3, PiecesCover
  <1>5. ASSUME NEW i \in 0 .. last
        PROVE  slot.data[i].len = IF n - i * c > c THEN c ELSE n - i * c
    <2>1. Chunk(p, i).len = IF n - i * c > c THEN c ELSE n - i * c
      BY DEF Chunk
    <2>2. slot.data[i] = Chunk(p, i)
      OBVIOUS
    <2>. QED
      BY <2>1, <2>2
  <1>. HIDE DEF n, c, last
  <1>6. last * c \in Nat /\ r \in Nat
    BY <1>1, <1>4
  <1>7. ASSUME NEW i \in 0 .. last
        PROVE  slot.data[i].len = IF i = last THEN r ELSE c
    <2>1. CASE i = last
      BY <1>1, <1>4, <1>5, <1>6, <2>1
    <2>2. CASE i # last
      <3>. DEFINE left == last - i
      <3>1. left \in Nat /\ left >= 1
        BY <1>4, <2>2
      <3>2. left * c >= c /\ left * c \in Nat
        BY <1>1, <3>1
      <3>3. last * c = i * c + left * c /\ i * c \in Nat
        BY <1>1, <1>4
      <3>. HIDE DEF left
      <3>4. n - i * c > c
        BY <1>1, <1>4, <1>6, <3>2, <3>3
      <3>. QED
        BY <1>5, <2>2, <3>4
    <2>. QED
      BY <2>1, <2>2
  <1>8. r \in Nat /\ last * c + r = n
    BY <1>1, <1>6
  <1>. HIDE DEF r
  <1>9. TotalLen(slot, last + 1) = last * c + r
    BY <1>1, <1>4, <1>7, <1>8, PiecesAddUp
  <1>. QED
    BY <1>2, <1>8, <1>9 DEF n

\* Of a packet that fits a ring entry the padding comes off.
LEMMA ShortComesOff ==
    ASSUME PaddingFits, NEW r, IsBytes(r.body), IsBytes(r.bytes),
           r.bytes = r.body \/ r.bytes = pad_packet(r.body),
           r.bytes.len <= BITCHAT_BLE_MTU
    PROVE  \/ unpad_packet(r.bytes) = r.body.len
           \/ r.bytes = r.body /\ r.body.last \in 1 .. r.body.run
  <1>. DEFINE b == r.body
  <1>1. b.len \in Nat \ {0} /\ b.last \in Nat /\ b.run \in Nat
    BY DEF IsBytes, ByteValues
  <1>2. Block(b.len) \in Nat
    BY <1>1, BlockIsBlock, BlocksAssumption
  <1>3. CASE r.bytes = b
    BY <1>1, <1>3 DEF unpad_packet
  <1>4. CASE r.bytes # b
    <2>1. r.bytes = pad_packet(b)
      BY <1>4
    <2>2. ~(Block(b.len) <= b.len)
      BY <1>4, <2>1 DEF pad_packet
    <2>3. r.bytes.len = Block(b.len)
      BY <2>1, <2>2 DEF pad_packet
    <2>4. b.len \in 1 .. BITCHAT_BLE_MTU
      BY <1>1, <1>2, <2>2, <2>3, FragmentsAssumption
    <2>5. Block(b.len) <= b.len + 255
      BY <2>4 DEF PaddingFits
    <2>6. Block(b.len) - b.len \in 1 .. 255
      BY <1>1, <1>2, <2>2, <2>5
    <2>. HIDE DEF b
    <2>7. unpad_packet(pad_packet(b)) = b.len
      <3>1. IsBytes(b)
        BY DEF b
      <3>. QED
        BY <2>6, <3>1, ShortPaddingComesOff
    <2>. QED
      BY <2>1, <2>7 DEF b
  <1>. QED
    BY <1>3, <1>4

\* Every step leaves the packets formed so.
LEMMA FormedStep ==
    ASSUME PaddingFits, IInv, SentFormed, [Next]_vars
    PROVE  SentFormed' /\ \A p \in Packets : IsSent(p) => sent'[p] = sent[p]
  <1>1. CASE UNCHANGED sent
    BY <1>1 DEF SentFormed, IsSent, NotSent, Formed
  <1>2. ASSUME NEW p \in Packets, NEW s, ~IsSent(p), sent' = [sent EXCEPT ![p] = s],
               Formed(s)
        PROVE  SentFormed' /\ \A q \in Packets : IsSent(q) => sent'[q] = sent[q]
    <2>1. \A q \in Packets : sent'[q] = IF q = p THEN s ELSE sent[q]
      BY <1>2 DEF IInv, SentInv
    <2>2. \A q \in Packets : IsSent(q) => q # p
      BY <1>2
    <2>3. ASSUME NEW q \in Packets, IsSent(q)' PROVE Formed(sent[q])'
      <3>1. CASE q = p
        <4>1. sent'[q] = s
          BY <2>1, <3>1
        <4>. QED
          BY <1>2, <4>1 DEF Formed
      <3>2. CASE q # p
        <4>1. sent'[q] = sent[q]
          BY <2>1, <3>2
        <4>2. Formed(sent[q])
          BY <2>3, <4>1, SameSending DEF SentFormed
        <4>. QED
          BY <4>1, <4>2 DEF Formed
      <3>. QED
        BY <3>1, <3>2
    <2>4. SentFormed'
      BY <2>3 DEF SentFormed
    <2>. QED
      BY <2>1, <2>2, <2>4
  <1>3. ASSUME NEW p \in BridgePackets, NEW h \in Handles, NEW id \in MsgIds,
               NEW b \in Bodies, NEW padded \in BOOLEAN, SendToPeer(p, h, id, b, padded)
        PROVE  SentFormed' /\ \A q \in Packets : IsSent(q) => sent'[q] = sent[q]
    <2>. DEFINE bytes == IF padded THEN pad_packet(b) ELSE b
                one == [handle |-> h, msg_id |-> id, body |-> b, bytes |-> bytes,
                        chunk |-> bytes.len, whole |-> TRUE]
                many == [handle |-> h, msg_id |-> id, body |-> b, bytes |-> bytes,
                         chunk |-> SendChunk, whole |-> FALSE]
    <2>1. ~IsSent(p) /\ p \in Packets
      BY <1>3 DEF SendToPeer, Packets
    <2>2. \/ bytes.len <= PeerMtu /\ sent' = [sent EXCEPT ![p] = one]
          \/ sent' = [sent EXCEPT ![p] = many]
      BY <1>3 DEF SendToPeer, SendFragmented
    <2>3. IsBytes(b) /\ IsBytes(bytes) /\ (bytes = b \/ bytes = pad_packet(b))
      BY FragmentsAssumption, PaddedIsBytes
    <2>. HIDE DEF bytes
    <2>4. bytes.len <= PeerMtu => bytes.len <= BITCHAT_BLE_MTU
      BY <2>3, FragmentsAssumption DEF PaddingFits, IsBytes
    <2>5. /\ one.body = b /\ one.bytes = bytes /\ one.whole = TRUE
          /\ many.body = b /\ many.bytes = bytes /\ many.whole = FALSE
      OBVIOUS
    <2>. HIDE DEF one, many
    <2>6. Formed(many) /\ (bytes.len <= PeerMtu => Formed(one))
      BY <2>3, <2>4, <2>5 DEF Formed
    <2>. QED
      BY <1>2, <2>1, <2>2, <2>6
  <1>4. ASSUME NEW p \in PhonePackets, NEW h \in Handles, NEW id \in MsgIds,
               NEW form \in PhoneForms, NEW c \in PhoneChunks, PhoneSends(p, h, id, form, c)
        PROVE  SentFormed' /\ \A q \in Packets : IsSent(q) => sent'[q] = sent[q]
    <2>. DEFINE many == [handle |-> h, msg_id |-> id, body |-> form.body,
                         bytes |-> form.bytes, chunk |-> c, whole |-> FALSE]
    <2>1. ~IsSent(p) /\ p \in Packets /\ sent' = [sent EXCEPT ![p] = many]
      BY <1>4 DEF PhoneSends, Packets
    <2>2. /\ IsBytes(form.body)
          /\ form.bytes = form.body \/ form.bytes = pad_packet(form.body)
      BY FragmentsAssumption DEF PaddingFits
    <2>3. many.body = form.body /\ many.bytes = form.bytes /\ many.whole = FALSE
      OBVIOUS
    <2>. HIDE DEF many
    <2>4. Formed(many)
      BY <2>2, <2>3 DEF Formed
    <2>. QED
      BY <1>2, <2>1, <2>4
  <1>5. ASSUME NEW p \in Packets,
               \/ ReceiveWhole(p)
               \/ \E i \in Indexes : RefuseFragment(p, i)
               \/ \E i \in Indexes, full \in BOOLEAN : HandleFragment(p, i, full)
        PROVE  UNCHANGED sent
    BY <1>5 DEF ReceiveWhole, RefuseFragment, HandleFragment
  <1>. QED
    BY <1>1, <1>3, <1>4, <1>5 DEF Next, vars, Tick

\* Every step leaves only short packets in the ring.
LEMMA ShortStep ==
    ASSUME PaddingFits, PInv, [Next]_vars
    PROVE  RingShort'
  <1>. USE DEF PInv
  <1>1. \A p \in Packets : IsSent(p) => /\ sent'[p] = sent[p]
                                        /\ IsSent(p)'
                                        /\ PiecesInOrder(p)' = PiecesInOrder(p)
    BY FormedStep, SameSending
  <1>2. CASE UNCHANGED ring
    BY <1>1, <1>2 DEF RingShort
  <1>3. ASSUME NEW e, ring' = ring \cup {e}, NEW p \in Packets, IsSent(p),
               e.chunks = PiecesInOrder(p), sent[p].bytes.len <= BITCHAT_BLE_MTU
        PROVE  RingShort'
    <2>1. ASSUME NEW x \in ring'
          PROVE  \E q \in Packets : /\ IsSent(q)'
                                    /\ x.chunks = PiecesInOrder(q)'
                                    /\ sent'[q].bytes.len <= BITCHAT_BLE_MTU
      <3>1. CASE x \in ring
        BY <1>1, <3>1 DEF RingShort
      <3>2. CASE x = e
        BY <1>1, <1>3, <3>2
      <3>. QED
        BY <1>3, <3>1, <3>2
    <2>. QED
      BY <2>1 DEF RingShort
  <1>4. ASSUME NEW p \in Packets, IsSent(p), ReceiveWhole(p)
        PROVE  RingShort'
    <2>. DEFINE entry == [handle |-> sent[p].handle, chunks |-> <<Chunk(p, 0)>>]
    <2>1. ring' = ring \cup {entry} /\ sent[p].whole
      BY <1>4 DEF ReceiveWhole
    <2>2. Total(p) = 1
      BY <1>4, <2>1, SentFacts DEF IInv
    <2>3. <<Chunk(p, 0)>> = PiecesInOrder(p)
      BY <2>2 DEF PiecesInOrder
    <2>4. entry.chunks = PiecesInOrder(p)
      BY <2>3
    <2>5. sent[p].bytes.len <= BITCHAT_BLE_MTU
      BY <1>4, <2>1 DEF SentFormed, Formed
    <2>. HIDE DEF entry
    <2>. QED
      BY <1>3, <1>4, <2>1, <2>4, <2>5
  <1>5. ASSUME NEW p \in Packets, IsSent(p), NEW i \in Indexes, NEW full \in BOOLEAN,
               HandleFragment(p, i, full)
        PROVE  RingShort'
    <2>. DEFINE o == Filled(p, i)
                entry == [handle |-> sent[p].handle, chunks |-> Concatenated(o, Total(p))]
    <2>1. /\ Found(p).use # {} /\ Acceptable(p, i) /\ i \in 0 .. Total(p) - 1
      BY <1>5, HandledSlots
    <2>2. \/ /\ ring' = ring \cup {entry}
             /\ o.received_mask = 0 .. Total(p) - 1
             /\ TotalLen(o, Total(p)) \in 1 .. BITCHAT_BLE_MTU
          \/ UNCHANGED ring
      BY <1>5 DEF HandleFragment, Filled, Found, Chosen, AllReceived
    <2>3. \A j \in o.received_mask : o.data[j] = Chunk(p, j)
      BY <1>5, <2>1, FilledFacts
    <2>4. Total(p) \in Nat
      BY <1>5, SentFacts DEF IInv
    <2>5. entry.chunks = Concatenated(o, Total(p))
      OBVIOUS
    <2>. HIDE DEF entry, o
    <2>6. CASE o.received_mask = 0 .. Total(p) - 1
      <3>1. \A k \in 1 .. Total(p) : o.data[k - 1] = Chunk(p, k - 1)
        BY <2>3, <2>4, <2>6
      <3>2. entry.chunks = PiecesInOrder(p)
        BY <2>5, <3>1 DEF Concatenated, PiecesInOrder
      <3>3. \A k \in 0 .. Total(p) - 1 : o.data[k] = Chunk(p, k)
        BY <2>3, <2>6
      <3>4. TotalLen(o, Total(p)) = sent[p].bytes.len
        BY <1>5, <3>3, CompleteLen
      <3>5. TotalLen(o, Total(p)) \in 1 .. BITCHAT_BLE_MTU
                => sent[p].bytes.len <= BITCHAT_BLE_MTU
        BY <3>4, FragmentsAssumption
      <3>. QED
        BY <1>2, <1>3, <1>5, <2>2, <3>2, <3>5
    <2>. QED
      BY <1>2, <2>2, <2>6
  <1>6. ASSUME NEW p \in Packets, NEW i \in Indexes, RefuseFragment(p, i)
        PROVE  UNCHANGED ring
    BY <1>6 DEF RefuseFragment
  <1>7. ASSUME NEW p, NEW h, NEW id, NEW b, NEW c,
               PhoneSends(p, h, id, b, c) \/ SendToPeer(p, h, id, b, c)
        PROVE  UNCHANGED ring
    BY <1>7 DEF PhoneSends, SendToPeer
  <1>. QED
    BY <1>2, <1>4, <1>5, <1>6, <1>7 DEF Next, vars, Tick

\* The stronger invariant, where the padding fits.
LEMMA PaddingInvariance == ASSUME PaddingFits PROVE Spec => []PInv
  <1>1. Init => PInv
    <2>1. Init => SentFormed /\ RingShort
      BY DEF Init, SentFormed, RingShort, IsSent
    <2>. QED
      BY <2>1, InitIInv DEF PInv
  <1>2. PInv /\ [Next]_vars => PInv'
    BY NextIInv, FormedStep, ShortStep DEF PInv
  <1>. QED
    BY <1>1, <1>2, PTL DEF Spec

\* With the code's block sizes, unpad_packet takes off what _pad_packet added, for
\* every packet that comes through _handle_fragment or in one piece: a packet
\* whose padding is longer than its last byte can say does not fit the ring.  The
\* exception are packets sent without padding that end like it.
THEOREM FragmentsPaddingComesOff == ASSUME PaddingFits PROVE Spec => []PaddingComesOff
  <1>1. PInv => PaddingComesOff
    <2>. SUFFICES ASSUME PInv, NEW e \in ring
                  PROVE  LET p == e.chunks[1].packet
                             s == sent[p]
                         IN  \/ unpad_packet(s.bytes) = s.body.len
                             \/ s.bytes = s.body /\ s.body.last \in 1 .. s.body.run
      BY DEF PaddingComesOff
    <2>1. PICK q \in Packets : /\ IsSent(q)
                              /\ e.chunks = PiecesInOrder(q)
                              /\ sent[q].bytes.len <= BITCHAT_BLE_MTU
      BY DEF PInv, RingShort
    <2>2. Total(q) \in Nat \ {0}
      BY <2>1, SentFacts, FragmentsAssumption DEF PInv, IInv
    <2>3. PiecesInOrder(q)[1] = Chunk(q, 0)
      BY <2>2 DEF PiecesInOrder
    <2>4. e.chunks[1].packet = q
      BY <2>1, <2>3 DEF Chunk
    <2>5. /\ IsBytes(sent[q].body) /\ IsBytes(sent[q].bytes)
          /\ sent[q].bytes = sent[q].body \/ sent[q].bytes = pad_packet(sent[q].body)
      BY <2>1, SentFacts DEF PInv, IInv, SentRecord, SentFormed, Formed
    <2>6. \/ unpad_packet(sent[q].bytes) = sent[q].body.len
          \/ sent[q].bytes = sent[q].body /\ sent[q].body.last \in 1 .. sent[q].body.run
      BY <2>1, <2>5, ShortComesOff
    <2>. QED
      BY <2>4, <2>6
  <1>. QED
    BY <1>1, PaddingInvariance, PTL
=============================================================================
