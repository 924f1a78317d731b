# A TLA+ model of the Meshtastic-Bitchat bridge

The bridge is an ESP32 firmware that forwards text between a Meshtastic radio
(TCP over WiFi) and Bitchat phones (BLE). This directory models its control
logic in TLA+, checks it with TLC on small instances and proves parts of it
with TLAPS. Every definition that stands for code is listed with its lines
under `map` in `PROJECT.json`.

## The system

One Arduino task runs `loop()` (`main.cpp`): `BridgeManager::loop()` drives both
transports, whose message callbacks run inside it, then its own periodic work,
and ends in `delay(10)`. The NimBLE host task runs the BLE callbacks on the
other core. The two tasks share the receive ring and the table of peers.

| Part | State | Operations | Interacts with |
|---|---|---|---|
| BLE receive ring (`bitchat_ble`) | `_rx_queue`, `_rx_head`, `_rx_tail` | GATT write, notification, requeue of a reassembled packet, drain | host task → loop task |
| BLE peer sessions | `_peers` | connect, disconnect, announce, handshake timeout, scan | both tasks, no lock |
| Noise XX | handshake phase, chaining key, nonces | three messages, encrypt, decrypt | peer sessions |
| Gossip relay | relay dedup cache | relay with TTL - 1 | all peers |
| Fragmentation | reassembly slots | split, reassemble | puts packets back into the ring |
| Virtual identity registry | vector of identities | get_or_create, expire, evict, shed | calls back the bridge on eviction |
| BridgeManager | dedup ring, chunk queue, announce cycle, backoff | both message handlers, loop phases | everything above |
| Meshtastic TCP | socket flags, frame parser, NodeInfo state | connect and handshake, loop, send | radio |
| Meshtastic inbound | node directory, rate limits | parse, filter, deliver | bridge callback |
| Identity mapper | two name tables, NVS image | update, debounced save, load | bridge, flash |
| Wall clock | synced flag, offset | set once from a packet | both transports |

What is hard here: two tasks on one lock-free ring; work spread over many loop
iterations (announce cycle, chunk queue, NodeInfo) while the data it walks
changes; callbacks that evict while they create; a socket that drops between
any two steps; caches at their limit; a millisecond counter that wraps. The
hazards are listed one by one in `PROJECT.json`, each at its line.

What makes each part correct:

- ring: every accepted packet is handled once, whole, in order; a packet is
  refused only when it does not fit or the ring is full;
- registry and announce cycle: one identity per user, what phones were told
  matches the registry, an identity is announced before it speaks, the least
  recently used one goes first, a cycle leaves out no more identities than were
  evicted behind its position while it ran;
- routing: only repeats are swallowed, nothing a user said is forwarded twice
  while the cache remembers it, chunks leave in order;
- session: no frame mixes two sessions, every session learns the NodeInfo, an
  outage always ends in a reconnect;
- peers: a session is with the device of a connection that is up, no two
  sessions send with one key, a private message reaches only its addressee, and
  the nonces of a session stay usable;
- relay: a packet stops at the hop limit, a device relays it once, flooding ends
  with everybody reached that no signature check cuts off, and a signed message is
  shown under its sender's name, as long as the announces on its connection hold both
  a name and a key;
- fragments: a reassembled packet is one packet that was sent, whole; repeats do
  not make a second one of it; what arrives is handed on unless it meets a limit
  the code names; padding comes off as it went on;
- names: what is not marked dirty is in flash, a reset costs at most a table whose
  save it cut short, a look-up gives the latest name, names are saved in the end;
- inbound: the radio's own packets are not bridged, also after moving to another
  radio; reports keep their distance, and the limit silences nobody.

## Modules

| Module | Models |
|---|---|
| `PacketFifo` | abstract specification of the receive path: a bounded FIFO queue |
| `RxRing` | the ring between host task and loop task, one step per access to shared memory; implements `PacketFifo` |
| `RxRingProofs` | its theorems |
| `Picks` | elements of a vector picked by position, for loops over a table and erased elements |
| `VirtualIdentity` | the registry, as operators on its vector: extends `Picks` |
| `BridgeManager` | the bridge: extends `VirtualIdentity`; message handlers, dedup ring, announce cycle, memory check, chunk queue |
| `BridgeIdentities` | `BridgeManager` with a history of its identities, and the properties about them |
| `BridgeTraffic` | `BridgeManager` with gossip that returns to it and a history of messages, and the properties about them |
| `BridgeProofs` | the theorems of both |
| `MeshLink` | `MeshtasticTCP`'s session and the reconnect phase of `BridgeManager::loop()` |
| `MeshLinkProofs` | its theorems |
| `NoiseSession` | the Noise XX state machine and transport ciphers of one peer, as operators |
| `PeerSessions` | the peer tables of a hub and its centrals: extends `NoiseSession` and `Picks`; connections, packets, handlers, timeouts |
| `PeerSessionsProofs` | its theorems |
| `Padding` | block padding of packets, as operators |
| `Fragments` | one BLE hop: extends `Padding`; split, reassembly slots, what goes into the ring |
| `FragmentsProofs` | the theorems about `Fragments` and `Padding` |
| `Gossip` | flooding on a graph of devices: verification, relay cache, TTL |
| `GossipProofs` | its theorems |
| `NameCache` | the identity mapper with its NVS image and resets |
| `NameCacheProofs` | its theorems |
| `MeshProto` | the decoders and encoders of Meshtastic messages, on sequences of fields |
| `MeshInbound` | `_handle_from_radio` over sessions with several radios: extends `MeshProto` |
| `MeshInboundProofs` | its theorems |
| `MCRxRing`, `MCBridgeIdentities`, `MCPeerSessions`, `MCFragments`, `MCGossip` | values of constants and symmetry for TLC |

**RxRing.** `rx_queue`, `rx_head` and `rx_tail` are the shared memory; `host` and
`loop` hold each task's program counter and locals. A packet is a number; an
entry is its payload and its length-and-handle, written in two steps, so a torn
entry is visible. The stores are release or sequentially consistent and the
loads that matter acquire, so interleaving covers the reorderings. The
constants `Completing` and `Oversized` say which arrivals complete a fragmented
message and which packets fail the length test.

**BridgeManager.** `phase` is the position in `loop()`. A handler is one action:
it runs on one task, and nothing it touches is shared. The one exception is the
loop of `check_memory_pressure`, which evicts one identity per step (phase
`shed`), because it reads the heap again each time. A message is the tuple of
what `hash()` mixes; hash collisions and the name cache are left out. `did`
records what a step sent, recorded and evicted; only the history modules read
it. The free heap is an input that may change between steps, and while
identities are shed; the TCP link is an input, because `MeshLink` models it. The
transports deliver any number of messages per iteration, up to `MaxMessages` in
all.

**MeshLink.** `phase` is the position of the task, inside the blocking `connect()`
too. `radio` is up, mute (accepts, never completes the config) or down; the
socket may drop between any two steps, and so between the checks of one
function. A frame is abstracted to "the parser is inside a frame" and the
session (modulo 2) in which it began. `told` and `loops` are history.

**NoiseSession.** The state of a handshake is its phase, role, keys and
*transcript*: the sequence of everything mixed into the symmetric state, of which
`ck`, `h` and `k` are taken to be injective functions. A ciphertext records the
transcript it was sealed under and opens under an equal one only. A message has
no type on the wire: a step reads the leading bytes of whatever arrives in its
phase, so a message 2 can be read as a message 1. `Split` gives two tokens, which
the responder swaps.

**PeerSessions.** `peers` is `_peers` of every device, `link` the radio's view of
each connection, `inbox` the air and the receive ring together (`RxRing` shows
the ring to be a FIFO that may refuse). All devices run this firmware, the Hub as
peripheral and the others as centrals. A packet carries the handle it arrives
with, and stays queued when its connection ends; handles are reused, the lowest
free one first. Callbacks and turns of the loop are atomic. Any packet may be
lost, and the 15 s of the handshake timeout may have passed at any step: both
count as faults, as do a connection that ends and a primitive that fails.
`onDisconnect` is taken to see the handle of the connection that ended, as the
code does. A virtual identity's announce and texts come from the Hub over the
same connections. Payload formats, fragments and nicknames are left out.
The model keeps what the code does at the edges: a packet without a slot gets
one, `_free_peer` clears the first slot with the handle, an announce overwrites
the signing key of the slot whoever it is from, a relayed packet fails
verification because the signature covers the TTL, and a central's announce
sent from `_on_connect` precedes the storing of its client and so goes nowhere.

**Padding, Fragments.** Of a packet's bytes `Padding` keeps the length, the last
byte and the length of the run it ends: all that `pad_packet` and `unpad_packet`
look at. A fragment is the piece of the packet it carries (packet, offset,
length), so a mixed or shifted reassembly is visible; lengths are in bytes. `sent`
is the air: a fragment of a packet that was sent may be received at any time,
again, or never. Another bridge cuts as `_send_fragmented` does; phones, whose
code is not here, cut as they like and are external. `frag_slots` outlives
connections, so one handle may carry packets of several. `full` says whether the
ring is full when a packet is complete. `excused` collects the packets that met a
limit.

**Gossip.** `link` holds the packets on each direction of each connection, and
`sign_pubkey` is `Nobody`, no identity, where `sign_pubkey_known` is false. A packet
is its type, sender, number, the flag `HAS_SIGNATURE`, what an announce holds, and the
TTL; `hops` is history. The signature covers the
TTL, as in `_process_incoming`: an announce is verified with the key it carries,
a message with the key of the last announce on its connection that had one, if any.
What is not signed, and a signed announce without a key, passes unverified, as in the
code. This firmware signs whatever it sends and announces name and key; `Phones` run
an app that is not here (external), and may send unsigned packets and announces that
lack one or the other (`PhoneAnnounces`). `HandleAnnounce` stores the name and the key
independently, each if the announce holds it; `halved` is a history of the connections
on which an announce held one without the other. `Copies` is `_send_to_peer`: a
peripheral's notification reaches all its centrals, once for each that it is meant
for, the previous hop included. The relay
cache is the sequence of its last `RELAY_DEDUP_SIZE` records. `send_text` and
`_send_announce` do not record what they send; `announce_virtual` and
`send_text_as` do.

**NameCache.** `names` holds both tables, `nvs` their two keys each. An update that
triggers `save()` runs it step by step (`phase`), so that a `Restart` may fall
between any two writes; nothing else can. The code has no timer for a pending
save: only an update that a table takes leads to one, and so `SavedInTheEnd`
supposes updates. A look-up skips entries without a name. `kept` and `latest` are history.

**MeshProto, MeshInbound.** A protobuf message is a sequence of fields (number,
wire type, value); the parsers walk it in order, skip what they do not know and
stop where the code stops (`decode_fields` is the set of positions they reach,
and a field that is repeated counts with its last value). `MeshInbound` feeds the parsers with frames made by the
encoders of `MeshProto` and a few broken ones. `out` is what the step handed to
the bridge, or which report the rate limit dropped. The config phase reads
numbers and names only; `Connect` keeps the directory and the radio's old number,
as the code does, until the new radio's MyNodeInfo arrives. A radio sends its
MyNodeInfo before the config is complete (external; `told`).

## Runs

| Run | Result | Shows |
|---|---|---|
| `rx_ring` | passes | `TypeOK`, `EntryNotOverwritten`, `HandledInOrder`, `ImplementsFifo` (refinement, with its fairness), `AcceptedIsHandled` |
| `rx_ring_race` | `HandledInOrder` violated | the fragment path is a second producer on a ring commented SPSC |
| `bridge_identities` | passes | `TypeOK`, `OneIdentityPerUser`, `PeersSeeRegistry`, `AnnouncedBeforeSpeaking`, `EvictsLeastRecent`, `CycleAnnouncesAll` |
| `bridge_traffic` | passes | `SkipsOnlyRepeats`, `ForwardsOnce`, `ChunksInOrder` |
| `mesh_link` | passes | `FramesAreOfOneSession`, `NodeInfoPrompt`, `Reconnects` |
| `peer_sessions` | passes | `TypeOK`, `SendKeysDistinct`, `PrivateDelivery`, `SessionOfConnection` |
| `noise_pair` | passes | `ReceiverNotAhead` |
| `fragments` | passes | `TypeOK`, `ReassembledWhole`, `RepeatsNeedAll`, `ArrivedIsHandedOn`, `PaddingComesOff`, `SlotsAreKept` |
| `gossip` | passes | `HopLimit`, `ShownUnderSender`, `SilentMeshReached`, `RelayedOnce`, `FloodEnds` |
| `gossip_reach` | `GenuineNotDropped` violated | the signature covers the TTL, so a relayed packet is dropped by the next device |
| `name_cache` | passes | `CleanIsRestorable`, `OnlyTornTablesAreLost`, `LookupIsLatest`, `SavedInTheEnd` |
| `mesh_inbound` | passes | `OwnRadioNotBridged`, `ReportsSpaced`, `ReportsKeepComing` |

The two runs that are violated each quote, under `findings`, the comment or document
that says otherwise.

**Bounds.** `rx_ring` uses the code's four slots and eight arrivals, so that the
ring wraps twice and both full and oversized packets occur; one arrival
completes a message too long for an entry and the last one a message that
fits, when no callback can run beside it (`SingleProducer` below, otherwise the
race of `rx_ring_race`). `bridge_identities` has three users for two slots, five
clock ticks and four messages: enough for expiry, LRU eviction, shedding and an
eviction inside an announce cycle; the users are symmetric. `bridge_traffic` has a cache
of five hashes, so that one short and one long message overflow it within the
TTL, two phones, one mesh user and two chunks per long message. `mesh_link` scales
the 5 s to 300 s backoff to 1, 2, 4, 3 units and has a clock that wraps at 6, just
above the longest interval, so that the wrap is met all the time.
(The scale keeps the code's overshoot: the interval doubles while it is below
the cap, so it reaches 320 s once before it falls back to 300 s, although the
comment says "cap at 5 minutes".)
`peer_sessions` has two centrals, two
slots per device and room for two packets, two connections in all, and one
announce, one text and one fault beyond what the protocol sends by itself:
enough for a slot without a connection, a reused handle, a session that one
side has lost, and handshakes that overlap. `noise_pair` has one central, three
connections and two events of each kind, so that a packet of a session is lost
or outlives it while another is sent. `fragments` has the code's lengths with four fragments of
256 staged bytes instead of eight, two slots for three packets, two handles, two
ids and one repeated delivery; one tick exceeds the timeout, so that a slot is
given up and its late fragments still come. `gossip` is a triangle of devices and a
phone connected to one of them, the bridge, so that copies meet in a loop, a way round
is as long as the three hops allowed, and the bridge notifies two centrals at once; a
cache of one record and a TTL of one tick overflow and expire. Two packets are
originated, by the phone (signed or not, with whole or partial announces) or under a
virtual identity of the bridge, and one packet is lost or the clock ticks once
(`MaxEvents`) before the second is originated: two senders are enough for a name of
one to stand over a message of the other. `name_cache` has tables of two for three
node ids, so that a table is full, and two successive names; its ages make time
unbounded. `mesh_inbound` has one node and two radios, which are nodes to each
other, and a directory of two, so that one of the three senders finds it full; its
two intervals differ, and time is unbounded. `MaxTime`, `MaxMessages`, `MaxArrivals`,
`SetupTime`, `MaxLinks`, `MaxEvents`, `MaxRepeats` and `MaxSends` are the
named bounds.

**Deadlock** is checked except in the `rx_ring` runs, where the radio may fall
silent for ever, and in the runs of `PeerSessions`, where devices out of reach of
each other have nothing to do once their events are used up, and in those of
`Fragments` and `Gossip`, where the air is empty once the packets are used up.

**Fairness.** `RxRing`: the loop task is scheduled for ever and a callback that
started runs to its end (FreeRTOS schedules both tasks, neither blocks in the
ring code); no packet need arrive. `MeshLink`: the task runs for ever; the clock
advances (strong fairness of `DelayTicks`, as the delay may end within a unit
many times); a radio that stays up accepts one of infinitely many attempts and
configures one of infinitely many open sessions in time. Nothing is assumed of
a radio that is not up or of the network. `Gossip`: while
a packet waits somewhere, some device takes one (all drain their rings in their
loops). `NameCache`: `save()` runs to its end, the clock advances, and NVS opens in
one of infinitely many attempts; nothing is assumed against resets.
`MeshInbound`: the clock advances. `BridgeManager`, `PeerSessions` and
`Fragments` need none: their properties are safety.

## Proofs

Every theorem holds for every value of the constants that satisfies the named
assumptions of the modules: sizes, intervals and timeouts are natural numbers,
positive where the code divides by them or needs one slot, and the values that
stand for "nothing" differ from the real ones (`Zero` is no user and no phone, `"none"` no
handle or message id, node ids and fingerprints are disjoint). Each module has one
inductive invariant `IInv` (`BridgeProofs`, `GossipProofs` and `FragmentsProofs` a
second one, `TrafficInv`, `FInv` and `PInv`), shown to hold initially and to be kept by each action.

**RxRingProofs**, under `SingleProducer` (no completed fragment fits an entry, so
only callbacks publish): `RingTypeCorrect`, `RingEntrySafe`, `RingInOrder` and
`RingImplementsFifo`. `IInv` adds which packets are in the ring: slot by slot, the
entry that the i-th unreleased acceptance filled is at `rx_tail + i`, whole, and
a callback that has passed its full test writes a slot outside that range while
its `next` differs from `rx_tail`. `EntryNotOverwritten` is not inductive without
it, because nothing else says that the full test still holds when the write
happens. `RingImplementsFifo` shows that every step is one of `PacketFifo` or
leaves its state as it is: only publication, refusal, taking and release show.
The fairness of `PacketFifo` is left to TLC.

**MeshLinkProofs**: `LinkFramesWhole`, `LinkNodeInfoPrompt`. The invariant adds
that `connect()` runs only while the bridge counts the link as down
(`ConnectStartsOver`), that a live session which went through `_mesh.loop()` has
been seen by the reconnect phase (`SeenAfterLoop`) and that a live session once
seen is told or has its NodeInfo pending (`SeenIsPublished`). Together they chain
the three passes the NodeInfo takes from connection to wire.

**BridgeProofs**, identities: `BridgeTypeCorrect`, `BridgeOneIdentityPerUser`,
`BridgePeersSeeRegistry`, `BridgeAnnouncesFirst`, `BridgeCycleAnnouncesAll`,
`BridgeEvictsLeastRecent`. Three layers: what the operators on the vector do
(`OnlySplits`, `LruSplits`, `RoomIsMade`, `GotHolds`: positions erased from a vector
leave the others, one each, and the least recently seen go first), what a sequence
of packets tells a phone (`FarewellsFirst`, `SpeechIsSpoken`), and the step
(`RegistryChanges`, which takes any change of the registry that these two describe).
`IInv` adds `DueAhead`, that of the identities a cycle still owes an announce at most
`overtaken` do not stand beyond its position, and `SeenIsHeard`, that
`last_seen_ms` is the time of the user's last message. An eviction can move identities across the
position only by as many places as it erased before it: since erasing keeps the order
of those that stay (`InOrder`), counting positions shows that each identity that
slips behind is matched by one evicted from there (`OvertakenBound`). `SeenIsHeard`
holds until `millis()` wraps, and so `BridgeEvictsLeastRecent` assumes `MaxTime < CLOCK_MOD`:
after the wrap the property is false, as the remark on the registry below says.
The other five hold through any number of wraps.

**BridgeProofs**, traffic: `BridgeSkipsOnlyRepeats`, `BridgeForwardsOnce`,
`BridgeChunksInOrder`. `TrafficInv` says where the ring of hashes holds what was
forwarded: the hash recorded as number `n` is in slot `n % DEDUP_CACHE_SIZE`, with
the clock of its message, until as many hashes were recorded since (`Remembered`);
until `millis()` wraps, every other entry is empty, an outgoing message's or an
earlier one's of the same message (`Justified`); and while a queue is partly sent,
the last chunk sent is the one before the next, whose time is its own plus the
delay (`Queued`). Each action is summed up by what it does to the ring
(`DedupStep`) and to the queue (`QueueStep`), and the two are taken through the
arithmetic of clock and ring (`ReducedSum`, `CloseDiffer`, `SinceAtMost`,
`AheadIsBefore`). The second theorem needs no hypothesis: a difference of clocks is
at most the time that passed, so that a wrap can only lengthen the memory.
The first assumes `MaxTime < CLOCK_MOD`, because for that very reason an entry older
than a turn of the clock looks fresh again and swallows a message; the third assumes
that the delay is at most half a turn, which the signed comparison
(`bridge_manager.cpp`) needs.

**NameCacheProofs**: `CacheTypeCorrect`, `CacheCleanIsRestorable`,
`CacheLosesOnlyTornTables`, `CacheLookupIsLatest`. `IInv` says for each step of
`save()` which of the four keys already hold the current tables, so that a reset
there leaves a table whole or torn, and never another state.

**GossipProofs**: `GossipTypeCorrect`, `GossipHopLimit`, `GossipShowsSender`,
`GossipRelaysOnce`, on every graph of devices. `IInv` adds that TTL and hops of a
packet on the air sum to at most the limit; that on a connection where no announce
held one without the other, the name and the key its messages are verified with
belong to one identity; and where in the
cache of a device the packets stand that it relayed.
`GossipReachesMesh` (`SilentMeshReached`) has a hypothesis on the mesh, `WithinReach`:
it is connected and has at most `BITCHAT_MAX_HOPS + 1` devices. The mesh of `gossip`
has exactly as many, which TLC checks as an assumption of `MCGossip`. The
invariant `FInv` adds `FloodsOn`, and `Numbered`, that nothing carries a number not
yet given. `FloodsOn` follows a message by the set `S` of the devices that have it: on
each connection that leads out of `S` the message waits, its first copy with at
most as many hops as `S` has members; none waits on a connection from outside; no
cache outside knows it. So the copy that first reaches a device still has a TTL to
pass on, or there is no device left to reach, and the detours and the repeats that
a small cache lets through, which only run within `S`, change nothing. With all
connections empty `S` is closed under them, and is the mesh. No induction over
paths is needed. All this is said of the messages that nothing can drop: the unsigned
ones, and every message while no connection has a key.

**FragmentsProofs**: `FragmentsTypeCorrect`, `FragmentsReassembleWhole`,
`FragmentsRepeatsNeedAll`, `FragmentsHandOn`, `FragmentsSlotsAreKept`,
`FragmentsPaddingComesOff`. `IInv` ties
each slot to the packet whose fragments it holds: handle and id determine one
packet that was sent, the mask says which of its pieces are staged, each came
more often than the packet was handed on, and a packet neither handed on nor
excused has all its arrived fragments in one slot.
`ShortPaddingComesOff` is about the operators alone: padding of at most 255 bytes
comes off, whatever the packet ends in.
`FragmentsPaddingComesOff` carries this to the packets in the ring, under `PaddingFits`:
the MTU agreed on is at most the `BITCHAT_BLE_MTU` that `setMTU` asks for, a block
adds at most 255 bytes to a packet of up to that size, and a phone pads as the node
does or not at all. TLC checks it of the code's block sizes as an assumption of
`MCFragments`. A longer packet may be padded by more than its last byte can say, so
the proof must show that none reaches the ring. `PInv` adds that a packet on its way
is a record as `_send_to_peer` or a phone makes it (`SentFormed`), and that what is in
the ring has at most `BITCHAT_BLE_MTU` bytes (`RingShort`). For a reassembled packet,
`_handle_fragment` compares the staged length with that limit, and `CompleteLen` says
that the staged length of a full mask is the packet's own. It sums the lengths of
the pieces; the induction on their number is written out as a least number for which
the sum would be wrong (`LeastElement`, `SumOver`), since the library's induction
theorems cannot be instantiated.

**MeshInboundProofs**: `InboundTypeCorrect`, `InboundOwnRadioNotBridged`,
`InboundReportsSpaced`. `IInv` adds that the number held is the radio's once it has
sent its own, which it has before the config is complete; that the directory
holds a node once; and that its ages are those of the reports handed on.

**PeerSessionsProofs**: `PeerTypeCorrect`, `PeerSendKeysDistinct`,
`PeerPrivateDelivery`, `PeerSessionOfConnection`, for every finite, non-empty set of
centrals and every size of table and ring. `IInv` says what a handshake has mixed into its transcript in each
phase (`Shape`): the ephemeral keys are its first two entries and the static keys
its fourth and sixth, by role, and a session's keys are the two halves of it. It adds
that an ephemeral key in use was generated and is in one slot only (`Keys`), and that
every ciphertext on its way was made by such a session, with the static keys of its
sender and of its addressee in those places (`Sealed`). Three of the theorems follow:
two equal sending keys have equal transcripts and so the same ephemeral key, and a
ciphertext opens only under a key whose transcript names this node and the sender.
Nothing is needed of slots, handles or connections, which is why these
properties survive the confusion of slots described under Remarks. That Noise's
functions of the transcript are injective, and that a ciphertext opens under its
own key only, is the symbolic cryptography of `NoiseSession`.

`PeerSessionOfConnection` is about just those, and needs `Paired` as well, which
relates slots at both ends, connections and the packets on their way. A slot of
the Hub serves a connection if it is the one `_find_peer` returns for its handle
(`Serves`): new slots come behind it, so that it does until it is freed, which every
end of the connection does. A central's slot that waits for an answer has shown its
key to the Hub only over its own connection, so that the key is nowhere but in
packets with that connection's handle (`Asking`) and in the slot that serves it
(`Answering`); an answer is therefore for a connection that is still there
(`Replying`), and a third message opens only in a slot that serves its sender
(`Opening`). A connection that comes up gets a handle no other has (`HandleLeft`), so
that it takes nobody's slot. `CalmStep` says that steps which take no handshake
further keep all this, if they clear the slots of a connection with it;
`HandshakeMoves` reduces the others to what is new in one slot and on its way. A
handshake message read in the wrong phase is covered as it is: an idle central
answers another's second message as if it were a first, and the proof shows that
nothing comes of it.

What stays with TLC:

- liveness (`AcceptedIsHandled`, `Reconnects`, `FloodEnds`, `SavedInTheEnd`,
  `ReportsKeepComing`, the fair part of `ImplementsFifo`): the prover handles
  neither fairness nor `ENABLED`;
- `ReceiverNotAhead`, which holds between two devices only: with several centrals a
  session spends nonces on the packets of others.

## Not modelled

- Cryptographic primitives and key derivation, the vendored ChaCha20-Poly1305 and
  Ed25519 included: arithmetic on keys is out of TLC's reach. Their outcomes are
  inputs. Hash collisions are left out.
- Text layout, WiFi setup and status output, the abstract interfaces and the HTTP
  stub: no state that anything depends on.
- Bytes: varints, tags and lengths of protobuf messages, TLVs, and the byte-wise
  frame parser, of which `MeshLink` keeps only whether it is inside a frame. The
  generator of packet ids is left out with them.
- Two tasks inside one slot of `_peers` at the same time (there is no lock);
  `end()` and the LEAVE packet it sends.
- The two legacy conversions of the identity mapper, which nothing calls; NVS
  writes that fail (their results are not looked at); a failing `nvs_open` in
  `load()` other than for want of saved data.
- The wrap of `millis()` where ages stand for times (`NameCache`, `MeshInbound`) and
  where time is bounded (`Fragments`, `Gossip`, `BridgeManager`).

## Remarks

What the models keep because the code does it, and a reader of the code or its
documents may not expect:

- **Registry.** The LRU comparison takes raw `millis()` values (`virtual_identity.h:163`):
  for a while after the wrap the identity used last looks oldest. An
  eviction of an identity that an announce cycle has passed shifts the vector under
  its index, so that one identity waits for the next cycle (`bridge_manager.cpp:64`):
  one for each such eviction and no more (`CycleAnnouncesAll`).
- **Routing.** The hash recorded for an outgoing message (`bridge_manager.cpp:162`)
  is not that of the message as gossip brings it back, which is bridged once more.
  A second long message replaces the queued chunks of a first
  (`bridge_manager.cpp:304`). The reconnect interval doubles once past its cap.
- **Attribution.** A message is shown under the name of its connection, which is that
  of the last announce with a name (`bitchat_ble.cpp:947`). A packet without a signature is
  not verified (`bitchat_ble.cpp:854`), nor is a signed one before a key was announced,
  and a signed announce without a key passes (`bitchat_ble.cpp:874`), sets the name and
  leaves the key of an earlier one (`bitchat_ble.cpp:952`). So an unsigned message that was
  relayed, or a signed one after such an announce, appears under the name of whoever
  announced last. `ShownUnderSender` is limited to what the code does guarantee.
- **Sessions.** Notifications go to every subscribed central
  (`bitchat_ble.cpp:667`): an idle one takes another's handshake message for its
  own, and the encrypted packets of one session cost the others nonces.
- **Slots.** A packet handled after its connection ended gets a slot of its own
  (`bitchat_ble.cpp:840`), without an address and with a handle that the next
  connection may have. `_on_connect` then adds a second slot with this handle
  (`bitchat_ble.cpp:1431`) and `_free_peer` clears the first only: the one with the
  address stays active after the connection. There the packets of whichever
  device has the handle next arrive: that a session is with the device whose
  address the slot has is false (a proof attempt showed it; no run within its
  bounds had), and `SessionOfConnection` says what holds instead. At a central
  the slot left over makes the address check of the scan
  (`bitchat_ble.cpp:281`, "Check if already connected to this address") refuse the
  peer from then on: connect, subscribe, an announce, disconnect, connect, the
  late announce is handled, subscribe, disconnect.
- **Fragments.** `_send_fragmented` cuts 356 bytes where `_handle_fragment` stages
  256: of this firmware's own fragmented packets only the last fragment is taken,
  and it holds a slot until it times out. A packet padded to 512 bytes exceeds
  the usual 509 bytes of a connection and is fragmented. A slot that has timed out
  still completes when its own fragments arrive before another message needs it,
  and a repeat after completion takes a slot of its own.
- **Padding.** The receiver takes padding off every packet, but handshake,
  encrypted and leave packets are sent without: one in 256 or so loses the end of
  its signature. A pad length above 255 is cut to a byte and stays on.
- **Names.** The count of a save cut short is not that of its blob: a blob that has
  grown loses its table at the next start; after that, a shorter blob under the old
  count, if that save is cut short too, leaves blank entries which take up room. A name within the debounce interval waits for a later update.
- **Inbound.** The parser of a User reads field 1 as the long name and field 2 as
  the short one, while `encode_user` writes the id in field 1 and the long name in
  field 2: the directory shows ids as names. `rx_time` is read from field 9, where
  `encode_mesh_packet` puts the hop limit (as a varint; the parser wants a
  fixed32).

## Plan

1. Done: ring, bridge, registry, TCP session, peer tables and Noise sessions,
   fragments and padding, gossip, name cache, inbound packets; proofs for all of
   them.
2. Left to model: accesses of both tasks to one slot of `_peers`, and an abstract
   "both sides agree" specification of a session.
