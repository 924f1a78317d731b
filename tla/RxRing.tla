------------------------------- MODULE RxRing -------------------------------
(***************************************************************************)
(* The ring buffer between the NimBLE host task, whose callbacks receive    *)
(* BLE packets, and the Arduino loop task, which processes them             *)
(* (BitchatBLE::_rx_queue, _rx_head, _rx_tail).                             *)
(*                                                                          *)
(* Every access to shared memory is a step of its own, so the two tasks     *)
(* interleave as they do on the two cores of the ESP32.  The atomics are    *)
(* loaded with acquire and stored with release (or sequentially             *)
(* consistently), so interleaving is the only reordering to consider.       *)
(*                                                                          *)
(* The producers are the GATT write callback (onWrite), the notification    *)
(* lambda, both on the host task, and _handle_fragment, which runs on the   *)
(* loop task inside _process_incoming when a fragment completes a message   *)
(* and puts the reassembled packet back into the same ring.                 *)
(***************************************************************************)
EXTENDS Naturals, Sequences

CONSTANTS RX_QUEUE_SIZE,   \* slots of the ring
          MaxArrivals,     \* bound: packets the radio delivers
          Completing,      \* arrivals that complete a fragmented message
          Oversized        \* packets whose length is 0 or above RX_BUF_SIZE

Arrivals == 1 .. MaxArrivals

\* The packet that _handle_fragment builds when it processes arrival p.
Reassembled(p) == MaxArrivals + p

Packets == Arrivals \cup {Reassembled(p) : p \in Completing}

NoPacket == 0

ASSUME RingAssumption ==
    /\ RX_QUEUE_SIZE \in Nat /\ RX_QUEUE_SIZE >= 2
    /\ MaxArrivals \in Nat
    /\ Completing \subseteq Arrivals
    /\ Oversized \subseteq Packets

Slots == 0 .. RX_QUEUE_SIZE - 1

\* Mutant of NextSlot: the position is not wrapped.
NextSlotUnwrapped(i) == i + 1

\* The index after i, by the code's (i + 1) % RX_QUEUE_SIZE.
NextSlot(i) == (i + 1) % RX_QUEUE_SIZE

VARIABLES
    rx_queue,   \* slot -> [data, meta]: whose payload, whose length and handle
    rx_head,    \* next write position
    rx_tail,    \* next read position
    host,       \* the host task: where it is in a callback and its locals
    loop,       \* the loop task: where it is in loop() and its locals
    arrived,    \* packets the radio has delivered to a callback
    accepted,   \* history: packets published in the ring, in order
    handled,    \* history: [data, meta] of every entry processed, in order
    dropped     \* history: packets a producer refused

vars == <<rx_queue, rx_head, rx_tail, host, loop, arrived,
          accepted, handled, dropped>>

hist == <<accepted, handled, dropped>>

-----------------------------------------------------------------------------

EmptyEntry == [data |-> NoPacket, meta |-> NoPacket]

Init ==
    /\ rx_queue = [s \in Slots |-> EmptyEntry]
    /\ rx_head = 0
    /\ rx_tail = 0
    /\ host = [pc |-> "idle", via |-> "onWrite", pkt |-> NoPacket,
               slot |-> 0, next |-> 0]
    /\ loop = [pc |-> "poll", tail |-> 0, entry |-> EmptyEntry,
               slot |-> 0, next |-> 0]
    /\ arrived = 0
    /\ accepted = <<>>
    /\ handled = <<>>
    /\ dropped = {}

-----------------------------------------------------------------------------
(* Host task: a GATT write (onWrite) or a notification (the subscribe lambda) *)

\* The callback starts for the next packet and loads _rx_head.
HostLoad(via) ==
    /\ host.pc = "idle"
    /\ arrived < MaxArrivals
    /\ arrived' = arrived + 1
    /\ host' = [pc |-> "check", via |-> via, pkt |-> arrived + 1,
                slot |-> rx_head, next |-> NextSlot(rx_head)]
    /\ UNCHANGED <<rx_queue, rx_head, rx_tail, loop, hist>>

\* Mutant of HostAdmit: the full test is forgotten.
HostAdmitUnchecked ==
    /\ host.pc = "check"
    /\ host.pkt \notin Oversized
    /\ host' = [host EXCEPT !.pc = "data"]
    /\ UNCHANGED <<rx_queue, rx_head, rx_tail, loop, arrived, hist>>

\* The length test and the full test against _rx_tail, both passed.
HostAdmit ==
    /\ host.pc = "check"
    /\ host.pkt \notin Oversized
    /\ host.next # rx_tail
    /\ host' = [host EXCEPT !.pc = "data"]
    /\ UNCHANGED <<rx_queue, rx_head, rx_tail, loop, arrived, hist>>

\* Mutant of HostRefuse: one slot too many is kept free.
HostRefuseEarly ==
    /\ host.pc = "check"
    /\ host.pkt \in Oversized \/ NextSlot(host.next) = rx_tail
    /\ host' = [host EXCEPT !.pc = "idle"]
    /\ dropped' = dropped \cup {host.pkt}
    /\ UNCHANGED <<rx_queue, rx_head, rx_tail, loop, arrived, accepted, handled>>

\* Either test failed: the callback returns and the packet is gone.
HostRefuse ==
    /\ host.pc = "check"
    /\ host.pkt \in Oversized \/ host.next = rx_tail
    /\ host' = [host EXCEPT !.pc = "idle"]
    /\ dropped' = dropped \cup {host.pkt}
    /\ UNCHANGED <<rx_queue, rx_head, rx_tail, loop, arrived, accepted, handled>>

\* Mutant of HostWriteData: the length and the handle are forgotten.
HostWriteDataOnly ==
    /\ host.pc = "data"
    /\ LET slot == IF host.via = "onWrite" THEN host.slot ELSE rx_head
       IN  /\ rx_queue' = [rx_queue EXCEPT ![slot].data = host.pkt]
           /\ host' = [host EXCEPT !.pc = "publish", !.slot = slot]
    /\ UNCHANGED <<rx_head, rx_tail, loop, arrived, hist>>

\* memcpy into the entry.  onWrite uses the head it loaded at the start, the
\* lambda loads _rx_head again to choose the entry.
HostWriteData ==
    /\ host.pc = "data"
    /\ LET slot == IF host.via = "onWrite" THEN host.slot ELSE rx_head
       IN  /\ rx_queue' = [rx_queue EXCEPT ![slot].data = host.pkt]
           /\ host' = [host EXCEPT !.pc = "meta", !.slot = slot]
    /\ UNCHANGED <<rx_head, rx_tail, loop, arrived, hist>>

\* entry.len and entry.conn_handle.
HostWriteMeta ==
    /\ host.pc = "meta"
    /\ rx_queue' = [rx_queue EXCEPT ![host.slot].meta = host.pkt]
    /\ host' = [host EXCEPT !.pc = "publish"]
    /\ UNCHANGED <<rx_head, rx_tail, loop, arrived, hist>>

\* The release store of _rx_head.
HostPublish ==
    /\ host.pc = "publish"
    /\ rx_head' = host.next
    /\ accepted' = Append(accepted, host.pkt)
    /\ host' = [host EXCEPT !.pc = "idle"]
    /\ UNCHANGED <<rx_queue, rx_tail, loop, arrived, handled, dropped>>

Host ==
    \/ \E via \in {"onWrite", "notify"} : HostLoad(via)
    \/ HostAdmit \/ HostRefuse
    \/ HostWriteData \/ HostWriteMeta \/ HostPublish

-----------------------------------------------------------------------------
(* Loop task: BitchatBLE::loop draining the ring                            *)

\* Mutant of LoopTake: the positions are compared with < instead of #.
LoopTakeBelow ==
    /\ loop.pc = "poll"
    /\ rx_tail < rx_head
    /\ loop' = [loop EXCEPT !.pc = "process", !.tail = rx_tail,
                            !.entry.meta = rx_queue[rx_tail].meta]
    /\ UNCHANGED <<rx_queue, rx_head, rx_tail, host, arrived, hist>>

\* The while condition holds; take the entry's length and handle.
LoopTake ==
    /\ loop.pc = "poll"
    /\ rx_tail # rx_head
    /\ loop' = [loop EXCEPT !.pc = "process", !.tail = rx_tail,
                            !.entry.meta = rx_queue[rx_tail].meta]
    /\ UNCHANGED <<rx_queue, rx_head, rx_tail, host, arrived, hist>>

\* _process_incoming works on the entry in place; if the packet completes a
\* fragmented message, _handle_fragment goes on to put the result in the ring.
LoopProcess ==
    /\ loop.pc = "process"
    /\ LET data == rx_queue[loop.tail].data
       IN  loop' = [loop EXCEPT !.pc = IF data \in Completing THEN "frag_load"
                                                              ELSE "release",
                                !.entry.data = data]
    /\ UNCHANGED <<rx_queue, rx_head, rx_tail, host, arrived, hist>>

\* _handle_fragment: int next = (_rx_head + 1) % RX_QUEUE_SIZE.
LoopFragLoad ==
    /\ loop.pc = "frag_load"
    /\ loop' = [loop EXCEPT !.pc = "frag_check", !.next = NextSlot(rx_head)]
    /\ UNCHANGED <<rx_queue, rx_head, rx_tail, host, arrived, hist>>

\* Its length and full tests, passed: it loads _rx_head again for the entry.
LoopFragAdmit ==
    /\ loop.pc = "frag_check"
    /\ Reassembled(loop.entry.data) \notin Oversized
    /\ loop.next # rx_tail
    /\ loop' = [loop EXCEPT !.pc = "frag_data", !.slot = rx_head]
    /\ UNCHANGED <<rx_queue, rx_head, rx_tail, host, arrived, hist>>

\* Either failed: the reassembled packet is gone.
LoopFragRefuse ==
    /\ loop.pc = "frag_check"
    /\ Reassembled(loop.entry.data) \in Oversized \/ loop.next = rx_tail
    /\ loop' = [loop EXCEPT !.pc = "release"]
    /\ dropped' = dropped \cup {Reassembled(loop.entry.data)}
    /\ UNCHANGED <<rx_queue, rx_head, rx_tail, host, arrived, accepted, handled>>

LoopFragWriteData ==
    /\ loop.pc = "frag_data"
    /\ rx_queue' = [rx_queue EXCEPT ![loop.slot].data = Reassembled(loop.entry.data)]
    /\ loop' = [loop EXCEPT !.pc = "frag_meta"]
    /\ UNCHANGED <<rx_head, rx_tail, host, arrived, hist>>

LoopFragWriteMeta ==
    /\ loop.pc = "frag_meta"
    /\ rx_queue' = [rx_queue EXCEPT ![loop.slot].meta = Reassembled(loop.entry.data)]
    /\ loop' = [loop EXCEPT !.pc = "frag_publish"]
    /\ UNCHANGED <<rx_head, rx_tail, host, arrived, hist>>

LoopFragPublish ==
    /\ loop.pc = "frag_publish"
    /\ rx_head' = loop.next
    /\ accepted' = Append(accepted, Reassembled(loop.entry.data))
    /\ loop' = [loop EXCEPT !.pc = "release"]
    /\ UNCHANGED <<rx_queue, rx_tail, host, arrived, handled, dropped>>

\* The release store of _rx_tail.
LoopRelease ==
    /\ loop.pc = "release"
    /\ rx_tail' = NextSlot(loop.tail)
    /\ handled' = Append(handled, loop.entry)
    /\ loop' = [loop EXCEPT !.pc = "poll"]
    /\ UNCHANGED <<rx_queue, rx_head, host, arrived, accepted, dropped>>

Loop ==
    \/ LoopTake \/ LoopProcess
    \/ LoopFragLoad \/ LoopFragAdmit \/ LoopFragRefuse
    \/ LoopFragWriteData \/ LoopFragWriteMeta \/ LoopFragPublish
    \/ LoopRelease

Next == Host \/ Loop

\* The loop task is scheduled for ever (main.cpp calls bridge.loop() in the
\* Arduino loop) and a callback that has started runs to its end; nothing
\* obliges the radio to deliver another packet.
Fairness ==
    /\ WF_vars(Loop)
    /\ WF_vars(HostAdmit \/ HostRefuse \/ HostWriteData \/ HostWriteMeta \/ HostPublish)

Spec == Init /\ [][Next]_vars /\ Fairness

-----------------------------------------------------------------------------
(* Properties                                                               *)

HostPcs == {"idle", "check", "data", "meta", "publish"}
LoopPcs == {"poll", "process", "frag_load", "frag_check", "frag_data",
            "frag_meta", "frag_publish", "release"}

Contents == Packets \cup {NoPacket}

Entries == [data : Contents, meta : Contents]

\* Every variable keeps its type; in particular both positions stay inside the
\* array, so no access of either task is out of bounds.
TypeOK ==
    /\ rx_queue \in [Slots -> Entries]
    /\ rx_head \in Slots
    /\ rx_tail \in Slots
    /\ host \in [pc : HostPcs, via : {"onWrite", "notify"},
                 pkt : Arrivals \cup {NoPacket}, slot : Slots, next : Slots]
    /\ loop \in [pc : LoopPcs, tail : Slots, entry : Entries,
                 slot : Slots, next : Slots]
    /\ arrived \in 0 .. MaxArrivals
    /\ accepted \in Seq(Packets)
    /\ handled \in Seq(Entries)
    /\ dropped \subseteq Packets

\* The slot a callback is about to write.
HostTarget == IF host.pc = "data" /\ host.via = "notify" THEN rx_head ELSE host.slot

HostWriting == host.pc \in {"data", "meta"}

LoopHolds == loop.pc # "poll"

\* While the loop task works on an entry in place (_rx_buf points into the
\* ring until _rx_tail is stored), no callback writes that entry.
EntryNotOverwritten == HostWriting /\ LoopHolds => HostTarget # loop.tail

\* Number of published entries that the loop task has not released.
Pending == IF rx_head >= rx_tail THEN rx_head - rx_tail
                                 ELSE rx_head + RX_QUEUE_SIZE - rx_tail

\* Every entry is handled whole (length, handle and payload of one packet),
\* in the order of publication, none twice and none skipped.
HandledInOrder ==
    /\ Len(handled) <= Len(accepted)
    /\ \A i \in 1 .. Len(handled) :
          handled[i] = [data |-> accepted[i], meta |-> accepted[i]]

\* The bounded FIFO the ring implements: the published, unreleased entries.
Waiting == [i \in 1 .. Pending |-> rx_queue[(rx_tail + i - 1) % RX_QUEUE_SIZE].data]

Fifo == INSTANCE PacketFifo WITH
            Capacity <- RX_QUEUE_SIZE - 1,
            queue    <- Waiting,
            handled  <- [i \in 1 .. Len(handled) |-> handled[i].data]

\* The ring implements the bounded FIFO queue: a packet is refused only when
\* it does not fit or RX_QUEUE_SIZE - 1 packets wait, and everything accepted
\* is handled in order, in the end.
ImplementsFifo == Fifo!Spec

\* Every packet a callback publishes is processed by the loop task in the end.
AcceptedIsHandled ==
    \A p \in Packets :
        (\E i \in DOMAIN accepted : accepted[i] = p)
            ~> (\E i \in DOMAIN handled : handled[i].data = p)
=============================================================================
