---------------------------- MODULE RxRingProofs ----------------------------
(***************************************************************************)
(* Proofs about RxRing for every ring size, every number of arrivals and    *)
(* every choice of oversized packets, as long as the callbacks are the only *)
(* producers: every message that _handle_fragment completes is too long to  *)
(* be put back into the ring (in particular, if there is none).             *)
(***************************************************************************)
EXTENDS RxRing, TLAPS

\* _handle_fragment never gets past its length test: SPSC holds.
SingleProducer == \A p \in Completing : Reassembled(p) \in Oversized

-----------------------------------------------------------------------------
(* The inductive invariant                                                  *)

\* How many published entries are ahead of slot s in the ring.
Age(s) == IF s >= rx_tail THEN s - rx_tail ELSE s + RX_QUEUE_SIZE - rx_tail

Whole(p) == [data |-> p, meta |-> p]

\* Between LoopTake and LoopRelease the loop task holds the oldest entry.
LoopInv ==
    /\ loop.pc \in {"poll", "process", "frag_load", "frag_check", "release"}
    /\ loop.pc # "poll" => loop.tail = rx_tail /\ rx_tail # rx_head
    /\ loop.pc \in {"frag_load", "frag_check"} => loop.entry.data \in Completing
    /\ loop.pc = "process" => loop.entry.meta = accepted[Len(handled) + 1]
    /\ loop.pc \in {"frag_load", "frag_check", "release"}
          => loop.entry = Whole(accepted[Len(handled) + 1])

\* A callback in progress still has the current head in its locals and, once
\* admitted, a free slot after it; what it has written so far is in place.
HostInv ==
    /\ host.pc # "idle" => /\ host.slot = rx_head
                           /\ host.next = NextSlot(rx_head)
                           /\ host.pkt \in Arrivals
    /\ host.pc \in {"data", "meta", "publish"} => /\ host.next # rx_tail
                                                 /\ host.pkt \notin Oversized
    /\ host.pc \in {"meta", "publish"} => rx_queue[rx_head].data = host.pkt
    /\ host.pc = "publish" => rx_queue[rx_head].meta = host.pkt

\* The entries between the tail and the head are the accepted packets that
\* have not been handled, oldest first.
RingInv ==
    /\ Len(accepted) = Len(handled) + Pending
    /\ \A s \in Slots : Age(s) < Pending
          => rx_queue[s] = Whole(accepted[Len(handled) + Age(s) + 1])

IInv == TypeOK /\ LoopInv /\ HostInv /\ RingInv /\ HandledInOrder

-----------------------------------------------------------------------------

\* (i + 1) % RX_QUEUE_SIZE steps through the slots and wraps at the last one.
LEMMA NextSlotWraps ==
    \A i \in Slots : /\ NextSlot(i) \in Slots
                     /\ NextSlot(i) = IF i + 1 = RX_QUEUE_SIZE THEN 0 ELSE i + 1
BY RingAssumption DEF NextSlot, Slots

\* Two slots do not have the same successor.
LEMMA NextSlotInjective ==
    \A i, j \in Slots : NextSlot(i) = NextSlot(j) => i = j
BY NextSlotWraps DEF Slots

\* The ring starts empty and consistent.
LEMMA InitIInv == Init => IInv
<1> SUFFICES ASSUME Init PROVE IInv
  OBVIOUS
<1> USE RingAssumption DEF Init
<1>1. TypeOK
  BY DEF TypeOK, Slots, Entries, Contents, EmptyEntry, HostPcs, LoopPcs
<1>2. LoopInv /\ HostInv
  BY DEF LoopInv, HostInv
<1>3. RingInv
  BY DEF RingInv, Pending, Age, Slots
<1>4. HandledInOrder
  BY DEF HandledInOrder
<1>5. QED
  BY <1>1, <1>2, <1>3, <1>4 DEF IInv

\* The distances in the ring: Pending is the age of the head, the oldest entry
\* has age 0, and the ages of the slots differ.
LEMMA Ages ==
    ASSUME TypeOK
    PROVE  /\ Pending \in 0 .. RX_QUEUE_SIZE - 1
           /\ Pending = Age(rx_head)
           /\ Pending = 0 <=> rx_head = rx_tail
           /\ Age(rx_tail) = 0
           /\ \A s \in Slots : Age(s) \in 0 .. RX_QUEUE_SIZE - 1
BY RingAssumption DEF TypeOK, Pending, Age, Slots

\* If the ring is not empty, its tail holds the first packet not yet handled.
LEMMA OldestEntry ==
    ASSUME TypeOK, RingInv, rx_tail # rx_head
    PROVE  rx_queue[rx_tail] = Whole(accepted[Len(handled) + 1])
<1>1. rx_tail \in Slots /\ Age(rx_tail) = 0 /\ 0 < Pending
  BY Ages DEF TypeOK
<1>2. Len(handled) + 0 + 1 = Len(handled) + 1
  BY DEF TypeOK
<1>3. QED
  BY <1>1, <1>2 DEF RingInv

\* If the slot after the head is not the tail, publishing adds one entry.
LEMMA HeadAdvances ==
    ASSUME TypeOK, rx_tail' = rx_tail,
           rx_head' = NextSlot(rx_head), NextSlot(rx_head) # rx_tail
    PROVE  /\ Pending' = Pending + 1
           /\ \A s \in Slots : /\ Age(s)' = Age(s)
                               /\ Age(s) < Pending' => s = rx_head \/ Age(s) < Pending
<1>1. /\ rx_head \in 0 .. RX_QUEUE_SIZE - 1 /\ rx_tail \in 0 .. RX_QUEUE_SIZE - 1
      /\ rx_head' = IF rx_head + 1 = RX_QUEUE_SIZE THEN 0 ELSE rx_head + 1
      /\ rx_head' # rx_tail
  BY NextSlotWraps DEF TypeOK, Slots
<1>2. Pending' = Pending + 1
  BY <1>1, RingAssumption DEF Pending
<1>3. ASSUME NEW s \in Slots
      PROVE  Age(s)' = Age(s) /\ (Age(s) < Pending' => s = rx_head \/ Age(s) < Pending)
  BY <1>1, <1>2, RingAssumption DEF Pending, Age, Slots
<1>4. QED
  BY <1>2, <1>3

\* If the ring is not empty, releasing the tail removes the oldest entry.
LEMMA TailAdvances ==
    ASSUME TypeOK, rx_head' = rx_head,
           rx_tail' = NextSlot(rx_tail), rx_tail # rx_head
    PROVE  /\ Pending' = Pending - 1
           /\ \A s \in Slots : Age(s)' < Pending' => /\ Age(s)' \in Nat
                                                     /\ Age(s) = Age(s)' + 1
                                                     /\ Age(s) < Pending
<1>1. /\ rx_head \in 0 .. RX_QUEUE_SIZE - 1 /\ rx_tail \in 0 .. RX_QUEUE_SIZE - 1
      /\ rx_tail' = IF rx_tail + 1 = RX_QUEUE_SIZE THEN 0 ELSE rx_tail + 1
      /\ rx_tail # rx_head
  BY NextSlotWraps DEF TypeOK, Slots
<1>2. Pending' = Pending - 1
  BY <1>1, RingAssumption DEF Pending
<1>3. ASSUME NEW s \in Slots, Age(s)' < Pending'
      PROVE  Age(s)' \in Nat /\ Age(s) = Age(s)' + 1 /\ Age(s) < Pending
  BY <1>1, <1>2, <1>3, RingAssumption DEF Pending, Age, Slots
<1>4. QED
  BY <1>2, <1>3

\* An arrival is a packet, and so is what _handle_fragment makes of one.
LEMMA PacketKinds ==
    /\ Arrivals \subseteq Packets
    /\ \A p \in Completing : Reassembled(p) \in Packets
BY DEF Packets

\* Every step of either task preserves the invariant.
LEMMA NextIInv ==
    ASSUME SingleProducer, IInv, [Next]_vars
    PROVE  IInv'
<1> USE RingAssumption, NextSlotWraps, PacketKinds
<1> USE DEF IInv
<1>1. ASSUME NEW via \in {"onWrite", "notify"}, HostLoad(via)
      PROVE  IInv'
  <2> USE <1>1 DEF HostLoad, hist
  <2>1. TypeOK'
    <3>1. NextSlot(rx_head) \in Slots /\ rx_head \in Slots
      BY DEF TypeOK, Slots
    <3>2. arrived' \in 0 .. MaxArrivals /\ arrived + 1 \in Arrivals
      BY DEF TypeOK, Arrivals
    <3>3. host' \in [pc : HostPcs, via : {"onWrite", "notify"},
                     pkt : Arrivals \cup {NoPacket}, slot : Slots, next : Slots]
      BY <3>1, <3>2 DEF HostPcs
    <3>4. QED
      BY <3>2, <3>3 DEF TypeOK
  <2>2. LoopInv'
    BY DEF TypeOK, LoopInv, HostInv, RingInv, Pending, Age, Whole, Slots, Entries
  <2>3. HostInv'
    BY DEF TypeOK, HostInv, Slots, Arrivals
  <2>4. RingInv'
    BY DEF TypeOK, LoopInv, HostInv, RingInv, Pending, Age, Whole, Slots, Entries
  <2>5. HandledInOrder'
    BY DEF TypeOK, LoopInv, RingInv, HandledInOrder, Pending, Whole, Slots
  <2>6. QED
    BY <2>1, <2>2, <2>3, <2>4, <2>5
<1>2. CASE HostAdmit
  <2> USE <1>2 DEF HostAdmit, hist
  <2>1. TypeOK'
    BY DEF TypeOK, Slots, Entries, Contents, HostPcs, LoopPcs
  <2>2. LoopInv'
    BY DEF TypeOK, LoopInv, HostInv, RingInv, Pending, Age, Whole, Slots, Entries
  <2>3. HostInv'
    BY DEF TypeOK, LoopInv, HostInv, Slots, Entries
  <2>4. RingInv'
    BY DEF TypeOK, LoopInv, HostInv, RingInv, Pending, Age, Whole, Slots, Entries
  <2>5. HandledInOrder'
    BY DEF TypeOK, LoopInv, RingInv, HandledInOrder, Pending, Whole, Slots
  <2>6. QED
    BY <2>1, <2>2, <2>3, <2>4, <2>5
<1>3. CASE HostRefuse
  <2> USE <1>3 DEF HostRefuse, hist
  <2>1. TypeOK'
    <3>1. dropped' \subseteq Packets
      BY DEF TypeOK, HostInv
    <3>2. QED
      BY <3>1 DEF TypeOK, HostPcs
  <2>2. LoopInv'
    BY DEF TypeOK, LoopInv, HostInv, RingInv, Pending, Age, Whole, Slots, Entries
  <2>3. HostInv'
    BY DEF TypeOK, LoopInv, HostInv, Slots, Entries
  <2>4. RingInv'
    BY DEF TypeOK, LoopInv, HostInv, RingInv, Pending, Age, Whole, Slots, Entries
  <2>5. HandledInOrder'
    BY DEF TypeOK, LoopInv, RingInv, HandledInOrder, Pending, Whole, Slots
  <2>6. QED
    BY <2>1, <2>2, <2>3, <2>4, <2>5
<1>4. CASE HostWriteData
  <2> USE <1>4 DEF HostWriteData, hist
  <2>0. /\ rx_queue' = [rx_queue EXCEPT ![rx_head].data = host.pkt]
        /\ host' = [host EXCEPT !.pc = "meta", !.slot = rx_head]
    BY DEF HostInv
  <2>1. TypeOK'
    <3>1. rx_queue' \in [Slots -> Entries]
      BY <2>0 DEF TypeOK, HostInv, Entries, Contents
    <3>2. QED
      BY <3>1, <2>0 DEF TypeOK, HostPcs
  <2>2. LoopInv'
    BY <2>0, Ages DEF TypeOK, LoopInv, HostInv, Whole
  <2>3. HostInv'
    BY <2>0 DEF TypeOK, HostInv, Entries
  <2>4. RingInv'
    <3>1. Pending' = Pending /\ \A s \in Slots : Age(s)' = Age(s)
      BY DEF Pending, Age
    <3>2. \A s \in Slots : Age(s) < Pending => rx_queue'[s] = rx_queue[s]
      BY <2>0, Ages DEF TypeOK
    <3>3. QED
      BY <3>1, <3>2 DEF RingInv
  <2>5. HandledInOrder'
    BY DEF TypeOK, LoopInv, RingInv, HandledInOrder, Pending, Whole, Slots
  <2>6. QED
    BY <2>1, <2>2, <2>3, <2>4, <2>5
<1>5. CASE HostWriteMeta
  <2> USE <1>5 DEF HostWriteMeta, hist
  <2>0. /\ rx_queue' = [rx_queue EXCEPT ![rx_head].meta = host.pkt]
        /\ host' = [host EXCEPT !.pc = "publish"]
    BY DEF HostInv
  <2>1. TypeOK'
    <3>1. rx_queue' \in [Slots -> Entries]
      BY <2>0 DEF TypeOK, HostInv, Entries, Contents
    <3>2. QED
      BY <3>1, <2>0 DEF TypeOK, HostPcs
  <2>2. LoopInv'
    BY <2>0, Ages DEF TypeOK, LoopInv, HostInv, Whole
  <2>3. HostInv'
    BY <2>0 DEF TypeOK, HostInv, Entries
  <2>4. RingInv'
    <3>1. Pending' = Pending /\ \A s \in Slots : Age(s)' = Age(s)
      BY DEF Pending, Age
    <3>2. \A s \in Slots : Age(s) < Pending => rx_queue'[s] = rx_queue[s]
      BY <2>0, Ages DEF TypeOK
    <3>3. QED
      BY <3>1, <3>2 DEF RingInv
  <2>5. HandledInOrder'
    BY DEF TypeOK, LoopInv, RingInv, HandledInOrder, Pending, Whole, Slots
  <2>6. QED
    BY <2>1, <2>2, <2>3, <2>4, <2>5
<1>6. CASE HostPublish
  <2> USE <1>6 DEF HostPublish
  <2>0. rx_head' = NextSlot(rx_head) /\ NextSlot(rx_head) # rx_tail /\ rx_tail' = rx_tail
    BY DEF HostInv
  <2>a. /\ Len(accepted') = Len(accepted) + 1
        /\ accepted'[Len(accepted) + 1] = host.pkt
        /\ \A k \in 1 .. Len(accepted) : accepted'[k] = accepted[k]
    BY DEF TypeOK, HostInv
  <2>b. /\ Len(handled) \in Nat /\ Pending \in Nat /\ Pending' = Pending + 1
        /\ Len(accepted) = Len(handled) + Pending
    BY <2>0, Ages, HeadAdvances DEF TypeOK, RingInv
  <2>1. TypeOK'
    <3>1. accepted' \in Seq(Packets)
      BY DEF TypeOK, HostInv
    <3>2. rx_head' \in Slots
      BY <2>0 DEF TypeOK
    <3>3. QED
      BY <3>1, <3>2 DEF TypeOK, HostPcs
  <2>2. LoopInv'
    <3>1. CASE loop.pc = "poll"
      BY <3>1 DEF LoopInv
    <3>2. CASE loop.pc # "poll"
      <4>1. rx_tail' # rx_head'
        BY <2>0
      <4>2. Len(handled) + 1 \in 1 .. Len(accepted)
        BY <3>2, <2>b, Ages DEF LoopInv
      <4>3. QED
        BY <3>2, <4>1, <4>2, <2>a DEF LoopInv
    <3>3. QED
      BY <3>1, <3>2
  <2>3. HostInv'
    BY DEF TypeOK, HostInv
  <2>4. RingInv'
    <3>1. ASSUME NEW s \in Slots, Age(s)' < Pending'
          PROVE  rx_queue'[s] = Whole(accepted'[Len(handled) + Age(s)' + 1])
      <4>1. Age(s)' = Age(s) /\ (s = rx_head \/ Age(s) < Pending) /\ Age(s) \in Nat
        BY <2>0, <3>1, HeadAdvances, Ages
      <4>2. CASE s = rx_head
        <5>1. Age(s) = Pending
          BY <4>2, Ages
        <5>2. rx_queue[s] = Whole(host.pkt)
          BY <4>2 DEF TypeOK, HostInv, Entries, Whole
        <5>3. QED
          BY <4>1, <5>1, <5>2, <2>a, <2>b
      <4>3. CASE Age(s) < Pending
        <5>1. Len(handled) + Age(s) + 1 \in 1 .. Len(accepted)
          BY <4>1, <4>3, <2>b
        <5>2. QED
          BY <4>1, <4>3, <5>1, <2>a DEF RingInv
      <4>4. QED
        BY <4>1, <4>2, <4>3
    <3>2. Len(accepted') = Len(handled') + Pending'
      BY <2>a, <2>b
    <3>3. handled' = handled
      OBVIOUS
    <3>4. QED
      BY ONLY <3>1, <3>2, <3>3 DEF RingInv
  <2>5. HandledInOrder'
    BY <2>a, <2>b DEF HandledInOrder
  <2>6. QED
    BY <2>1, <2>2, <2>3, <2>4, <2>5
<1>7. CASE LoopTake
  <2> USE <1>7 DEF LoopTake, hist
  <2>1. TypeOK'
    BY DEF TypeOK, Slots, Entries, Contents, HostPcs, LoopPcs
  <2>2. LoopInv'
    <3>1. rx_queue[rx_tail] = Whole(accepted[Len(handled) + 1])
      BY OldestEntry
    <3>2. QED
      BY <3>1 DEF TypeOK, Entries, LoopInv, Whole
  <2>3. HostInv'
    BY DEF TypeOK, LoopInv, HostInv, Slots, Entries
  <2>4. RingInv'
    BY DEF TypeOK, LoopInv, HostInv, RingInv, Pending, Age, Whole, Slots, Entries
  <2>5. HandledInOrder'
    BY DEF TypeOK, LoopInv, RingInv, HandledInOrder, Pending, Whole, Slots
  <2>6. QED
    BY <2>1, <2>2, <2>3, <2>4, <2>5
<1>8. CASE LoopProcess
  <2> USE <1>8 DEF LoopProcess, hist
  <2>1. TypeOK'
    BY DEF TypeOK, Slots, Entries, Contents, HostPcs, LoopPcs
  <2>2. LoopInv'
    <3>0. rx_tail # rx_head /\ loop.tail = rx_tail
      BY DEF LoopInv
    <3>1. rx_queue[rx_tail] = Whole(accepted[Len(handled) + 1])
      BY <3>0, OldestEntry
    <3>2. QED
      BY <3>0, <3>1 DEF TypeOK, Entries, LoopInv, Whole
  <2>3. HostInv'
    BY DEF TypeOK, LoopInv, HostInv, Slots, Entries
  <2>4. RingInv'
    BY DEF TypeOK, LoopInv, HostInv, RingInv, Pending, Age, Whole, Slots, Entries
  <2>5. HandledInOrder'
    BY DEF TypeOK, LoopInv, RingInv, HandledInOrder, Pending, Whole, Slots
  <2>6. QED
    BY <2>1, <2>2, <2>3, <2>4, <2>5
<1>9. CASE LoopFragLoad
  <2> USE <1>9 DEF LoopFragLoad, hist
  <2>1. TypeOK'
    BY DEF TypeOK, Slots, Entries, Contents, HostPcs, LoopPcs
  <2>2. LoopInv'
    BY DEF TypeOK, LoopInv, HostInv, RingInv, Pending, Age, Whole, Slots, Entries
  <2>3. HostInv'
    BY DEF TypeOK, LoopInv, HostInv, Slots, Entries
  <2>4. RingInv'
    BY DEF TypeOK, LoopInv, HostInv, RingInv, Pending, Age, Whole, Slots, Entries
  <2>5. HandledInOrder'
    BY DEF TypeOK, LoopInv, RingInv, HandledInOrder, Pending, Whole, Slots
  <2>6. QED
    BY <2>1, <2>2, <2>3, <2>4, <2>5
<1>10. CASE LoopFragRefuse
  <2> USE <1>10 DEF LoopFragRefuse, hist
  <2>1. TypeOK'
    <3>1. dropped' \subseteq Packets
      BY DEF TypeOK, LoopInv
    <3>2. QED
      BY <3>1 DEF TypeOK, LoopPcs
  <2>2. LoopInv'
    BY DEF TypeOK, LoopInv, HostInv, RingInv, Pending, Age, Whole, Slots, Entries
  <2>3. HostInv'
    BY DEF TypeOK, LoopInv, HostInv, Slots, Entries
  <2>4. RingInv'
    BY DEF TypeOK, LoopInv, HostInv, RingInv, Pending, Age, Whole, Slots, Entries
  <2>5. HandledInOrder'
    BY DEF TypeOK, LoopInv, RingInv, HandledInOrder, Pending, Whole, Slots
  <2>6. QED
    BY <2>1, <2>2, <2>3, <2>4, <2>5
<1>11. CASE LoopRelease
  <2> USE <1>11 DEF LoopRelease
  <2>0. rx_tail' = NextSlot(rx_tail) /\ rx_tail # rx_head /\ rx_head' = rx_head
    BY DEF LoopInv
  <2>a. /\ Len(handled') = Len(handled) + 1
        /\ handled'[Len(handled) + 1] = loop.entry
        /\ \A k \in 1 .. Len(handled) : handled'[k] = handled[k]
    BY DEF TypeOK
  <2>b. /\ Len(handled) \in Nat /\ Pending \in Nat /\ Pending > 0 /\ Pending' = Pending - 1
        /\ Len(accepted) = Len(handled) + Pending
    <3>1. Pending \in Nat /\ Pending > 0
      BY <2>0, Ages
    <3>2. Pending' = Pending - 1
      BY <2>0, TailAdvances
    <3>3. Len(handled) \in Nat
      BY DEF TypeOK
    <3>4. QED
      BY <3>1, <3>2, <3>3 DEF RingInv
  <2>1. TypeOK'
    BY <2>0 DEF TypeOK, LoopPcs
  <2>2. LoopInv'
    BY DEF TypeOK, LoopInv
  <2>3. HostInv'
    <3>1. host.pc \in {"data", "meta", "publish"} => host.next # rx_tail'
      <4>1. SUFFICES ASSUME host.pc \in {"data", "meta", "publish"}, NextSlot(rx_head) = NextSlot(rx_tail)
                     PROVE  FALSE
        BY <2>0 DEF HostInv
      <4>2. QED
        BY <4>1, <2>0, NextSlotInjective DEF TypeOK
    <3>2. QED
      BY <3>1 DEF HostInv
  <2>4. RingInv'
    <3>1. ASSUME NEW s \in Slots, Age(s)' < Pending'
          PROVE  rx_queue'[s] = Whole(accepted'[Len(handled') + Age(s)' + 1])
      <4>1. Age(s)' \in Nat /\ Age(s) = Age(s)' + 1 /\ Age(s) < Pending
        BY <2>0, <3>1, TailAdvances
      <4>2. Len(handled') + Age(s)' + 1 = Len(handled) + Age(s) + 1
        BY <4>1, <2>a, <2>b
      <4>3. QED
        BY <4>1, <4>2 DEF RingInv
    <3>2. QED
      BY <3>1, <2>a, <2>b DEF RingInv
  <2>5. HandledInOrder'
    BY <2>a, <2>b DEF HandledInOrder, LoopInv, Whole
  <2>6. QED
    BY <2>1, <2>2, <2>3, <2>4, <2>5
<1>12. CASE LoopFragAdmit \/ LoopFragWriteData \/ LoopFragWriteMeta \/ LoopFragPublish
  BY <1>12 DEF LoopInv, SingleProducer,
     LoopFragAdmit, LoopFragWriteData, LoopFragWriteMeta, LoopFragPublish
<1>13. CASE UNCHANGED vars
  BY <1>13 DEF vars, TypeOK, LoopInv, HostInv, RingInv, HandledInOrder, Pending, Age
<1>14. QED
  BY <1>1, <1>2, <1>3, <1>4, <1>5, <1>6, <1>7, <1>8, <1>9, <1>10, <1>11, <1>12, <1>13 DEF Next, Host, Loop

-----------------------------------------------------------------------------

\* IInv is an invariant of the ring when the callbacks are its only producers.
LEMMA RingCorrect == ASSUME SingleProducer PROVE Spec => []IInv
<1>1. IInv /\ [Next]_vars => IInv'
  BY NextIInv
<1>2. QED
  BY <1>1, InitIInv, PTL DEF Spec

\* Both positions of the ring, and every index a task holds, stay in range.
THEOREM RingTypeCorrect == ASSUME SingleProducer PROVE Spec => []TypeOK
<1>1. IInv => TypeOK
  BY DEF IInv
<1>2. QED
  BY <1>1, RingCorrect, PTL

\* No callback writes the entry that the loop task is processing in place.
THEOREM RingEntrySafe == ASSUME SingleProducer PROVE Spec => []EntryNotOverwritten
<1>1. IInv => EntryNotOverwritten
  BY DEF IInv, LoopInv, HostInv, EntryNotOverwritten, HostWriting, LoopHolds, HostTarget
<1>2. QED
  BY <1>1, RingCorrect, PTL

\* Every entry is handled whole and in the order of publication.
THEOREM RingInOrder == ASSUME SingleProducer PROVE Spec => []HandledInOrder
<1>1. IInv => HandledInOrder
  BY DEF IInv
<1>2. QED
  BY <1>1, RingCorrect, PTL

-----------------------------------------------------------------------------
(* The ring implements the bounded FIFO queue, step by step                 *)

FifoHandled == [i \in 1 .. Len(handled) |-> handled[i].data]

\* The slot at distance k from the tail has age k.
LEMMA AgeOfDistance ==
    ASSUME TypeOK, NEW k \in 0 .. RX_QUEUE_SIZE - 1
    PROVE  /\ (rx_tail + k) % RX_QUEUE_SIZE \in Slots
           /\ Age((rx_tail + k) % RX_QUEUE_SIZE) = k
<1>1. rx_tail \in 0 .. RX_QUEUE_SIZE - 1 /\ RX_QUEUE_SIZE \in Nat /\ RX_QUEUE_SIZE >= 2
  BY RingAssumption DEF TypeOK, Slots
<1>2. CASE rx_tail + k < RX_QUEUE_SIZE
  <2>1. (rx_tail + k) % RX_QUEUE_SIZE = rx_tail + k
    BY <1>1, <1>2
  <2>2. QED
    BY <1>1, <1>2, <2>1 DEF Age, Slots
<1>3. CASE rx_tail + k >= RX_QUEUE_SIZE
  <2>1. (rx_tail + k) % RX_QUEUE_SIZE = rx_tail + k - RX_QUEUE_SIZE
    BY <1>1, <1>3
  <2>2. QED
    BY <1>1, <1>3, <2>1 DEF Age, Slots
<1>4. QED
  BY <1>1, <1>2, <1>3

\* The packets waiting in the ring are those accepted and not yet handled.
LEMMA WaitingIsAccepted ==
    ASSUME IInv
    PROVE  Waiting = [i \in 1 .. Pending |-> accepted[Len(handled) + i]]
<1>1. ASSUME NEW i \in 1 .. Pending
      PROVE  rx_queue[(rx_tail + i - 1) % RX_QUEUE_SIZE].data = accepted[Len(handled) + i]
  <2>1. Pending \in 0 .. RX_QUEUE_SIZE - 1 /\ Len(handled) \in Nat /\ rx_tail \in Nat
    BY Ages DEF IInv, TypeOK, Slots
  <2>2. i - 1 \in 0 .. RX_QUEUE_SIZE - 1 /\ rx_tail + i - 1 = rx_tail + (i - 1)
        /\ i - 1 < Pending /\ Len(handled) + (i - 1) + 1 = Len(handled) + i
    BY <2>1, RingAssumption
  <2> DEFINE s == (rx_tail + (i - 1)) % RX_QUEUE_SIZE
  <2>3. s \in Slots /\ Age(s) = i - 1
    BY <2>2, AgeOfDistance DEF IInv
  <2> HIDE DEF s
  <2>4. rx_queue[s] = Whole(accepted[Len(handled) + i])
    BY <2>2, <2>3 DEF IInv, RingInv
  <2>5. QED
    BY <2>2, <2>4 DEF Whole, s
<1>2. QED
  BY <1>1 DEF Waiting

\* The values of the mapped variables: a sequence of Pending packets, and the
\* packets handled.
MappedValues ==
    /\ Waiting = [i \in 1 .. Pending |-> accepted[Len(handled) + i]]
    /\ Waiting \in Seq(Packets) /\ Len(Waiting) = Pending
    /\ Pending \in 0 .. RX_QUEUE_SIZE - 1
    /\ \A i \in 1 .. Pending : Waiting[i] = accepted[Len(handled) + i]
    /\ FifoHandled \in Seq(Packets) /\ Len(FifoHandled) = Len(handled)
    /\ \A i \in 1 .. Len(handled) : FifoHandled[i] = accepted[i]

\* The invariant gives the mapped variables these values.
LEMMA MappedTypes == IInv => MappedValues
<1> SUFFICES ASSUME IInv PROVE MappedValues
  OBVIOUS
<1>1. /\ Pending \in 0 .. RX_QUEUE_SIZE - 1 /\ Pending \in Nat
      /\ accepted \in Seq(Packets) /\ Len(handled) \in Nat
      /\ Len(accepted) = Len(handled) + Pending
  BY Ages, RingAssumption DEF IInv, TypeOK, RingInv
<1>2. Waiting = [i \in 1 .. Pending |-> accepted[Len(handled) + i]]
  BY WaitingIsAccepted
<1>3. \A i \in 1 .. Pending : accepted[Len(handled) + i] \in Packets
  BY <1>1
<1>4. Waiting \in [1 .. Pending -> Packets]
  BY <1>2, <1>3
<1>5. \A i \in 1 .. Len(handled) : handled[i].data = accepted[i] /\ accepted[i] \in Packets
  <2>1. ASSUME NEW i \in 1 .. Len(handled)
        PROVE  handled[i].data = accepted[i] /\ accepted[i] \in Packets
    <3>1. i \in 1 .. Len(accepted)
      BY <1>1
    <3>2. handled[i] = [data |-> accepted[i], meta |-> accepted[i]]
      BY DEF IInv, HandledInOrder
    <3>3. QED
      BY <1>1, <3>1, <3>2
  <2>2. QED
    BY <2>1
<1>6. FifoHandled \in [1 .. Len(handled) -> Packets]
  BY <1>5 DEF FifoHandled
<1>7. /\ Waiting \in Seq(Packets) /\ Len(Waiting) = Pending
      /\ FifoHandled \in Seq(Packets) /\ Len(FifoHandled) = Len(handled)
  BY <1>1, <1>4, <1>6
<1>8. QED
  BY <1>1, <1>2, <1>5, <1>7 DEF FifoHandled, MappedValues

\* Publishing an entry is Accept.
LEMMA PublishAccepts ==
    ASSUME IInv, IInv', HostPublish
    PROVE  Fifo!Accept(host.pkt) /\ host.pkt \in Packets
<1>0. MappedValues /\ MappedValues'
  <2>1. IInv' => MappedValues'
    BY MappedTypes, PTL
  <2>2. QED
    BY <2>1, MappedTypes
<1>1. /\ rx_head' = NextSlot(rx_head) /\ NextSlot(rx_head) # rx_tail /\ rx_tail' = rx_tail
      /\ host.pkt \notin Oversized /\ host.pkt \in Packets
      /\ handled' = handled /\ dropped' = dropped /\ accepted' = Append(accepted, host.pkt)
  BY PacketKinds DEF HostPublish, IInv, HostInv
<1>2. Pending' = Pending + 1
  BY <1>1, HeadAdvances DEF IInv
<1>3. /\ Len(Waiting) = Pending /\ Len(Waiting') = Pending + 1
      /\ Pending \in Nat /\ Pending < RX_QUEUE_SIZE - 1
      /\ Waiting \in Seq(Packets) /\ Waiting' \in Seq(Packets)
  BY <1>2, <1>0, RingAssumption DEF MappedValues
<1>4. \A i \in 1 .. Pending : Waiting'[i] = Waiting[i]
  <2>1. ASSUME NEW i \in 1 .. Pending
        PROVE  Waiting'[i] = Waiting[i]
    <3>0. Len(handled) \in Nat /\ Len(accepted) = Len(handled) + Pending
      BY DEF IInv, TypeOK, RingInv
    <3>1. Len(handled) + i \in 1 .. Len(accepted) /\ i \in 1 .. Pending'
      BY <3>0, <1>2, <1>3
    <3>2. Waiting'[i] = accepted'[Len(handled) + i]
      BY <1>1, <3>1, <1>0 DEF MappedValues
    <3>3. Waiting[i] = accepted[Len(handled) + i]
      BY <1>0 DEF MappedValues
    <3>4. QED
      BY <1>1, <3>1, <3>2, <3>3 DEF IInv, TypeOK
  <2>2. QED
    BY <2>1
<1>5. Waiting'[Pending + 1] = host.pkt
  <2>1. Pending + 1 \in 1 .. Pending'
    BY <1>2, <1>3
  <2>2. Waiting'[Pending + 1] = accepted'[Len(handled) + (Pending + 1)]
    BY <1>1, <2>1, <1>0 DEF MappedValues
  <2>3. Len(handled) + (Pending + 1) = Len(accepted) + 1
    BY <1>3 DEF IInv, TypeOK, RingInv
  <2>4. QED
    BY <1>1, <2>2, <2>3 DEF IInv, TypeOK
<1>6. Waiting' = Append(Waiting, host.pkt)
  BY <1>1, <1>3, <1>4, <1>5
<1>7. FifoHandled' = FifoHandled
  BY <1>1 DEF FifoHandled
<1>8. QED
  BY <1>1, <1>3, <1>6, <1>7 DEF Fifo!Accept, FifoHandled

\* Releasing an entry is Handle.
LEMMA ReleaseHandles ==
    ASSUME IInv, IInv', LoopRelease
    PROVE  Fifo!Handle
<1>0. MappedValues /\ MappedValues'
  <2>1. IInv' => MappedValues'
    BY MappedTypes, PTL
  <2>2. QED
    BY <2>1, MappedTypes
<1>1. /\ rx_tail' = NextSlot(rx_tail) /\ rx_tail # rx_head /\ rx_head' = rx_head
      /\ accepted' = accepted /\ dropped' = dropped
      /\ handled' = Append(handled, loop.entry)
  BY DEF LoopRelease, IInv, LoopInv
<1>2. Pending' = Pending - 1
  BY <1>1, TailAdvances DEF IInv
<1>3. /\ Len(Waiting) = Pending /\ Len(Waiting') = Pending - 1
      /\ Pending \in Nat /\ Pending > 0
      /\ Waiting \in Seq(Packets) /\ Waiting' \in Seq(Packets)
      /\ Len(handled) \in Nat /\ Len(handled') = Len(handled) + 1
  BY <1>1, <1>2, <1>0, Ages DEF IInv, TypeOK, MappedValues
<1>4. Waiting # <<>> /\ Head(Waiting) = accepted[Len(handled) + 1]
  <2>1. 1 \in 1 .. Pending
    BY <1>3
  <2>2. Waiting[1] = accepted[Len(handled) + 1]
    BY <2>1, <1>0 DEF MappedValues
  <2>3. QED
    BY <1>3, <2>2
<1>5. \A i \in 1 .. Pending - 1 : Waiting'[i] = Waiting[i + 1]
  <2>1. ASSUME NEW i \in 1 .. Pending - 1
        PROVE  Waiting'[i] = Waiting[i + 1]
    <3>1. i \in 1 .. Pending' /\ i + 1 \in 1 .. Pending
          /\ Len(handled') + i = Len(handled) + (i + 1)
      BY <1>2, <1>3
    <3>2. QED
      BY <1>1, <3>1, <1>0 DEF MappedValues
  <2>2. QED
    BY <2>1
<1>6. Waiting' = Tail(Waiting)
  BY <1>3, <1>4, <1>5
<1>7. FifoHandled' = Append(FifoHandled, Head(Waiting))
  <2>1. /\ FifoHandled \in Seq(Packets) /\ FifoHandled' \in Seq(Packets)
        /\ Len(FifoHandled) = Len(handled) /\ Len(FifoHandled') = Len(handled) + 1
        /\ \A i \in 1 .. Len(handled) : FifoHandled[i] = accepted[i]
        /\ \A i \in 1 .. Len(handled) + 1 : FifoHandled'[i] = accepted[i]
    BY <1>1, <1>3, <1>0 DEF MappedValues
  <2>2. QED
    BY <1>3, <1>4, <2>1
<1>8. QED
  BY <1>1, <1>4, <1>6, <1>7 DEF Fifo!Handle, FifoHandled

\* Refusing a packet is Drop: it is oversized, or as many wait as fit.
LEMMA RefuseDrops ==
    ASSUME SingleProducer, IInv, HostRefuse \/ LoopFragRefuse
    PROVE  \E p \in Packets : Fifo!Drop(p)
<1>1. Waiting' = Waiting /\ FifoHandled' = FifoHandled
  BY DEF HostRefuse, LoopFragRefuse, Waiting, Pending, FifoHandled
<1>2. CASE HostRefuse
  <2>1. /\ host.pkt \in Packets /\ dropped' = dropped \cup {host.pkt}
        /\ host.pkt \in Oversized \/ NextSlot(rx_head) = rx_tail
    BY <1>2, PacketKinds DEF HostRefuse, IInv, HostInv
  <2>2. NextSlot(rx_head) = rx_tail => Pending = RX_QUEUE_SIZE - 1
    <3>1. /\ rx_head \in 0 .. RX_QUEUE_SIZE - 1 /\ rx_tail \in 0 .. RX_QUEUE_SIZE - 1
          /\ NextSlot(rx_head) = IF rx_head + 1 = RX_QUEUE_SIZE THEN 0 ELSE rx_head + 1
      BY NextSlotWraps DEF IInv, TypeOK, Slots
    <3>2. QED
      BY <3>1, RingAssumption DEF Pending
  <2>3. Len(Waiting) = Pending
    BY MappedTypes DEF MappedValues
  <2>4. Fifo!Drop(host.pkt)
    BY <1>1, <2>1, <2>2, <2>3 DEF Fifo!Drop, FifoHandled
  <2>5. QED
    BY <2>1, <2>4
<1>3. CASE LoopFragRefuse
  <2> DEFINE p == Reassembled(loop.entry.data)
  <2>1. p \in Packets /\ p \in Oversized /\ dropped' = dropped \cup {p}
    BY <1>3, PacketKinds DEF LoopFragRefuse, IInv, LoopInv, SingleProducer
  <2> HIDE DEF p
  <2>2. Fifo!Drop(p)
    BY <1>1, <2>1 DEF Fifo!Drop, FifoHandled
  <2>3. QED
    BY <2>1, <2>2
<1>4. QED
  BY <1>2, <1>3

\* A step that publishes, releases and refuses nothing leaves the queue alone.
LEMMA OthersStutter ==
    ASSUME IInv, IInv', UNCHANGED <<rx_head, rx_tail, accepted, handled, dropped>>
    PROVE  UNCHANGED Fifo!vars
<1>0. MappedValues /\ MappedValues'
  <2>1. IInv' => MappedValues'
    BY MappedTypes, PTL
  <2>2. QED
    BY <2>1, MappedTypes
<1>1. Pending' = Pending
  BY DEF Pending
<1>2. Waiting' = Waiting
  BY <1>1, <1>0 DEF MappedValues
<1>3. QED
  BY <1>2 DEF Fifo!vars

\* With the callbacks as only producers the ring is a bounded FIFO queue: every
\* step of either task queues a packet, hands on the oldest one, refuses one
\* that is oversized or finds RX_QUEUE_SIZE - 1 waiting, or changes nothing.
THEOREM RingImplementsFifo ==
    ASSUME SingleProducer
    PROVE  Spec => Fifo!Init /\ [][Fifo!Next]_(Fifo!vars)
<1>1. Init => Fifo!Init
  BY RingAssumption DEF Init, Fifo!Init, Waiting, Pending
<1>2. IInv /\ IInv' /\ [Next]_vars => [Fifo!Next]_(Fifo!vars)
  <2> SUFFICES ASSUME IInv, IInv', [Next]_vars
               PROVE  Fifo!Next \/ UNCHANGED Fifo!vars
    OBVIOUS
  <2>1. CASE HostPublish
    BY <2>1, PublishAccepts DEF Fifo!Next
  <2>2. CASE LoopRelease
    BY <2>2, ReleaseHandles DEF Fifo!Next
  <2>3. CASE HostRefuse \/ LoopFragRefuse
    BY <2>3, RefuseDrops DEF Fifo!Next
  <2>4. CASE LoopFragAdmit \/ LoopFragPublish
    BY <2>4 DEF IInv, LoopInv, SingleProducer, LoopFragAdmit, LoopFragPublish
  <2>5. CASE UNCHANGED <<rx_head, rx_tail, accepted, handled, dropped>>
    BY <2>5, OthersStutter
  <2>6. QED
    BY <2>1, <2>2, <2>3, <2>4, <2>5
       DEF Next, Host, Loop, vars, hist, HostLoad, HostAdmit, HostWriteData,
           HostWriteMeta, LoopTake, LoopProcess, LoopFragLoad, LoopFragWriteData,
           LoopFragWriteMeta
<1>3. QED
  BY <1>1, <1>2, RingCorrect, PTL DEF Spec
=============================================================================
