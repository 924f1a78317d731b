----------------------------- MODULE PacketFifo -----------------------------
(***************************************************************************)
(* What the BLE receive path promises to the packet handlers, with no ring, *)
(* no indices and no tasks: a bounded first-in first-out queue.  A packet   *)
(* is queued once, or dropped because it does not fit a slot or because     *)
(* Capacity packets are still waiting; the loop task handles the queued     *)
(* packets one at a time, in the order they were queued.                    *)
(***************************************************************************)
EXTENDS Naturals, Sequences

CONSTANTS Packets,      \* everything that can be offered to the queue
          Oversized,    \* the packets that do not fit a queue entry
          Capacity      \* how many packets can wait

VARIABLES queue,        \* packets accepted and not yet handled
          handled,      \* packets handled, in order
          dropped       \* packets refused

vars == <<queue, handled, dropped>>

Init == queue = <<>> /\ handled = <<>> /\ dropped = {}

Accept(p) ==
    /\ p \notin Oversized
    /\ Len(queue) < Capacity
    /\ queue' = Append(queue, p)
    /\ UNCHANGED <<handled, dropped>>

Drop(p) ==
    /\ p \in Oversized \/ Len(queue) = Capacity
    /\ dropped' = dropped \cup {p}
    /\ UNCHANGED <<queue, handled>>

Handle ==
    /\ queue # <<>>
    /\ handled' = Append(handled, Head(queue))
    /\ queue' = Tail(queue)
    /\ UNCHANGED dropped

Next == Handle \/ \E p \in Packets : Accept(p) \/ Drop(p)

Spec == Init /\ [][Next]_vars /\ WF_vars(Handle)
=============================================================================
