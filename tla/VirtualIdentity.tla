--------------------------- MODULE VirtualIdentity ---------------------------
(***************************************************************************)
(* VirtualIdentityRegistry: the derived Bitchat identities that speak for   *)
(* Meshtastic users, as operators on the registry's vector.  An identity is *)
(* [node, seen, name]; seen is a millis() value, so it wraps at CLOCK_MOD,  *)
(* and name is "" until the bridge sets it.  The keypair is a function of   *)
(* the node (HKDF from the master key) and is not part of the state.        *)
(*                                                                          *)
(* The registry reads the free heap but never gives heap back: erase() on   *)
(* a vector keeps its storage.  The heap is therefore an input.             *)
(***************************************************************************)
EXTENDS Picks

CONSTANTS
    CLOCK_MOD,               \* millis() counts modulo this (2^32)
    VIRT_ID_MAX_SLOTS,       \* absolute limit on identities
    VIRT_ID_TIMEOUT,         \* idle time after which an identity is stale
    VIRT_ID_HEAP_RESERVE,    \* no identity is created at or below this heap
    VIRT_ID_HEAP_CRITICAL    \* identities are shed below this heap

ASSUME RegistryAssumption ==
    /\ CLOCK_MOD \in Nat \ {0}
    /\ VIRT_ID_MAX_SLOTS \in Nat \ {0}
    /\ VIRT_ID_TIMEOUT \in Nat
    /\ VIRT_ID_HEAP_RESERVE \in Nat
    /\ VIRT_ID_HEAP_CRITICAL \in Nat

\* (uint32_t)(now - then): time since a millis() value.
Since(then, now) == (now + CLOCK_MOD - then) % CLOCK_MOD

Nodes(ids) == {ids[i].node : i \in DOMAIN ids}

\* Mutant of Find: the search starts at the second identity.
FindAfterFirst(ids, node) == {i \in DOMAIN ids : ids[i].node = node /\ i > 1}

Find(ids, node) == {i \in DOMAIN ids : ids[i].node = node}

\* Mutant of CanGrow: the vector may grow one past its limit.
CanGrowPast(ids, heap) ==
    Len(ids) <= VIRT_ID_MAX_SLOTS /\ heap > VIRT_ID_HEAP_RESERVE

CanGrow(ids, heap) ==
    Len(ids) < VIRT_ID_MAX_SLOTS /\ heap > VIRT_ID_HEAP_RESERVE

Stale(ids, now) == {i \in DOMAIN ids : Since(ids[i].seen, now) > VIRT_ID_TIMEOUT}

\* Mutant of EvictedBefore: the most recently seen identity goes first.
EvictedAfter(ids, i, j) ==
    ids[i].seen > ids[j].seen \/ (ids[i].seen = ids[j].seen /\ i < j)

\* The order of eviction: smaller last_seen_ms first, then vector order.  The
\* comparison is of raw millis() values.
EvictedBefore(ids, i, j) ==
    ids[i].seen < ids[j].seen \/ (ids[i].seen = ids[j].seen /\ i < j)

\* _evict_lru: the identity that it removes from a vector, and the rest.
Lru(ids) ==
    CHOOSE i \in DOMAIN ids : \A j \in DOMAIN ids \ {i} : EvictedBefore(ids, i, j)

EvictLru(ids) == Only(ids, DOMAIN ids \ {Lru(ids)})

\* The room-making part of get_or_create: what is left of the vector and the
\* identities removed from it, in the order of their farewells.  Stale ones go
\* first (_expire_stale), then one more if that was not enough.
MakeRoom(ids, heap, now) ==
    LET stale == Stale(ids, now)
        fresh == Only(ids, DOMAIN ids \ stale)
    IN  CASE CanGrow(ids, heap) -> [ids |-> ids, evicted |-> <<>>]
          [] ~CanGrow(ids, heap) /\ (CanGrow(fresh, heap) \/ fresh = <<>>) ->
               [ids |-> fresh, evicted |-> Only(ids, stale)]
          [] OTHER -> [ids     |-> EvictLru(fresh),
                       evicted |-> Append(Only(ids, stale), fresh[Lru(fresh)])]

\* get_or_create: the vector afterwards, who was evicted, and the index of the
\* identity returned (0 for nullptr).  derives is the outcome of
\* bitchat_derive_keypair.
GetOrCreate(ids, node, heap, now, derives) ==
    LET room == MakeRoom(ids, heap, now)
        new  == [node |-> node, seen |-> now, name |-> ""]
    IN  CASE Find(ids, node) # {} ->
               LET i == CHOOSE i \in Find(ids, node) : TRUE
               IN  [ids |-> [ids EXCEPT ![i].seen = now], evicted |-> <<>>, at |-> i]
          [] Find(ids, node) = {} /\ CanGrow(room.ids, heap) /\ derives ->
               [ids |-> Append(room.ids, new), evicted |-> room.evicted,
                at |-> Len(room.ids) + 1]
          [] OTHER -> [ids |-> room.ids, evicted |-> room.evicted, at |-> 0]
=============================================================================
