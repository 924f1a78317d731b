---------------------------- MODULE BridgeProofs ----------------------------
(***************************************************************************)
(* Proofs about BridgeManager, with each of its two histories: its virtual  *)
(* identities (their registry, what phones are told of it, the announce     *)
(* cycle and the order of eviction), and its traffic (deduplication and the *)
(* chunk queue).                                                            *)
(***************************************************************************)
EXTENDS BridgeIdentities, BridgeTraffic, FiniteSetTheorems, WellFoundedInduction, TLAPS

-----------------------------------------------------------------------------
(* The inductive invariant of the identities                                *)

IdType == [node : MeshUsers, seen : 0 .. CLOCK_MOD - 1, name : MeshNames]

\* The types in full, and the bound on time.
StateType ==
    /\ identities \in Seq(IdType)
    /\ announce \in [idx : Int, cycle : Nat, step : Nat]
    /\ pending = [chunks |-> pending.chunks, next |-> pending.next, at |-> pending.at]
    /\ time <= MaxTime
    /\ heard \in [MeshUsers -> Nat]
    /\ \A u \in MeshUsers : heard[u] <= time
    /\ overtaken \in Nat

\* The users up to a position of a vector, and those beyond it.
UpTo(ids, at)   == {ids[i].node : i \in {j \in DOMAIN ids : j <= at}}
Beyond(ids, at) == {ids[i].node : i \in {j \in DOMAIN ids : j > at}}

\* Those still due stand after the cycle's position, but for as many as were
\* evicted from before it.
DueAhead ==
    /\ IsFiniteSet(due)
    /\ announce.idx >= 0 =>
           Cardinality(due \ Beyond(identities, announce.idx)) <= overtaken

\* Until the counter wraps, an identity was last seen when its user was last heard.
SeenIsHeard ==
    MaxTime < CLOCK_MOD =>
        \A i \in DOMAIN identities : identities[i].seen = heard[identities[i].node]

IInv ==
    TypeOK /\ StateType /\ OneIdentityPerUser /\ PeersSeeRegistry /\ DueAhead /\ SeenIsHeard
-----------------------------------------------------------------------------
(* Parts of a vector                                                        *)

\* Every non-empty set of numbers has a least element.
LEMMA LeastElement ==
    ASSUME NEW I \in SUBSET Nat, I # {}
    PROVE  \E i \in I : \A j \in I : i <= j
  <1>. DEFINE R == OpToRel(<, Nat)
  <1>1. IsWellFoundedOn(R, Nat)
    BY NatLessThanWellFounded
  <1>. HIDE DEF R
  <1>2. PICK x \in I : \A y \in I : ~ (<<y, x>> \in R)
    BY <1>1, WFMin, Zenon
  <1>3. \A y \in I : ~ (y < x)
    BY <1>2 DEF OpToRel, R
  <1>. QED
    BY <1>3

\* f lists the positions in I, each once and in order.
Lists(f, I) ==
    /\ f \in [1 .. Cardinality(I) -> I]
    /\ \A i \in I : \E r \in DOMAIN f : f[r] = i
    /\ \A r, q \in DOMAIN f : r < q => f[r] < f[q]

\* A list of positions below n, and n after it.
LEMMA ListExtended ==
    ASSUME NEW n \in Nat, NEW I, I \subseteq 1 .. n, n + 1 \notin I, IsFiniteSet(I),
           NEW f, Lists(f, I)
    PROVE  \E g : Lists(g, I \cup {n + 1})
  <1>. DEFINE J == I \cup {n + 1}
              c == Cardinality(I)
              g == [r \in 1 .. c + 1 |-> IF r = c + 1 THEN n + 1 ELSE f[r]]
  <1>1. c \in Nat /\ Cardinality(J) = c + 1
    BY FS_AddElement, FS_CardinalityType
  <1>2. f \in [1 .. c -> I]
    BY DEF Lists
  <1>. HIDE DEF c
  <1>3. DOMAIN g = 1 .. c + 1 /\ g[c + 1] = n + 1 /\ \A r \in 1 .. c : g[r] = f[r] /\ f[r] \in I
    BY <1>1, <1>2
  <1>4. \A r \in 1 .. c + 1 : r = c + 1 \/ r \in 1 .. c
    BY <1>1
  <1>5. g \in [1 .. c + 1 -> J]
    BY <1>3, <1>4
  <1>. HIDE DEF g
  <1>6. \A i \in J : \E r \in DOMAIN g : g[r] = i
    <2>1. \A i \in I : \E r \in 1 .. c : f[r] = i
      BY <1>2 DEF Lists
    <2>2. c + 1 \in DOMAIN g /\ 1 .. c \subseteq DOMAIN g
      BY <1>1, <1>3
    <2>. QED
      BY <1>3, <2>1, <2>2
  <1>7. ASSUME NEW r \in DOMAIN g, NEW q \in DOMAIN g, r < q PROVE g[r] < g[q]
    <2>1. r \in 1 .. c
      BY <1>1, <1>3, <1>7
    <2>2. CASE q = c + 1
      <3>1. g[r] \in 1 .. n
        BY <1>3, <2>1
      <3>. QED
        BY <1>3, <2>2, <3>1
    <2>3. CASE q \in 1 .. c
      <3>1. f[r] < f[q]
        BY <1>2, <1>7, <2>1, <2>3 DEF Lists
      <3>. QED
        BY <1>3, <2>1, <2>3, <3>1
    <2>. QED
      BY <1>3, <1>4, <2>2, <2>3
  <1>. QED
    BY <1>1, <1>5, <1>6, <1>7 DEF Lists

\* The positions of a vector can be listed in order.
LEMMA ListExists ==
    ASSUME NEW n \in Nat, NEW I, I \subseteq 1 .. n
    PROVE  \E f : Lists(f, I)
  <1>. DEFINE Bad == {m \in Nat : \E K : K \subseteq 1 .. m /\ ~ \E f : Lists(f, K)}
  <1>1. CASE Bad = {}
    BY <1>1
  <1>2. CASE Bad # {}
    <2>1. PICK m \in Bad : \A k \in Bad : m <= k
      BY <1>2, LeastElement
    <2>2. PICK K : K \subseteq 1 .. m /\ ~ \E f : Lists(f, K)
      BY <2>1
    <2>3. m \in Nat
      BY <2>1
    <2>4. m # 0
      <3>. SUFFICES ASSUME m = 0 PROVE FALSE
        OBVIOUS
      <3>1. K = {}
        BY <2>2
      <3>2. Cardinality(K) = 0
        BY <3>1, FS_EmptySet
      <3>. DEFINE e == [r \in 1 .. 0 |-> 0]
      <3>3. Lists(e, K)
        BY <3>1, <3>2 DEF Lists
      <3>. QED
        BY <2>2, <3>3
    <2>. DEFINE l == m - 1
                L == K \cap (1 .. l)
    <2>5. l \in Nat /\ l + 1 = m /\ l \notin Bad
      <3>1. l \in Nat /\ l + 1 = m /\ ~ (m <= l)
        BY <2>3, <2>4
      <3>. HIDE DEF l, Bad
      <3>. QED
        BY <2>1, <3>1
    <2>6. L \subseteq 1 .. l
      OBVIOUS
    <2>. HIDE DEF L
    <2>7. PICK f : Lists(f, L)
      BY <2>5, <2>6
    <2>8. CASE m \notin K
      <3>1. \A i \in 1 .. m : i # m => i \in 1 .. l
        BY <2>3
      <3>2. K = L
        BY <2>2, <2>8, <3>1 DEF L
      <3>. QED
        BY <2>2, <2>7, <3>2
    <2>9. CASE m \in K
      <3>1. K = L \cup {l + 1} /\ l + 1 \notin L
        <4>1. \A i \in 1 .. m : i = m \/ i \in 1 .. l
          BY <2>3
        <4>2. l + 1 \notin 1 .. l /\ l + 1 = m
          BY <2>5
        <4>. HIDE DEF l
        <4>. QED
          BY <2>2, <2>9, <4>1, <4>2 DEF L
      <3>2. IsFiniteSet(L)
        <4>1. IsFiniteSet(1 .. l)
          BY <2>5, FS_Interval
        <4>. QED
          BY <2>6, <4>1, FS_Subset
      <3>. HIDE DEF l
      <3>3. \E g : Lists(g, L \cup {l + 1})
        BY <2>5, <2>6, <2>7, <3>1, <3>2, ListExtended
      <3>. QED
        BY <2>2, <3>1, <3>3
    <2>. QED
      BY <2>8, <2>9
  <1>. QED
    BY <1>1, <1>2

\* Only picks some elements of a vector: those, each from a place of its own.
LEMMA OnlyPicks ==
    ASSUME NEW S, NEW ids \in Seq(S), NEW I, I \subseteq DOMAIN ids
    PROVE  /\ Only(ids, I) \in Seq(S) /\ Len(Only(ids, I)) = Cardinality(I)
           /\ Cardinality(I) \in Nat /\ Cardinality(I) <= Len(ids)
           /\ \A r \in DOMAIN Only(ids, I) :
                 Ascending(I)[r] \in I /\ Only(ids, I)[r] = ids[Ascending(I)[r]]
           /\ \A i \in I : \E r \in DOMAIN Only(ids, I) : Ascending(I)[r] = i
           /\ \A r, q \in DOMAIN Only(ids, I) : Ascending(I)[r] = Ascending(I)[q] => r = q
           /\ \A r, q \in DOMAIN Only(ids, I) : Ascending(I)[r] < Ascending(I)[q] => r < q
  <1>. DEFINE f == Ascending(I)
              o == Only(ids, I)
              c == Cardinality(I)
  <1>1. DOMAIN ids = 1 .. Len(ids) /\ Len(ids) \in Nat
    OBVIOUS
  <1>2. \E g : Lists(g, I)
    BY <1>1, ListExists
  <1>3. Lists(f, I)
    BY <1>2 DEF Lists, Ascending
  <1>4. c \in Nat /\ c <= Len(ids)
    <2>1. IsFiniteSet(1 .. Len(ids)) /\ Cardinality(1 .. Len(ids)) = Len(ids)
      <3>1. IsFiniteSet(1 .. Len(ids))
            /\ Cardinality(1 .. Len(ids)) = IF 1 > Len(ids) THEN 0 ELSE Len(ids) - 1 + 1
        BY <1>1, FS_Interval
      <3>2. (IF 1 > Len(ids) THEN 0 ELSE Len(ids) - 1 + 1) = Len(ids)
        BY <1>1
      <3>. QED
        BY <3>1, <3>2
    <2>2. IsFiniteSet(I) /\ Cardinality(I) <= Cardinality(1 .. Len(ids))
      BY <1>1, <2>1, FS_Subset
    <2>. QED
      BY <2>1, <2>2, FS_CardinalityType
  <1>. HIDE DEF f, c
  <1>5. f \in [1 .. c -> I]
    BY <1>3 DEF Lists, c
  <1>6. o = [r \in 1 .. c |-> ids[f[r]]]
    BY <1>5 DEF Only, f
  <1>7. \A i \in I : ids[i] \in S
    BY <1>1
  <1>8. o \in [1 .. c -> S]
    BY <1>5, <1>6, <1>7
  <1>. HIDE DEF o
  <1>9. o \in Seq(S) /\ Len(o) = c /\ DOMAIN o = 1 .. c
    BY <1>4, <1>8
  <1>10. \A r \in 1 .. c : f[r] \in I /\ o[r] = ids[f[r]]
    BY <1>5, <1>6
  <1>11. \A i \in I : \E r \in 1 .. c : f[r] = i
    BY <1>3, <1>5 DEF Lists
  <1>12. ASSUME NEW r \in 1 .. c, NEW q \in 1 .. c, f[r] = f[q] PROVE r = q
    <2>1. f[r] \in Nat /\ r \in Nat /\ q \in Nat
      BY <1>1, <1>4, <1>10
    <2>2. (r < q => f[r] < f[q]) /\ (q < r => f[q] < f[r])
      BY <1>3, <1>5 DEF Lists
    <2>. QED
      BY <1>12, <2>1, <2>2
  <1>13. ASSUME NEW r \in 1 .. c, NEW q \in 1 .. c, f[r] < f[q] PROVE r < q
    <2>1. f[r] \in Nat /\ f[q] \in Nat /\ r \in Nat /\ q \in Nat
      BY <1>1, <1>4, <1>10
    <2>2. q < r => f[q] < f[r]
      BY <1>3, <1>5 DEF Lists
    <2>. QED
      BY <1>13, <2>1, <2>2
  <1>. QED
    BY <1>4, <1>9, <1>10, <1>11, <1>12, <1>13 DEF o, f, c
-----------------------------------------------------------------------------
(* Eviction                                                                 *)

OneEach(ids) == \A i, j \in DOMAIN ids : ids[i].node = ids[j].node => i = j

\* The identities that two vectors share stand in the same order.
InOrder(ids, left) ==
    \A i, j \in DOMAIN ids, r, q \in DOMAIN left :
        ids[i].node = left[r].node /\ ids[j].node = left[q].node /\ i < j => r < q

\* The vector ids without the identities in gone is left.
Removes(ids, left, gone) ==
    /\ left \in Seq(IdType) /\ gone \in Seq(IdType)
    /\ Len(left) <= Len(ids)
    /\ OneEach(left) /\ InOrder(ids, left)
    /\ \A r \in DOMAIN left : \E i \in DOMAIN ids : left[r] = ids[i]
    /\ \A r \in DOMAIN gone : \E i \in DOMAIN ids : gone[r] = ids[i]
    /\ Nodes(left) = Nodes(ids) \ Nodes(gone)

\* Who goes was seen no later than who stays, or is stale while the other is not.
OldestGo(ids, gone, now) ==
    \A r \in DOMAIN gone, j \in DOMAIN ids :
        ids[j].node \notin Nodes(gone) =>
            \/ gone[r].seen <= ids[j].seen
            \/ /\ Since(gone[r].seen, now) > VIRT_ID_TIMEOUT
               /\ ~ (Since(ids[j].seen, now) > VIRT_ID_TIMEOUT)

\* The fields of an identity in a vector.
LEMMA IdFields ==
    ASSUME NEW ids \in Seq(IdType), NEW i \in DOMAIN ids
    PROVE  /\ ids[i] \in IdType /\ ids[i].node \in MeshUsers /\ ids[i].name \in MeshNames
           /\ ids[i].seen \in 0 .. CLOCK_MOD - 1 /\ ids[i].seen \in Nat
  <1>1. ids[i] \in IdType
    OBVIOUS
  <1>2. CLOCK_MOD \in Nat
    BY RegistryAssumption
  <1>. QED
    BY <1>1, <1>2 DEF IdType

\* A part of a vector picked in order keeps its order.
LEMMA PickedInOrder ==
    ASSUME NEW ids, OneEach(ids), NEW left, NEW pick,
           \A r \in DOMAIN left : pick[r] \in DOMAIN ids /\ left[r] = ids[pick[r]],
           \A r, q \in DOMAIN left : pick[r] < pick[q] => r < q
    PROVE  InOrder(ids, left)
  <1>. SUFFICES ASSUME NEW i \in DOMAIN ids, NEW j \in DOMAIN ids,
                       NEW r \in DOMAIN left, NEW q \in DOMAIN left,
                       ids[i].node = left[r].node, ids[j].node = left[q].node, i < j
                PROVE  r < q
    BY DEF InOrder
  <1>1. pick[r] = i /\ pick[q] = j
    BY DEF OneEach
  <1>. QED
    BY <1>1

\* Some identities go and the others stay, in order.
LEMMA OnlySplits ==
    ASSUME NEW ids \in Seq(IdType), OneEach(ids), NEW I, I \subseteq DOMAIN ids
    PROVE  Removes(ids, Only(ids, DOMAIN ids \ I), Only(ids, I))
  <1>. DEFINE K == DOMAIN ids \ I
              left == Only(ids, K)
              gone == Only(ids, I)
              f == Ascending(K)
              g == Ascending(I)
  <1>0. K \subseteq DOMAIN ids
    OBVIOUS
  <1>1. /\ left \in Seq(IdType) /\ Len(left) <= Len(ids)
        /\ \A r \in DOMAIN left : f[r] \in K /\ left[r] = ids[f[r]]
        /\ \A i \in K : \E r \in DOMAIN left : f[r] = i
        /\ \A r, q \in DOMAIN left : f[r] = f[q] => r = q
        /\ \A r, q \in DOMAIN left : f[r] < f[q] => r < q
    <2>. HIDE DEF K
    <2>. QED
      BY <1>0, OnlyPicks
  <1>2. /\ gone \in Seq(IdType)
        /\ \A r \in DOMAIN gone : g[r] \in I /\ gone[r] = ids[g[r]]
        /\ \A i \in I : \E r \in DOMAIN gone : g[r] = i
    BY OnlyPicks
  <1>. HIDE DEF left, gone, f, g
  <1>3. OneEach(left)
    <2>. SUFFICES ASSUME NEW r \in DOMAIN left, NEW q \in DOMAIN left,
                         left[r].node = left[q].node
                  PROVE  r = q
      BY DEF OneEach
    <2>1. f[r] \in DOMAIN ids /\ f[q] \in DOMAIN ids
      BY <1>0, <1>1
    <2>2. ids[f[r]].node = ids[f[q]].node
      BY <1>1
    <2>3. f[r] = f[q]
      BY <2>1, <2>2 DEF OneEach
    <2>. QED
      BY <1>1, <2>3
  <1>4. Nodes(gone) = {ids[i].node : i \in I}
    BY <1>2 DEF Nodes
  <1>5. Nodes(left) = {ids[i].node : i \in K}
    BY <1>1 DEF Nodes
  <1>6. Nodes(left) = Nodes(ids) \ Nodes(gone)
    <2>1. \A i \in K, j \in I : ids[i].node # ids[j].node
      BY DEF OneEach
    <2>2. Nodes(ids) = {ids[i].node : i \in DOMAIN ids}
      BY DEF Nodes
    <2>3. \A i \in DOMAIN ids : i \in K \/ i \in I
      OBVIOUS
    <2>. HIDE DEF K
    <2>4. ASSUME NEW i \in DOMAIN ids
          PROVE  ids[i].node \in Nodes(left) <=> ids[i].node \notin Nodes(gone)
      BY <1>0, <1>4, <1>5, <2>1, <2>3
    <2>5. Nodes(left) \subseteq Nodes(ids)
      BY <1>0, <1>5, <2>2
    <2>. QED
      BY <2>2, <2>4, <2>5
  <1>7. InOrder(ids, left)
    <2>. HIDE DEF K
    <2>. QED
      BY <1>0, <1>1, PickedInOrder
  <1>8. Removes(ids, left, gone)
    BY <1>1, <1>2, <1>3, <1>6, <1>7 DEF Removes
  <1>. QED
    BY <1>8 DEF left, gone

\* There is an identity that is evicted before every other.
LEMMA LruIsLeast ==
    ASSUME NEW ids \in Seq(IdType), ids # <<>>
    PROVE  /\ Lru(ids) \in DOMAIN ids
           /\ \A j \in DOMAIN ids \ {Lru(ids)} : EvictedBefore(ids, Lru(ids), j)
  <1>. DEFINE V == {ids[i].seen : i \in DOMAIN ids}
  <1>0. DOMAIN ids = 1 .. Len(ids) /\ 1 \in DOMAIN ids
    OBVIOUS
  <1>1. \A i \in DOMAIN ids : ids[i].seen \in Nat
    BY IdFields
  <1>2. V \in SUBSET Nat /\ V # {}
    BY <1>0, <1>1
  <1>3. PICK v \in V : \A w \in V : v <= w
    BY <1>2, LeastElement
  <1>. DEFINE P == {i \in DOMAIN ids : ids[i].seen = v}
  <1>4. P \in SUBSET Nat /\ P # {}
    BY <1>0
  <1>5. PICK k \in P : \A j \in P : k <= j
    BY <1>4, LeastElement
  <1>6. k \in DOMAIN ids /\ ids[k].seen = v
    BY <1>5
  <1>7. ASSUME NEW j \in DOMAIN ids \ {k} PROVE EvictedBefore(ids, k, j)
    <2>1. ids[j].seen \in Nat /\ ids[k].seen \in Nat /\ ids[k].seen <= ids[j].seen
      BY <1>1, <1>3, <1>6
    <2>2. ids[j].seen = ids[k].seen => k <= j
      BY <1>5, <1>6
    <2>3. k \in Nat /\ j \in Nat /\ j # k
      BY <1>0, <1>6
    <2>. QED
      BY <2>1, <2>2, <2>3 DEF EvictedBefore
  <1>8. \E i \in DOMAIN ids : \A j \in DOMAIN ids \ {i} : EvictedBefore(ids, i, j)
    BY <1>6, <1>7
  <1>. QED
    BY <1>8 DEF Lru

\* _evict_lru removes one identity, which no other was seen before.
LEMMA LruSplits ==
    ASSUME NEW ids \in Seq(IdType), OneEach(ids), ids # <<>>
    PROVE  /\ Removes(ids, EvictLru(ids), <<ids[Lru(ids)]>>)
           /\ Lru(ids) \in DOMAIN ids
           /\ Len(EvictLru(ids)) < Len(ids)
           /\ \A j \in DOMAIN ids : ids[Lru(ids)].seen <= ids[j].seen
  <1>. DEFINE k == Lru(ids)
              K == DOMAIN ids \ {k}
              left == Only(ids, K)
              f == Ascending(K)
              gone == <<ids[k]>>
  <1>1. k \in DOMAIN ids /\ \A j \in DOMAIN ids \ {k} : EvictedBefore(ids, k, j)
    BY LruIsLeast
  <1>2. \A i \in DOMAIN ids : ids[i].seen \in Nat /\ ids[i] \in IdType
    BY IdFields
  <1>. HIDE DEF k
  <1>3. \A j \in DOMAIN ids : ids[k].seen <= ids[j].seen
    <2>. SUFFICES ASSUME NEW j \in DOMAIN ids PROVE ids[k].seen <= ids[j].seen
      OBVIOUS
    <2>1. ids[k].seen \in Nat /\ ids[j].seen \in Nat
      BY <1>1, <1>2
    <2>2. j = k \/ ids[k].seen < ids[j].seen \/ ids[k].seen = ids[j].seen
      BY <1>1 DEF EvictedBefore
    <2>. QED
      BY <2>1, <2>2
  <1>4. K \subseteq DOMAIN ids
    OBVIOUS
  <1>5. /\ left \in Seq(IdType) /\ Len(left) = Cardinality(K)
        /\ \A r \in DOMAIN left : f[r] \in K /\ left[r] = ids[f[r]]
        /\ \A i \in K : \E r \in DOMAIN left : f[r] = i
        /\ \A r, q \in DOMAIN left : f[r] = f[q] => r = q
        /\ \A r, q \in DOMAIN left : f[r] < f[q] => r < q
    <2>. HIDE DEF K
    <2>. QED
      BY <1>4, OnlyPicks
  <1>6. Len(ids) \in Nat /\ Cardinality(K) = Len(ids) - 1
    <2>1. Len(ids) \in Nat /\ Len(ids) # 0 /\ DOMAIN ids = 1 .. Len(ids)
      OBVIOUS
    <2>2. IsFiniteSet(1 .. Len(ids))
          /\ Cardinality(1 .. Len(ids)) = IF 1 > Len(ids) THEN 0 ELSE Len(ids) - 1 + 1
      BY <2>1, FS_Interval
    <2>3. Cardinality(K) = IF k \in 1 .. Len(ids) THEN Cardinality(1 .. Len(ids)) - 1
                           ELSE Cardinality(1 .. Len(ids))
      BY <2>1, <2>2, FS_RemoveElement
    <2>. QED
      BY <1>1, <2>1, <2>2, <2>3
  <1>. HIDE DEF left, f
  <1>7. gone \in Seq(IdType) /\ DOMAIN gone = {1} /\ gone[1] = ids[k]
    BY <1>1, <1>2
  <1>. HIDE DEF gone
  <1>14. /\ \A r \in DOMAIN left : f[r] \in K /\ left[r] = ids[f[r]]
         /\ \A i \in K : \E r \in DOMAIN left : f[r] = i
         /\ \A r, q \in DOMAIN left : f[r] = f[q] => r = q
         /\ \A r, q \in DOMAIN left : f[r] < f[q] => r < q
    BY <1>5
  <1>8. OneEach(left)
    BY <1>4, <1>14 DEF OneEach
  <1>9. Nodes(gone) = {ids[k].node}
    BY <1>7 DEF Nodes
  <1>10. Nodes(left) = {ids[i].node : i \in K}
    BY <1>14 DEF Nodes
  <1>11. Nodes(left) = Nodes(ids) \ Nodes(gone)
    BY <1>1, <1>9, <1>10 DEF Nodes, OneEach
  <1>12. Len(left) < Len(ids) /\ Len(left) <= Len(ids)
    BY <1>5, <1>6
  <1>15. InOrder(ids, left)
    <2>. HIDE DEF K
    <2>1. \A r \in DOMAIN left : f[r] \in DOMAIN ids /\ left[r] = ids[f[r]]
      BY <1>4, <1>14
    <2>2. \A r, q \in DOMAIN left : f[r] < f[q] => r < q
      BY <1>14
    <2>. QED
      BY <2>1, <2>2, PickedInOrder
  <1>13. Removes(ids, left, gone)
    BY <1>1, <1>5, <1>7, <1>8, <1>11, <1>12, <1>15 DEF Removes
  <1>. QED
    BY <1>1, <1>3, <1>12, <1>13 DEF left, gone, k, EvictLru

\* Two removals after one another are one.
LEMMA RemovesTwice ==
    ASSUME NEW ids, NEW mid, NEW left, NEW gone, NEW e,
           Len(ids) \in Nat, Removes(ids, mid, gone), Removes(mid, left, <<e>>)
    PROVE  Removes(ids, left, Append(gone, e))
  <1>. DEFINE one == <<e>>
              all == Append(gone, e)
              n == Len(gone)
  <1>1. DOMAIN one = {1} /\ one[1] = e
    OBVIOUS
  <1>2. \E i \in DOMAIN mid : e = mid[i]
    <2>1. \A r \in DOMAIN one : \E i \in DOMAIN mid : one[r] = mid[i]
      BY DEF Removes
    <2>. HIDE DEF one
    <2>. QED
      BY <1>1, <2>1
  <1>3. \E i \in DOMAIN ids : e = ids[i]
    BY <1>2 DEF Removes
  <1>4. gone \in Seq(IdType) /\ mid \in Seq(IdType) /\ left \in Seq(IdType)
    BY DEF Removes
  <1>5. e \in IdType
    BY <1>2, <1>4
  <1>6. /\ all \in Seq(IdType) /\ n \in Nat /\ DOMAIN gone = 1 .. n /\ DOMAIN all = 1 .. n + 1
        /\ all[n + 1] = e /\ \A r \in 1 .. n : all[r] = gone[r]
    BY <1>4, <1>5
  <1>7. Nodes(one) = {e.node}
    <2>. HIDE DEF one
    <2>. QED
      BY <1>1 DEF Nodes
  <1>8. Nodes(left) = Nodes(mid) \ Nodes(one) /\ Nodes(mid) = Nodes(ids) \ Nodes(gone)
    BY DEF Removes
  <1>9. Len(left) <= Len(ids)
    <2>1. Len(left) \in Nat /\ Len(mid) \in Nat /\ Len(left) <= Len(mid) /\ Len(mid) <= Len(ids)
      BY <1>4 DEF Removes
    <2>. QED
      BY <2>1
  <1>. HIDE DEF one, all, n
  <1>10. \A r \in DOMAIN all : r = n + 1 \/ r \in 1 .. n
    BY <1>6
  <1>11. Nodes(all) = Nodes(gone) \cup {e.node}
    <2>1. n + 1 \in DOMAIN all /\ 1 .. n \subseteq DOMAIN all
      BY <1>6
    <2>. QED
      BY <1>6, <1>10, <2>1 DEF Nodes
  <1>12. Nodes(left) = Nodes(ids) \ Nodes(all)
    BY <1>7, <1>8, <1>11
  <1>13. \A r \in DOMAIN all : \E i \in DOMAIN ids : all[r] = ids[i]
    BY <1>3, <1>6, <1>10 DEF Removes
  <1>14. \A r \in DOMAIN left : \E i \in DOMAIN ids : left[r] = ids[i]
    BY DEF Removes
  <1>15. OneEach(left)
    BY DEF Removes
  <1>16. InOrder(ids, left)
    <2>. SUFFICES ASSUME NEW i \in DOMAIN ids, NEW j \in DOMAIN ids,
                         NEW r \in DOMAIN left, NEW q \in DOMAIN left,
                         ids[i].node = left[r].node, ids[j].node = left[q].node, i < j
                  PROVE  r < q
      BY DEF InOrder
    <2>1. PICK k \in DOMAIN mid : left[r] = mid[k]
      BY DEF Removes
    <2>2. PICK l \in DOMAIN mid : left[q] = mid[l]
      BY DEF Removes
    <2>3. k < l
      BY <2>1, <2>2 DEF Removes, InOrder
    <2>. QED
      BY <2>1, <2>2, <2>3 DEF Removes, InOrder
  <1>17. Removes(ids, left, all)
    BY <1>4, <1>6, <1>9, <1>12, <1>13, <1>14, <1>15, <1>16 DEF Removes
  <1>. QED
    BY <1>17 DEF all

\* The room-making part of get_or_create removes identities, the oldest ones,
\* and leaves the vector as it is if it removes none.
LEMMA RoomIsMade ==
    ASSUME NEW ids \in Seq(IdType), OneEach(ids), NEW heap_now \in Nat, NEW now \in Nat
    PROVE  LET room == MakeRoom(ids, heap_now, now)
           IN  /\ Removes(ids, room.ids, room.evicted)
               /\ OldestGo(ids, room.evicted, now)
               /\ room.evicted = <<>> => room.ids = ids
  <1>. DEFINE room == MakeRoom(ids, heap_now, now)
              stale == Stale(ids, now)
              K == DOMAIN ids \ stale
              fresh == Only(ids, K)
              olds == Only(ids, stale)
              f == Ascending(K)
              g == Ascending(stale)
  <1>1. stale \subseteq DOMAIN ids /\ K \subseteq DOMAIN ids
    BY DEF Stale
  <1>2. Removes(ids, fresh, olds)
    <2>. HIDE DEF stale
    <2>. QED
      BY <1>1, OnlySplits
  <1>3. /\ olds \in Seq(IdType) /\ Len(olds) = Cardinality(stale)
        /\ \A r \in DOMAIN olds : g[r] \in stale /\ olds[r] = ids[g[r]]
        /\ \A i \in stale : \E r \in DOMAIN olds : g[r] = i
    <2>. HIDE DEF stale
    <2>. QED
      BY <1>1, OnlyPicks
  <1>4. fresh \in Seq(IdType) /\ Len(fresh) = Cardinality(K)
    <2>. HIDE DEF K
    <2>. QED
      BY <1>1, OnlyPicks
  <1>5. \A r \in DOMAIN olds : Since(olds[r].seen, now) > VIRT_ID_TIMEOUT
    <2>1. \A i \in stale : Since(ids[i].seen, now) > VIRT_ID_TIMEOUT
      BY DEF Stale
    <2>. HIDE DEF stale, olds, g
    <2>. QED
      BY <1>3, <2>1
  <1>6. ASSUME NEW j \in DOMAIN ids, ids[j].node \notin Nodes(olds)
        PROVE  j \in K /\ ~ (Since(ids[j].seen, now) > VIRT_ID_TIMEOUT)
    <2>1. j \notin stale
      <3>. SUFFICES ASSUME j \in stale PROVE FALSE
        OBVIOUS
      <3>. HIDE DEF stale, olds, g
      <3>1. PICK r \in DOMAIN olds : g[r] = j
        BY <1>3
      <3>2. olds[r] = ids[j]
        BY <1>3, <3>1
      <3>. QED
        BY <1>6, <3>2 DEF Nodes
    <2>. QED
      BY <2>1 DEF Stale
  <1>7. stale = {} => Len(fresh) = Len(ids)
    <2>1. Len(ids) \in Nat /\ DOMAIN ids = 1 .. Len(ids)
      OBVIOUS
    <2>2. Cardinality(1 .. Len(ids)) = IF 1 > Len(ids) THEN 0 ELSE Len(ids) - 1 + 1
      BY <2>1, FS_Interval
    <2>3. stale = {} => K = 1 .. Len(ids)
      BY <2>1
    <2>. HIDE DEF stale, fresh, K
    <2>. QED
      BY <1>4, <2>1, <2>2, <2>3
  <1>8. olds = <<>> => stale = {}
    <2>. HIDE DEF stale, olds, g
    <2>. QED
      BY <1>3
  <1>9. CASE CanGrow(ids, heap_now)
    <2>. DEFINE none == <<>>
    <2>1. room = [ids |-> ids, evicted |-> none]
      BY <1>9 DEF MakeRoom
    <2>2. none \in Seq(IdType) /\ DOMAIN none = {} /\ Nodes(none) = {}
      BY DEF Nodes
    <2>3. Len(ids) \in Nat /\ Len(ids) <= Len(ids)
      OBVIOUS
    <2>. HIDE DEF none, room
    <2>5. InOrder(ids, ids)
      BY DEF InOrder, OneEach
    <2>4. Removes(ids, ids, none) /\ OldestGo(ids, none, now)
      BY <2>2, <2>3, <2>5 DEF Removes, OldestGo
    <2>. QED
      BY <2>1, <2>4 DEF room
  <1>10. CASE ~CanGrow(ids, heap_now) /\ (CanGrow(fresh, heap_now) \/ fresh = <<>>)
    <2>1. room = [ids |-> fresh, evicted |-> olds]
      BY <1>10 DEF MakeRoom
    <2>. HIDE DEF stale, K, fresh, olds
    <2>2. OldestGo(ids, olds, now)
      BY <1>5, <1>6 DEF OldestGo
    <2>3. ASSUME olds = <<>> PROVE fresh = ids
      <3>1. Len(fresh) = Len(ids)
        BY <1>7, <1>8, <2>3
      <3>2. fresh = <<>>
        BY <1>10, <3>1 DEF CanGrow
      <3>3. Len(ids) = 0
        BY <3>1, <3>2
      <3>. QED
        BY <3>2, <3>3
    <2>. HIDE DEF room
    <2>. QED
      BY <1>2, <2>1, <2>2, <2>3 DEF room
  <1>11. CASE ~CanGrow(ids, heap_now) /\ ~CanGrow(fresh, heap_now) /\ fresh # <<>>
    <2>. DEFINE k == Lru(fresh)
                e == fresh[k]
                left == EvictLru(fresh)
                gone == Append(olds, e)
                n == Len(olds)
    <2>1. room = [ids |-> left, evicted |-> gone]
      BY <1>11 DEF MakeRoom
    <2>. HIDE DEF stale, K, fresh, olds
    <2>2. OneEach(fresh)
      BY <1>2 DEF Removes
    <2>3. /\ Removes(fresh, left, <<e>>) /\ k \in DOMAIN fresh
          /\ \A j \in DOMAIN fresh : e.seen <= fresh[j].seen
      BY <1>4, <1>11, <2>2, LruSplits
    <2>. HIDE DEF left, e, k
    <2>4. Removes(ids, left, gone)
      <3>1. Len(ids) \in Nat
        OBVIOUS
      <3>. QED
        BY <1>2, <2>3, <3>1, RemovesTwice
    <2>5. e \in IdType
      BY <1>4, <2>3 DEF e
    <2>6. /\ n \in Nat /\ DOMAIN olds = 1 .. n /\ DOMAIN gone = 1 .. n + 1
          /\ gone[n + 1] = e /\ \A r \in 1 .. n : gone[r] = olds[r]
      BY <1>3, <2>5
    <2>. HIDE DEF gone, n
    <2>7. gone # <<>>
      BY <2>6
    <2>8. Nodes(olds) \subseteq Nodes(gone)
      <3>1. 1 .. n \subseteq DOMAIN gone
        BY <2>6
      <3>. QED
        BY <2>6, <3>1 DEF Nodes
    <2>9. ASSUME NEW r \in DOMAIN gone, NEW j \in DOMAIN ids, ids[j].node \notin Nodes(gone)
          PROVE  \/ gone[r].seen <= ids[j].seen
                 \/ /\ Since(gone[r].seen, now) > VIRT_ID_TIMEOUT
                    /\ ~ (Since(ids[j].seen, now) > VIRT_ID_TIMEOUT)
      <3>1. ids[j].node \notin Nodes(olds)
        BY <2>8, <2>9
      <3>2. CASE r \in 1 .. n
        BY <1>5, <1>6, <2>6, <3>1, <3>2
      <3>3. CASE r = n + 1
        <4>1. ids[j].node \in Nodes(fresh)
          BY <1>2, <3>1 DEF Removes, Nodes
        <4>2. PICK q \in DOMAIN fresh : fresh[q].node = ids[j].node
          BY <4>1 DEF Nodes
        <4>3. fresh[q] = ids[j]
          BY <1>2, <4>2 DEF Removes, OneEach
        <4>. QED
          BY <2>3, <2>6, <3>3, <4>3
      <3>. QED
        BY <2>6, <3>2, <3>3
    <2>10. OldestGo(ids, gone, now)
      BY <2>9 DEF OldestGo
    <2>. HIDE DEF room
    <2>. QED
      BY <2>1, <2>4, <2>7, <2>10 DEF room
  <1>. QED
    BY <1>9, <1>10, <1>11
\* There is one user at each position.
LEMMA UpToSize ==
    ASSUME NEW S, NEW ids \in Seq(S), NEW at \in Nat
    PROVE  /\ IsFiniteSet(UpTo(ids, at)) /\ Cardinality(UpTo(ids, at)) \in Nat
           /\ Cardinality(UpTo(ids, at)) <= at
           /\ OneEach(ids) /\ at <= Len(ids) => Cardinality(UpTo(ids, at)) = at
  <1>. DEFINE I == {j \in DOMAIN ids : j <= at}
              U == UpTo(ids, at)
              f == [i \in I |-> ids[i].node]
  <1>1. Len(ids) \in Nat /\ DOMAIN ids = 1 .. Len(ids)
    OBVIOUS
  <1>2. IsFiniteSet(1 .. at) /\ Cardinality(1 .. at) = at
    <2>1. IsFiniteSet(1 .. at)
          /\ Cardinality(1 .. at) = IF 1 > at THEN 0 ELSE at - 1 + 1
      BY FS_Interval
    <2>. QED
      BY <2>1
  <1>3. I \subseteq 1 .. at /\ (at <= Len(ids) => I = 1 .. at)
    BY <1>1
  <1>. HIDE DEF I
  <1>4. IsFiniteSet(I) /\ Cardinality(I) <= at /\ Cardinality(I) \in Nat
    <2>1. IsFiniteSet(I) /\ Cardinality(I) <= Cardinality(1 .. at)
      BY <1>2, <1>3, FS_Subset
    <2>2. Cardinality(I) \in Nat
      BY <2>1, FS_CardinalityType
    <2>. QED
      BY <1>2, <2>1, <2>2
  <1>5. U = {ids[i].node : i \in I}
    BY DEF UpTo, I
  <1>. HIDE DEF U
  <1>6. f \in [I -> U] /\ \A u \in U : \E i \in I : f[i] = u
    BY <1>5
  <1>7. f \in Surjection(I, U)
    BY <1>6 DEF Surjection
  <1>8. OneEach(ids) => f \in Injection(I, U)
    <2>1. I \subseteq DOMAIN ids
      BY DEF I
    <2>2. OneEach(ids) => \A i, j \in I : f[i] = f[j] => i = j
      BY <2>1 DEF OneEach
    <2>. QED
      BY <1>6, <2>2 DEF Injection, IsInjective
  <1>. HIDE DEF f
  <1>9. /\ IsFiniteSet(U) /\ Cardinality(U) <= Cardinality(I)
        /\ Cardinality(U) = Cardinality(I) <=> f \in Injection(I, U)
    BY <1>4, <1>7, FS_Surjection
  <1>10. Cardinality(U) \in Nat
    BY <1>9, FS_CardinalityType
  <1>11. at <= Len(ids) => Cardinality(I) = at
    BY <1>2, <1>3
  <1>12. Cardinality(U) <= at
    BY <1>4, <1>9, <1>10
  <1>13. OneEach(ids) /\ at <= Len(ids) => Cardinality(U) = at
    BY <1>8, <1>9, <1>11
  <1>. QED
    BY <1>9, <1>10, <1>12, <1>13 DEF U

\* A vector has finitely many users.
LEMMA NodesFinite ==
    ASSUME NEW S, NEW ids \in Seq(S)
    PROVE  IsFiniteSet(Nodes(ids))
  <1>1. Len(ids) \in Nat /\ DOMAIN ids = 1 .. Len(ids)
    OBVIOUS
  <1>2. Nodes(ids) = UpTo(ids, Len(ids))
    BY <1>1 DEF Nodes, UpTo
  <1>. QED
    BY <1>1, <1>2, UpToSize

\* When the users in G leave a vector, at most as many others come to stand behind
\* a position as there were of G.
LEMMA OvertakenBound ==
    ASSUME NEW S, NEW ids \in Seq(S), OneEach(ids), NEW left \in Seq(S), InOrder(ids, left),
           NEW at \in Nat, NEW G, Nodes(ids) \ G \subseteq Nodes(left)
    PROVE  LET M == (Beyond(ids, at) \ Beyond(left, at)) \ G
           IN  IsFiniteSet(M) /\ Cardinality(M) <= Cardinality(UpTo(ids, at) \cap G)
  <1>. DEFINE M == (Beyond(ids, at) \ Beyond(left, at)) \ G
              A == UpTo(ids, at)
              B == UpTo(left, at)
              D == A \cap G
              K == A \ G
  <1>1. /\ IsFiniteSet(A) /\ Cardinality(A) \in Nat
        /\ IsFiniteSet(B) /\ Cardinality(B) \in Nat /\ Cardinality(B) <= at
        /\ at <= Len(ids) => Cardinality(A) = at
    BY UpToSize
  <1>2. /\ Len(ids) \in Nat /\ DOMAIN ids = 1 .. Len(ids)
        /\ Len(left) \in Nat /\ DOMAIN left = 1 .. Len(left)
    OBVIOUS
  <1>3. IsFiniteSet(D) /\ Cardinality(D) \in Nat
    <2>1. D \subseteq A
      OBVIOUS
    <2>. QED
      BY <1>1, <2>1, FS_Subset, FS_CardinalityType
  <1>4. CASE M = {}
    <2>1. Cardinality(M) = 0 /\ IsFiniteSet(M)
      BY <1>4, FS_EmptySet
    <2>. QED
      BY <1>3, <2>1
  <1>5. CASE M # {}
    <2>1. \A u \in M : \E i \in DOMAIN ids, r \in DOMAIN left :
             ids[i].node = u /\ left[r].node = u /\ i > at /\ r <= at
      <3>. SUFFICES ASSUME NEW u \in M
                    PROVE  \E i \in DOMAIN ids, r \in DOMAIN left :
                              ids[i].node = u /\ left[r].node = u /\ i > at /\ r <= at
        OBVIOUS
      <3>1. PICK i \in DOMAIN ids : ids[i].node = u /\ i > at
        BY DEF Beyond
      <3>2. u \in Nodes(left)
        BY <3>1 DEF Nodes
      <3>3. PICK r \in DOMAIN left : left[r].node = u
        BY <3>2 DEF Nodes
      <3>4. ~ (r > at)
        BY <3>3 DEF Beyond
      <3>5. r <= at
        BY <1>2, <3>4
      <3>. QED
        BY <3>1, <3>3, <3>5
    <2>. HIDE DEF M
    <2>2. PICK i \in DOMAIN ids, r \in DOMAIN left :
             ids[i].node = left[r].node /\ i > at /\ r <= at
      BY <1>5, <2>1
    <2>3. at <= Len(ids)
      BY <1>2, <2>2
    <2>4. K \subseteq B
      <3>. SUFFICES ASSUME NEW j \in DOMAIN ids, j <= at, ids[j].node \notin G
                    PROVE  ids[j].node \in B
        BY DEF UpTo
      <3>1. PICK q \in DOMAIN left : left[q].node = ids[j].node
        BY DEF Nodes
      <3>2. j < i
        BY <1>2, <2>2
      <3>3. q < r
        BY <2>2, <3>1, <3>2 DEF InOrder
      <3>4. q <= at
        BY <1>2, <2>2, <3>3
      <3>. QED
        BY <3>1, <3>4 DEF UpTo
    <2>5. M \subseteq B
      BY <2>1 DEF UpTo
    <2>6. K \cap M = {}
      <3>. SUFFICES ASSUME NEW j \in DOMAIN ids, j <= at, ids[j].node \in M PROVE FALSE
        BY DEF UpTo
      <3>1. PICK k \in DOMAIN ids : ids[k].node = ids[j].node /\ k > at
        BY <2>1
      <3>2. k = j
        BY <3>1 DEF OneEach
      <3>. QED
        BY <1>2, <3>1, <3>2
    <2>7. IsFiniteSet(M) /\ Cardinality(M) \in Nat
      BY <1>1, <2>5, FS_Subset, FS_CardinalityType
    <2>8. IsFiniteSet(K) /\ Cardinality(K) = Cardinality(A) - Cardinality(D)
      BY <1>1, FS_Difference
    <2>9. Cardinality(K \cup M) <= at
      <3>. DEFINE T == K \cup M
      <3>1. T \subseteq B
        BY <2>4, <2>5
      <3>. HIDE DEF T
      <3>2. Cardinality(T) <= Cardinality(B) /\ IsFiniteSet(T)
        BY <1>1, <3>1, FS_Subset
      <3>3. Cardinality(T) \in Nat
        BY <3>2, FS_CardinalityType
      <3>. QED
        BY <1>1, <3>2, <3>3 DEF T
    <2>10. Cardinality(K \cup M) = Cardinality(K) + Cardinality(M)
      <3>1. Cardinality(K \cup M) = Cardinality(K) + Cardinality(M) - Cardinality(K \cap M)
        BY <2>7, <2>8, FS_Union
      <3>2. Cardinality(K \cap M) = 0
        BY <2>6, FS_EmptySet
      <3>3. Cardinality(K) \in Nat
        BY <2>8, FS_CardinalityType
      <3>. QED
        BY <2>7, <3>1, <3>2, <3>3
    <2>. HIDE DEF A, B, D, K
    <2>11. Cardinality(M) <= Cardinality(D)
      BY <1>1, <1>3, <2>3, <2>7, <2>8, <2>9, <2>10
    <2>. QED
      BY <2>7, <2>11 DEF M, A, D
  <1>. QED
    BY <1>4, <1>5
-----------------------------------------------------------------------------
(* get_or_create                                                            *)

\* An identity that may not have its name yet.
NewIdType == [node : MeshUsers, seen : 0 .. CLOCK_MOD - 1, name : MeshNames \cup {""}]

\* The identities in gone were some of ids, the oldest, and not the node's own.
Parts(ids, gone, node, now) ==
    /\ gone \in Seq(IdType)
    /\ \A r \in DOMAIN gone : \E i \in DOMAIN ids : gone[r] = ids[i]
    /\ node \notin Nodes(gone)
    /\ OldestGo(ids, gone, now)

\* The vector has become new, with the node's identity at position at.
Holds(ids, new, gone, at, node, now) ==
    /\ Len(new) <= VIRT_ID_MAX_SLOTS
    /\ at \in DOMAIN new /\ new[at].node = node /\ new[at].seen = now
    /\ \A r \in DOMAIN new : r # at =>
          new[r] \in IdType /\ \E i \in DOMAIN ids : new[r] = ids[i] /\ ids[i].node # node
    /\ OneEach(new)
    /\ Nodes(new) = (Nodes(ids) \ Nodes(gone)) \cup {node}
    /\ InOrder(ids, new)

\* A function on 1..n is a sequence.
LEMMA FunctionIsSeq ==
    ASSUME NEW S, NEW n \in Nat, NEW fn \in [1 .. n -> S]
    PROVE  fn \in Seq(S) /\ Len(fn) = n
  OBVIOUS

\* What get_or_create and the bridge make of a vector: an identity's time or
\* name is set, or an identity is added.
Refreshed(ids, at, now) == [ids EXCEPT ![at].seen = now]
Created(ids, node, now) == Append(ids, [node |-> node, seen |-> now, name |-> ""])
Named(ids, at, name) == IF ids[at].name = "" THEN [ids EXCEPT ![at].name = name] ELSE ids

\* Setting the time leaves everything else.
LEMMA RefreshedIs ==
    ASSUME NEW ids \in Seq(IdType), NEW now \in 0 .. CLOCK_MOD - 1, NEW at \in DOMAIN ids
    PROVE  /\ Refreshed(ids, at, now) \in Seq(IdType)
           /\ Len(Refreshed(ids, at, now)) = Len(ids)
           /\ DOMAIN Refreshed(ids, at, now) = DOMAIN ids
           /\ Refreshed(ids, at, now)[at].node = ids[at].node
           /\ Refreshed(ids, at, now)[at].seen = now
           /\ \A r \in DOMAIN ids : r # at => Refreshed(ids, at, now)[r] = ids[r]
  <1>. DEFINE e == [ids[at] EXCEPT !.seen = now]
              new == [ids EXCEPT ![at] = e]
  <1>1. \A i \in DOMAIN ids : ids[i] \in IdType
    BY IdFields
  <1>2. e \in IdType /\ e.node = ids[at].node /\ e.seen = now
    BY <1>1 DEF IdType
  <1>3. Refreshed(ids, at, now) = new
    BY DEF Refreshed
  <1>. HIDE DEF e
  <1>4. /\ DOMAIN new = DOMAIN ids /\ new[at] = e
        /\ \A r \in DOMAIN ids : r # at => new[r] = ids[r]
    OBVIOUS
  <1>5. new \in [DOMAIN ids -> IdType]
    BY <1>1, <1>2
  <1>6. Len(ids) \in Nat /\ DOMAIN ids = 1 .. Len(ids)
    OBVIOUS
  <1>. HIDE DEF new
  <1>7. new \in Seq(IdType) /\ Len(new) = Len(ids)
    BY <1>5, <1>6, FunctionIsSeq
  <1>. QED
    BY <1>2, <1>3, <1>4, <1>7

\* A vector of named identities is one of identities that may lack a name.
LEMMA NamedAreIds ==
    ASSUME NEW ids \in Seq(IdType) PROVE ids \in Seq(NewIdType)
  <1>1. IdType \subseteq NewIdType
    BY DEF IdType, NewIdType
  <1>2. \A i \in DOMAIN ids : ids[i] \in IdType
    BY IdFields
  <1>3. Len(ids) \in Nat /\ DOMAIN ids = 1 .. Len(ids) /\ ids = [i \in DOMAIN ids |-> ids[i]]
    OBVIOUS
  <1>4. ids \in [1 .. Len(ids) -> NewIdType]
    BY <1>1, <1>2, <1>3
  <1>. QED
    BY <1>3, <1>4, FunctionIsSeq

\* The node has an identity: its time is set.
LEMMA FoundHolds ==
    ASSUME NEW ids \in Seq(IdType), OneEach(ids), Len(ids) <= VIRT_ID_MAX_SLOTS,
           NEW now \in 0 .. CLOCK_MOD - 1, NEW at \in DOMAIN ids
    PROVE  /\ Holds(ids, Refreshed(ids, at, now), <<>>, at, ids[at].node, now)
           /\ Parts(ids, <<>>, ids[at].node, now)
           /\ Refreshed(ids, at, now) \in Seq(NewIdType)
  <1>. DEFINE new == Refreshed(ids, at, now)
              none == <<>>
  <1>1. /\ new \in Seq(IdType) /\ Len(new) = Len(ids) /\ DOMAIN new = DOMAIN ids
        /\ new[at].node = ids[at].node /\ new[at].seen = now
        /\ \A r \in DOMAIN ids : r # at => new[r] = ids[r]
    BY RefreshedIs
  <1>. HIDE DEF new
  <1>2. new \in Seq(NewIdType)
    BY <1>1, NamedAreIds
  <1>3. \A r \in DOMAIN new : new[r].node = ids[r].node
    BY <1>1
  <1>4. \A r \in DOMAIN new : new[r] \in IdType
    BY <1>1, IdFields
  <1>8. OneEach(new)
    BY <1>1, <1>3 DEF OneEach
  <1>9. none \in Seq(IdType) /\ DOMAIN none = {} /\ Nodes(none) = {}
    BY DEF Nodes
  <1>10. Nodes(new) = Nodes(ids)
    BY <1>1, <1>3 DEF Nodes
  <1>11. ids[at].node \in Nodes(ids)
    BY DEF Nodes
  <1>. HIDE DEF none
  <1>12. Nodes(new) = (Nodes(ids) \ Nodes(none)) \cup {ids[at].node}
    BY <1>9, <1>10, <1>11
  <1>13. \A r \in DOMAIN new : r # at =>
            new[r] \in IdType /\ \E i \in DOMAIN ids : new[r] = ids[i] /\ ids[i].node # ids[at].node
    BY <1>1, <1>4 DEF OneEach
  <1>14. InOrder(ids, new)
    BY <1>1, <1>3 DEF InOrder, OneEach
  <1>15. Parts(ids, none, ids[at].node, now)
    BY <1>9 DEF Parts, OldestGo
  <1>16. Len(new) <= VIRT_ID_MAX_SLOTS
    BY <1>1
  <1>17. Holds(ids, new, none, at, ids[at].node, now)
    BY <1>1, <1>8, <1>12, <1>13, <1>14, <1>16 DEF Holds
  <1>. QED
    BY <1>2, <1>15, <1>17 DEF none, new

\* Append puts an element behind the others.
LEMMA AppendIs ==
    ASSUME NEW S, NEW s \in Seq(S), NEW e \in S
    PROVE  /\ Append(s, e) \in Seq(S) /\ Len(Append(s, e)) = Len(s) + 1
           /\ DOMAIN Append(s, e) = 1 .. Len(s) + 1 /\ Append(s, e)[Len(s) + 1] = e
           /\ \A r \in 1 .. Len(s) : Append(s, e)[r] = s[r]
  OBVIOUS

\* The same, as a fact about the new vector.
LEMMA AppendAt ==
    ASSUME NEW S, NEW s \in Seq(S), NEW e \in S, NEW r \in 1 .. Len(s)
    PROVE  Append(s, e)[r] = s[r]
  BY AppendIs

\* The vector new is base with the node's identity behind it.
AddedBehind(new, base, node, now) ==
    /\ new \in Seq(NewIdType) /\ Len(new) = Len(base) + 1 /\ DOMAIN new = 1 .. Len(base) + 1
    /\ new[Len(base) + 1].node = node /\ new[Len(base) + 1].seen = now
    /\ new[Len(base) + 1].name = ""
    /\ \A r \in 1 .. Len(base) : new[r] = base[r]

\* An identity is added behind the others.
LEMMA CreatedIs ==
    ASSUME NEW base \in Seq(IdType), NEW now \in 0 .. CLOCK_MOD - 1, NEW node \in MeshUsers
    PROVE  AddedBehind(Created(base, node, now), base, node, now)
  <1>. DEFINE id == [node |-> node, seen |-> now, name |-> ""]
              new == Append(base, id)
  <1>1. id \in NewIdType /\ id.node = node /\ id.seen = now /\ id.name = ""
    BY DEF NewIdType
  <1>2. base \in Seq(NewIdType)
    BY NamedAreIds
  <1>3. Created(base, node, now) = new
    BY DEF Created
  <1>. HIDE DEF id
  <1>4. /\ new \in Seq(NewIdType) /\ Len(new) = Len(base) + 1
        /\ DOMAIN new = 1 .. Len(base) + 1 /\ new[Len(base) + 1] = id
    BY <1>1, <1>2, AppendIs, ZenonT(40)
  <1>5. \A r \in 1 .. Len(base) : new[r] = base[r]
    BY <1>1, <1>2, AppendAt, Zenon
  <1>. HIDE DEF new
  <1>. QED
    BY <1>1, <1>3, <1>4, <1>5 DEF AddedBehind

\* The node gets an identity behind those that stay.
LEMMA CreatedHolds ==
    ASSUME NEW ids \in Seq(IdType), NEW base, NEW gone, Removes(ids, base, gone),
           NEW now \in 0 .. CLOCK_MOD - 1, NEW node \in MeshUsers, node \notin Nodes(ids),
           Len(base) < VIRT_ID_MAX_SLOTS, gone = <<>> => base = ids
    PROVE  /\ Holds(ids, Created(base, node, now), gone, Len(base) + 1, node, now)
           /\ Created(base, node, now) \in Seq(NewIdType)
           /\ Created(base, node, now)[Len(base) + 1].name = ""
  <1>. DEFINE n == Len(base)
              new == Created(base, node, now)
  <1>0. base \in Seq(IdType) /\ VIRT_ID_MAX_SLOTS \in Nat
    BY RegistryAssumption DEF Removes
  <1>1. n \in Nat /\ DOMAIN base = 1 .. n /\ n < VIRT_ID_MAX_SLOTS
    BY <1>0
  <1>14. AddedBehind(new, base, node, now)
    BY <1>0, CreatedIs
  <1>. HIDE DEF new
  <1>2. /\ new \in Seq(NewIdType) /\ Len(new) = n + 1 /\ DOMAIN new = 1 .. n + 1
        /\ new[n + 1].node = node /\ new[n + 1].seen = now /\ new[n + 1].name = ""
        /\ \A r \in 1 .. n : new[r] = base[r]
    BY <1>14, Zenon DEF AddedBehind
  <1>. HIDE DEF n
  <1>3. n + 1 \in 1 .. n + 1 /\ 1 .. n \subseteq 1 .. n + 1 /\ n + 1 <= VIRT_ID_MAX_SLOTS
        /\ \A r \in 1 .. n + 1 : r = n + 1 \/ r \in 1 .. n
    BY <1>0, <1>1
  <1>4. \A r \in DOMAIN new : r = n + 1 \/ r \in 1 .. n
    BY <1>2, <1>3
  <1>5. n + 1 \in DOMAIN new /\ 1 .. n \subseteq DOMAIN new
    BY <1>2, <1>3
  <1>6. \A r \in 1 .. n : base[r] \in IdType /\ base[r].node # node
        /\ \E i \in DOMAIN ids : base[r] = ids[i] /\ ids[i].node # node
    <2>1. \A i \in DOMAIN ids : ids[i].node # node
      BY DEF Nodes
    <2>2. \A r \in DOMAIN base : \E i \in DOMAIN ids : base[r] = ids[i]
      BY DEF Removes
    <2>3. \A r \in DOMAIN base : base[r] \in IdType
      BY <1>0, IdFields
    <2>. QED
      BY <1>1, <2>1, <2>2, <2>3
  <1>7. OneEach(new)
    <2>1. \A r, q \in 1 .. n : base[r].node = base[q].node => r = q
      BY <1>1 DEF Removes, OneEach
    <2>. SUFFICES ASSUME NEW r \in DOMAIN new, NEW q \in DOMAIN new, new[r].node = new[q].node
                  PROVE  r = q
      BY DEF OneEach
    <2>2. CASE r \in 1 .. n /\ q \in 1 .. n
      BY <1>2, <2>1, <2>2
    <2>3. CASE r \in 1 .. n /\ q = n + 1
      BY <1>2, <1>6, <2>3
    <2>4. CASE r = n + 1 /\ q \in 1 .. n
      BY <1>2, <1>6, <2>4
    <2>. QED
      BY <1>4, <2>2, <2>3, <2>4
  <1>8. Nodes(new) = Nodes(base) \cup {node}
    BY <1>1, <1>2, <1>4, <1>5 DEF Nodes
  <1>9. Nodes(new) = (Nodes(ids) \ Nodes(gone)) \cup {node}
    BY <1>8 DEF Removes
  <1>10. InOrder(ids, new)
    <2>. SUFFICES ASSUME NEW i \in DOMAIN ids, NEW j \in DOMAIN ids,
                         NEW r \in DOMAIN new, NEW q \in DOMAIN new,
                         ids[i].node = new[r].node, ids[j].node = new[q].node, i < j
                  PROVE  r < q
      BY DEF InOrder
    <2>1. ids[i].node # node /\ ids[j].node # node
      BY DEF Nodes
    <2>2. r \in DOMAIN base /\ q \in DOMAIN base
      BY <1>1, <1>2, <1>4, <2>1
    <2>3. new[r] = base[r] /\ new[q] = base[q]
      BY <1>1, <1>2, <2>2
    <2>. QED
      BY <2>2, <2>3 DEF Removes, InOrder
  <1>11. \A r \in DOMAIN new : r # n + 1 =>
            new[r] \in IdType /\ \E i \in DOMAIN ids : new[r] = ids[i] /\ ids[i].node # node
    <2>. SUFFICES ASSUME NEW r \in DOMAIN new, r # n + 1
                  PROVE  /\ new[r] \in IdType
                         /\ \E i \in DOMAIN ids : new[r] = ids[i] /\ ids[i].node # node
      OBVIOUS
    <2>1. r \in 1 .. n
      BY <1>4
    <2>2. new[r] = base[r]
      BY <1>2, <2>1
    <2>. QED
      BY <1>6, <2>1, <2>2
  <1>12. Len(new) <= VIRT_ID_MAX_SLOTS
    BY <1>2, <1>3
  <1>13. Holds(ids, new, gone, n + 1, node, now)
    BY <1>2, <1>5, <1>7, <1>9, <1>10, <1>11, <1>12 DEF Holds
  <1>. QED
    BY <1>2, <1>13 DEF n, new

\* What get_or_create leaves, with an identity or without.
GotIt(ids, got, node, now) ==
    /\ Parts(ids, got.evicted, node, now)
    /\ got.at # 0 =>
          /\ Holds(ids, got.ids, got.evicted, got.at, node, now)
          /\ got.ids \in Seq(NewIdType)
          /\ got.ids[got.at].name # "" => node \in Nodes(ids)
    /\ got.at = 0 =>
          /\ Removes(ids, got.ids, got.evicted)
          /\ got.evicted = <<>> => got.ids = ids
          /\ node \notin Nodes(ids)

\* get_or_create finds the identity, makes it or does without.
LEMMA GotHolds ==
    ASSUME NEW ids \in Seq(IdType), OneEach(ids), Len(ids) <= VIRT_ID_MAX_SLOTS,
           NEW node \in MeshUsers, NEW heap_now \in Nat, NEW now \in 0 .. CLOCK_MOD - 1,
           NEW derives
    PROVE  GotIt(ids, GetOrCreate(ids, node, heap_now, now, derives), node, now)
  <1>. DEFINE F == Find(ids, node)
              room == MakeRoom(ids, heap_now, now)
              got == GetOrCreate(ids, node, heap_now, now, derives)
  <1>1. Len(ids) \in Nat /\ DOMAIN ids = 1 .. Len(ids) /\ now \in Nat
    BY RegistryAssumption
  <1>2. CASE F # {}
    <2>. DEFINE i == CHOOSE k \in F : TRUE
                new == Refreshed(ids, i, now)
                none == <<>>
    <2>1. i \in DOMAIN ids /\ ids[i].node = node
      BY <1>2 DEF Find
    <2>2. got = [ids |-> new, evicted |-> none, at |-> i]
      BY <1>2 DEF GetOrCreate, Refreshed
    <2>. HIDE DEF i, got
    <2>3. Holds(ids, new, none, i, node, now) /\ Parts(ids, none, node, now)
          /\ new \in Seq(NewIdType)
      BY <2>1, FoundHolds
    <2>4. node \in Nodes(ids) /\ i # 0
      BY <1>1, <2>1 DEF Nodes
    <2>. HIDE DEF new, none
    <2>5. got.ids = new /\ got.evicted = none /\ got.at = i
      BY <2>2
    <2>6. GotIt(ids, got, node, now)
      BY <2>3, <2>4, <2>5 DEF GotIt
    <2>. QED
      BY <2>6 DEF got
  <1>3. CASE F = {}
    <2>1. /\ Removes(ids, room.ids, room.evicted) /\ OldestGo(ids, room.evicted, now)
          /\ room.evicted = <<>> => room.ids = ids
      BY <1>1, RoomIsMade
    <2>2. node \notin Nodes(ids)
      BY <1>3 DEF Find, Nodes
    <2>4. CASE CanGrow(room.ids, heap_now) /\ derives
      <3>. DEFINE new == Created(room.ids, node, now)
                  at == Len(room.ids) + 1
      <3>1. got = [ids |-> new, evicted |-> room.evicted, at |-> at]
        BY <1>3, <2>4 DEF GetOrCreate, Created
      <3>. HIDE DEF room, got
      <3>2. Len(room.ids) < VIRT_ID_MAX_SLOTS /\ Len(room.ids) \in Nat
        BY <2>1, <2>4 DEF CanGrow, Removes
      <3>3. Parts(ids, room.evicted, node, now)
        <4>1. node \notin Nodes(room.evicted)
          BY <2>1, <2>2 DEF Removes, Nodes
        <4>. QED
          BY <2>1, <4>1 DEF Parts, Removes
      <3>5. Holds(ids, new, room.evicted, at, node, now)
            /\ new \in Seq(NewIdType) /\ new[at].name = ""
        BY <2>1, <2>2, <3>2, CreatedHolds
      <3>6. at # 0
        BY <3>2
      <3>. HIDE DEF at, new
      <3>7. got.ids = new /\ got.evicted = room.evicted /\ got.at = at
        BY <3>1
      <3>8. GotIt(ids, got, node, now)
        BY <3>3, <3>5, <3>6, <3>7 DEF GotIt
      <3>. QED
        BY <3>8 DEF got
    <2>5. CASE ~(CanGrow(room.ids, heap_now) /\ derives)
      <3>1. got = [ids |-> room.ids, evicted |-> room.evicted, at |-> 0]
        BY <1>3, <2>5 DEF GetOrCreate
      <3>. HIDE DEF room, got
      <3>2. got.ids = room.ids /\ got.evicted = room.evicted /\ got.at = 0
        BY <3>1
      <3>3. Parts(ids, room.evicted, node, now)
        <4>1. node \notin Nodes(room.evicted)
          BY <2>1, <2>2 DEF Removes, Nodes
        <4>. QED
          BY <2>1, <4>1 DEF Parts, Removes
      <3>4. GotIt(ids, got, node, now)
        BY <2>1, <2>2, <3>2, <3>3 DEF GotIt
      <3>. QED
        BY <3>4 DEF got
    <2>. QED
      BY <2>4, <2>5
  <1>. QED
    BY <1>2, <1>3

\* Setting a name leaves everything else.
LEMMA NamedIs ==
    ASSUME NEW ids \in Seq(NewIdType), NEW at \in DOMAIN ids, NEW name \in MeshNames,
           \A r \in DOMAIN ids : r # at => ids[r] \in IdType
    PROVE  /\ Named(ids, at, name) \in Seq(IdType)
           /\ Len(Named(ids, at, name)) = Len(ids)
           /\ DOMAIN Named(ids, at, name) = DOMAIN ids
           /\ Named(ids, at, name)[at].node = ids[at].node
           /\ Named(ids, at, name)[at].seen = ids[at].seen
           /\ \A r \in DOMAIN ids : r # at => Named(ids, at, name)[r] = ids[r]
  <1>. DEFINE e == IF ids[at].name = "" THEN [ids[at] EXCEPT !.name = name] ELSE ids[at]
              new == [ids EXCEPT ![at] = e]
  <1>1. ids[at] \in NewIdType /\ ids \in [DOMAIN ids -> NewIdType]
    OBVIOUS
  <1>2. e \in IdType /\ e.node = ids[at].node /\ e.seen = ids[at].seen
    BY <1>1 DEF IdType, NewIdType
  <1>3. Named(ids, at, name) = new
    <2>1. CASE ids[at].name = ""
      BY <2>1 DEF Named
    <2>2. CASE ids[at].name # ""
      <3>1. e = ids[at]
        BY <2>2
      <3>. HIDE DEF e
      <3>2. new = ids
        BY <1>1, <3>1
      <3>. QED
        BY <2>2, <3>2 DEF Named
    <2>. QED
      BY <2>1, <2>2
  <1>. HIDE DEF e
  <1>4. /\ DOMAIN new = DOMAIN ids /\ new[at] = e
        /\ \A r \in DOMAIN ids : r # at => new[r] = ids[r]
    OBVIOUS
  <1>5. new \in [DOMAIN ids -> IdType]
    BY <1>2
  <1>6. Len(ids) \in Nat /\ DOMAIN ids = 1 .. Len(ids)
    OBVIOUS
  <1>. HIDE DEF new
  <1>7. new \in Seq(IdType) /\ Len(new) = Len(ids)
    BY <1>5, <1>6, FunctionIsSeq
  <1>. QED
    BY <1>2, <1>3, <1>4, <1>7

\* The identity is given its name if it has none.
LEMMA NamedHolds ==
    ASSUME NEW ids, NEW new \in Seq(NewIdType), NEW gone, NEW at, NEW node, NEW now,
           Holds(ids, new, gone, at, node, now), NEW name \in MeshNames
    PROVE  Holds(ids, Named(new, at, name), gone, at, node, now)
           /\ Named(new, at, name) \in Seq(IdType)
  <1>. DEFINE named == Named(new, at, name)
  <1>1. at \in DOMAIN new /\ \A r \in DOMAIN new : r # at => new[r] \in IdType
    BY DEF Holds
  <1>2. /\ named \in Seq(IdType) /\ Len(named) = Len(new) /\ DOMAIN named = DOMAIN new
        /\ named[at].node = new[at].node /\ named[at].seen = new[at].seen
        /\ \A r \in DOMAIN new : r # at => named[r] = new[r]
    BY <1>1, NamedIs
  <1>. HIDE DEF named
  <1>5. \A r \in DOMAIN new : named[r].node = new[r].node
    BY <1>2
  <1>8. OneEach(named)
    BY <1>2, <1>5 DEF OneEach, Holds
  <1>9. Nodes(named) = Nodes(new)
    BY <1>2, <1>5 DEF Nodes
  <1>10. InOrder(ids, named)
    BY <1>2, <1>5 DEF InOrder, Holds
  <1>11. Holds(ids, named, gone, at, node, now)
    BY <1>1, <1>2, <1>5, <1>8, <1>9, <1>10 DEF Holds
  <1>. QED
    BY <1>2, <1>11 DEF named
-----------------------------------------------------------------------------
(* What goes out over BLE                                                   *)

\* A function on 1..n has length n.
LEMMA LenOfFunction ==
    ASSUME NEW n \in Nat, NEW fn, DOMAIN fn = 1 .. n, fn = [i \in 1 .. n |-> fn[i]]
    PROVE  Len(fn) = n /\ fn \in Seq({fn[i] : i \in 1 .. n})
  <1>. DEFINE S == {fn[i] : i \in 1 .. n}
  <1>1. fn \in [1 .. n -> S]
    OBVIOUS
  <1>. HIDE DEF S
  <1>2. fn \in Seq(S) /\ Len(fn) = n
    BY <1>1, FunctionIsSeq
  <1>. QED
    BY <1>2 DEF S

\* The elements of two sequences, one behind the other.
LEMMA ConcatIs ==
    ASSUME NEW S, NEW s \in Seq(S), NEW u \in Seq(S)
    PROVE  /\ s \o u \in Seq(S) /\ Len(s \o u) = Len(s) + Len(u)
           /\ DOMAIN (s \o u) = 1 .. Len(s) + Len(u)
           /\ \A i \in 1 .. Len(s) : (s \o u)[i] = s[i]
           /\ \A i \in 1 .. Len(u) : (s \o u)[Len(s) + i] = u[i]
  <1>1. Len(s) \in Nat /\ Len(u) \in Nat
    OBVIOUS
  <1>2. /\ s \o u \in Seq(S) /\ Len(s \o u) = Len(s) + Len(u)
        /\ DOMAIN (s \o u) = 1 .. Len(s) + Len(u)
    OBVIOUS
  <1>3. ASSUME NEW i \in 1 .. Len(s) PROVE (s \o u)[i] = s[i]
    <2>1. i \in 1 .. Len(s) + Len(u) /\ i <= Len(s)
      BY <1>1
    <2>. QED
      BY <2>1
  <1>4. ASSUME NEW i \in 1 .. Len(u) PROVE (s \o u)[Len(s) + i] = u[i]
    <2>1. Len(s) + i \in 1 .. Len(s) + Len(u) /\ ~ (Len(s) + i <= Len(s))
          /\ Len(s) + i - Len(s) = i
      BY <1>1
    <2>. QED
      BY <2>1
  <1>. QED
    BY <1>2, <1>3, <1>4

\* The farewells of the identities in gone, and then tail.
Follows(ble, gone, tail) ==
    /\ Len(gone) \in Nat /\ DOMAIN gone = 1 .. Len(gone)
    /\ Len(tail) \in Nat /\ DOMAIN tail = 1 .. Len(tail)
    /\ DOMAIN ble = 1 .. Len(gone) + Len(tail)
    /\ \A i \in 1 .. Len(gone) : ble[i] = MessageAs(gone[i].node, Farewell(gone[i]))
    /\ \A i \in 1 .. Len(tail) : ble[Len(gone) + i] = tail[i]

\* What the farewells and a tail look like.
LEMMA FarewellsFirst ==
    ASSUME NEW gone \in Seq(IdType), NEW T, NEW tail \in Seq(T)
    PROVE  /\ Follows(EvictionFarewells(gone) \o tail, gone, tail)
           /\ Follows(EvictionFarewells(gone), gone, <<>>)
  <1>. DEFINE n == Len(gone)
              F == EvictionFarewells(gone)
              P == {F[i] : i \in 1 .. n}
              S == P \cup T
  <1>1. n \in Nat /\ DOMAIN gone = 1 .. n
    OBVIOUS
  <1>2. /\ DOMAIN F = 1 .. n /\ F = [i \in 1 .. n |-> F[i]]
        /\ \A i \in 1 .. n : F[i] = MessageAs(gone[i].node, Farewell(gone[i]))
    BY <1>1 DEF EvictionFarewells
  <1>. HIDE DEF n, F
  <1>3. Len(F) = n /\ F \in Seq(P)
    BY <1>1, <1>2, LenOfFunction
  <1>. HIDE DEF P
  <1>4. F \in [1 .. n -> S]
    BY <1>2 DEF P
  <1>5. F \in Seq(S)
    <2>. HIDE DEF S
    <2>. QED
      BY <1>1, <1>4, FunctionIsSeq
  <1>6. Len(tail) \in Nat /\ DOMAIN tail = 1 .. Len(tail) /\ tail \in [1 .. Len(tail) -> T]
    OBVIOUS
  <1>7. tail \in [1 .. Len(tail) -> S]
    BY <1>6
  <1>8. tail \in Seq(S)
    <2>. HIDE DEF S
    <2>. QED
      BY <1>6, <1>7, FunctionIsSeq
  <1>. HIDE DEF S
  <1>9. /\ DOMAIN (F \o tail) = 1 .. Len(F) + Len(tail)
        /\ \A i \in 1 .. Len(F) : (F \o tail)[i] = F[i]
        /\ \A i \in 1 .. Len(tail) : (F \o tail)[Len(F) + i] = tail[i]
    BY <1>5, <1>8, ConcatIs
  <1>. DEFINE b == F \o tail
  <1>10. /\ DOMAIN b = 1 .. n + Len(tail)
         /\ \A i \in 1 .. n : b[i] = MessageAs(gone[i].node, Farewell(gone[i]))
         /\ \A i \in 1 .. Len(tail) : b[n + i] = tail[i]
    <2>. HIDE DEF b
    <2>. QED
      BY <1>2, <1>3, <1>9 DEF b
  <1>. HIDE DEF b
  <1>11. Follows(b, gone, tail)
    BY <1>1, <1>6, <1>10 DEF Follows, n
  <1>. DEFINE none == <<>>
  <1>12. Len(none) \in Nat /\ Len(none) = 0 /\ DOMAIN none = 1 .. 0
    OBVIOUS
  <1>. HIDE DEF none
  <1>13. n + 0 = n /\ \A i \in 1 .. 0 : FALSE
    BY <1>1
  <1>14. Follows(F, gone, none)
    BY <1>1, <1>2, <1>12, <1>13 DEF Follows, n
  <1>. QED
    BY <1>11, <1>14 DEF b, F, none

\* A farewell is a message of the identity that leaves.
LEMMA FarewellFields ==
    ASSUME NEW id
    PROVE  /\ MessageAs(id.node, Farewell(id)).type = "message"
           /\ MessageAs(id.node, Farewell(id)).as = id.node
           /\ MessageAs(id.node, Farewell(id)).text[1] = "farewell"
  BY DEF MessageAs, Farewell

\* Who announces and who departs when farewells come first.
LEMMA FollowsSays ==
    ASSUME NEW ble, NEW gone, NEW tail, Follows(ble, gone, tail)
    PROVE  /\ Announced(ble) = Announced(tail)
           /\ Departed(ble) = Nodes(gone) \cup Departed(tail)
  <1>. DEFINE n == Len(gone)
              m == Len(tail)
  <1>1. /\ n \in Nat /\ DOMAIN gone = 1 .. n /\ m \in Nat /\ DOMAIN tail = 1 .. m
        /\ DOMAIN ble = 1 .. n + m
        /\ \A i \in 1 .. n : ble[i] = MessageAs(gone[i].node, Farewell(gone[i]))
        /\ \A i \in 1 .. m : ble[n + i] = tail[i]
    BY DEF Follows
  <1>. HIDE DEF n, m
  <1>2. \A i \in 1 .. n : /\ ble[i].type = "message" /\ ble[i].as = gone[i].node
                          /\ ble[i].text[1] = "farewell"
    BY <1>1, FarewellFields
  <1>3. \A i \in 1 .. n : i \in 1 .. n + m
    BY <1>1
  <1>4. \A i \in 1 .. m : n + i \in 1 .. n + m
    BY <1>1
  <1>5. \A j \in 1 .. n + m : j \in 1 .. n \/ \E i \in 1 .. m : j = n + i
    <2>. SUFFICES ASSUME NEW j \in 1 .. n + m, j \notin 1 .. n PROVE \E i \in 1 .. m : j = n + i
      OBVIOUS
    <2>1. j - n \in 1 .. m /\ j = n + (j - n)
      BY <1>1
    <2>. QED
      BY <2>1
  <1>6. Announced(ble) \subseteq Announced(tail)
    <2>. SUFFICES ASSUME NEW j \in 1 .. n + m, ble[j].type = "announce"
                  PROVE  ble[j].as \in Announced(tail)
      BY <1>1 DEF Announced
    <2>1. j \notin 1 .. n
      BY <1>2
    <2>2. PICK i \in 1 .. m : j = n + i
      BY <1>5, <2>1
    <2>3. ble[j] = tail[i]
      BY <1>1, <2>2
    <2>. QED
      BY <1>1, <2>3 DEF Announced
  <1>7. Announced(tail) \subseteq Announced(ble)
    BY <1>1, <1>4 DEF Announced
  <1>8. Departed(ble) \subseteq Nodes(gone) \cup Departed(tail)
    <2>. SUFFICES ASSUME NEW j \in 1 .. n + m, ble[j].text[1] = "farewell"
                  PROVE  ble[j].as \in Nodes(gone) \cup Departed(tail)
      BY <1>1 DEF Departed
    <2>1. CASE j \in 1 .. n
      <3>1. ble[j].as = gone[j].node
        BY <1>2, <2>1
      <3>. QED
        BY <1>1, <2>1, <3>1 DEF Nodes
    <2>2. CASE j \notin 1 .. n
      <3>1. PICK i \in 1 .. m : j = n + i
        BY <1>5, <2>2
      <3>2. ble[j] = tail[i]
        BY <1>1, <3>1
      <3>. QED
        BY <1>1, <3>2 DEF Departed
    <2>. QED
      BY <2>1, <2>2
  <1>9. Nodes(gone) \subseteq Departed(ble)
    BY <1>1, <1>2, <1>3 DEF Departed, Nodes
  <1>10. Departed(tail) \subseteq Departed(ble)
    BY <1>1, <1>4 DEF Departed
  <1>. QED
    BY <1>6, <1>7, <1>8, <1>9, <1>10

\* Every message goes out under the bridge's identity, one of the vector, or
\* one announced earlier in the sequence.
Spoken(ids, ble) ==
    \A j \in DOMAIN ble :
        ble[j].type = "message" /\ ble[j].as # Bridge =>
            ble[j].as \in Nodes(ids) \cup Announced(SubSeq(ble, 1, j - 1))

\* The packets of tail announce A, say no farewell, and speak as who, after the
\* announce if there is one.
Speech(tail, who, A) ==
    /\ Announced(tail) = A /\ Departed(tail) = {}
    /\ \A j \in DOMAIN tail :
          tail[j].type = "message" =>
              /\ tail[j].as = who
              /\ \/ A = {}
                 \/ \E k \in DOMAIN tail :
                       k < j /\ tail[k].type = "announce" /\ tail[k].as = who

\* An announce earlier in a sequence is one of those before a position.
LEMMA AnnouncedEarlier ==
    ASSUME NEW ble, NEW n \in Nat, DOMAIN ble = 1 .. n, NEW j \in 1 .. n, NEW k \in 1 .. n,
           k < j, ble[k].type = "announce"
    PROVE  ble[k].as \in Announced(SubSeq(ble, 1, j - 1))
  <1>. DEFINE s == SubSeq(ble, 1, j - 1)
  <1>1. DOMAIN s = 1 .. j - 1 /\ \A i \in 1 .. j - 1 : s[i] = ble[i]
    OBVIOUS
  <1>2. k \in 1 .. j - 1
    OBVIOUS
  <1>. HIDE DEF s
  <1>3. k \in DOMAIN s /\ s[k] = ble[k]
    BY <1>1, <1>2
  <1>4. ble[k].as \in Announced(s)
    BY <1>3 DEF Announced
  <1>. QED
    BY <1>4 DEF s

\* After the farewells of registered identities, a speech is spoken for.
LEMMA SpeechIsSpoken ==
    ASSUME NEW ids, NEW ble, NEW gone, NEW tail, NEW who, NEW A,
           Follows(ble, gone, tail), Speech(tail, who, A), Nodes(gone) \subseteq Nodes(ids),
           A = {} => who = Bridge \/ who \in Nodes(ids)
    PROVE  Spoken(ids, ble)
  <1>. DEFINE n == Len(gone)
              m == Len(tail)
  <1>1. /\ n \in Nat /\ DOMAIN gone = 1 .. n /\ m \in Nat /\ DOMAIN tail = 1 .. m
        /\ DOMAIN ble = 1 .. n + m
        /\ \A i \in 1 .. n : ble[i] = MessageAs(gone[i].node, Farewell(gone[i]))
        /\ \A i \in 1 .. m : ble[n + i] = tail[i]
    BY DEF Follows
  <1>. HIDE DEF n, m
  <1>5. \A i \in 1 .. n : ble[i].as = gone[i].node
    BY <1>1, FarewellFields
  <1>2. \A i \in 1 .. n : ble[i].as \in Nodes(gone)
    BY <1>1, <1>5 DEF Nodes
  <1>. SUFFICES ASSUME NEW j \in 1 .. n + m, ble[j].type = "message", ble[j].as # Bridge
                PROVE  ble[j].as \in Nodes(ids) \cup Announced(SubSeq(ble, 1, j - 1))
    BY <1>1 DEF Spoken
  <1>3. CASE j \in 1 .. n
    BY <1>2, <1>3
  <1>4. CASE j \notin 1 .. n
    <2>. DEFINE i == j - n
    <2>1. i \in 1 .. m /\ j = n + i
      BY <1>1, <1>4
    <2>. HIDE DEF i
    <2>2. ble[j] = tail[i]
      BY <1>1, <2>1
    <2>3. CASE A = {}
      BY <1>1, <2>1, <2>2, <2>3 DEF Speech
    <2>4. CASE A # {}
      <3>1. ble[j].as = who
        BY <1>1, <2>1, <2>2 DEF Speech
      <3>2. PICK k \in 1 .. m : k < i /\ tail[k].type = "announce" /\ tail[k].as = who
        BY <1>1, <2>1, <2>2, <2>4 DEF Speech
      <3>. DEFINE q == n + k
      <3>3. q \in 1 .. n + m /\ q < j /\ n + m \in Nat
        BY <1>1, <2>1, <3>2
      <3>. HIDE DEF q
      <3>4. ble[q] = tail[k]
        BY <1>1 DEF q
      <3>5. ble[q].as \in Announced(SubSeq(ble, 1, j - 1))
        BY <1>1, <3>2, <3>3, <3>4, AnnouncedEarlier
      <3>. QED
        BY <3>1, <3>2, <3>4, <3>5
    <2>. QED
      BY <2>3, <2>4
  <1>. QED
    BY <1>3, <1>4

\* A message alone is a speech.
LEMMA MessageSpeaks ==
    ASSUME NEW who, NEW text, text[1] # "farewell"
    PROVE  /\ Speech(<<MessageAs(who, text)>>, who, {})
           /\ <<MessageAs(who, text)>> \in Seq({MessageAs(who, text)})
  <1>. DEFINE p == MessageAs(who, text)
              s == <<p>>
  <1>1. p.type = "message" /\ p.as = who /\ p.text = text
    BY DEF MessageAs
  <1>. HIDE DEF p
  <1>2. DOMAIN s = {1} /\ s[1] = p /\ s \in Seq({p})
    OBVIOUS
  <1>. HIDE DEF s
  <1>3. Announced(s) = {} /\ Departed(s) = {}
    BY <1>1, <1>2 DEF Announced, Departed
  <1>4. Speech(s, who, {})
    BY <1>1, <1>2, <1>3 DEF Speech
  <1>. QED
    BY <1>2, <1>4 DEF s, p

\* An announce and then a message is one.
LEMMA AnnounceSpeaks ==
    ASSUME NEW id, NEW text, text[1] # "farewell"
    PROVE  /\ Speech(FirstWords(id, TRUE, text), id.node, {id.node})
           /\ FirstWords(id, TRUE, text) \in Seq({AnnounceOf(id), MessageAs(id.node, text)})
  <1>. DEFINE a == AnnounceOf(id)
              p == MessageAs(id.node, text)
              s == <<a>> \o <<p>>
  <1>1. p.type = "message" /\ p.as = id.node /\ p.text = text
    BY DEF MessageAs
  <1>2. a.type = "announce" /\ a.as = id.node /\ a.text[1] = "name"
    BY DEF AnnounceOf
  <1>3. FirstWords(id, TRUE, text) = s
    BY DEF FirstWords
  <1>. HIDE DEF a, p
  <1>4. DOMAIN s = {1, 2} /\ s[1] = a /\ s[2] = p /\ s \in Seq({a, p})
    <2>. DEFINE u == <<a>>
                v == <<p>>
                S == {a, p}
    <2>1. u \in Seq(S) /\ Len(u) = 1 /\ u[1] = a
      OBVIOUS
    <2>2. v \in Seq(S) /\ Len(v) = 1 /\ v[1] = p
      OBVIOUS
    <2>. HIDE DEF u, v, S
    <2>3. /\ u \o v \in Seq(S) /\ DOMAIN (u \o v) = 1 .. Len(u) + Len(v)
          /\ \A i \in 1 .. Len(u) : (u \o v)[i] = u[i]
          /\ \A i \in 1 .. Len(v) : (u \o v)[Len(u) + i] = v[i]
      BY <2>1, <2>2, ConcatIs
    <2>4. s = u \o v
      BY DEF u, v
    <2>. HIDE DEF s
    <2>5. s \in Seq(S) /\ DOMAIN s = 1 .. 1 + 1 /\ s[1] = a /\ s[1 + 1] = p
      BY <2>1, <2>2, <2>3, <2>4
    <2>. QED
      BY <2>5 DEF S
  <1>. HIDE DEF s
  <1>5. Announced(s) = {id.node} /\ Departed(s) = {}
    BY <1>1, <1>2, <1>4 DEF Announced, Departed
  <1>6. Speech(s, id.node, {id.node})
    BY <1>1, <1>2, <1>4, <1>5 DEF Speech
  <1>. QED
    BY <1>3, <1>4, <1>6 DEF a, p

\* An identity that phones know speaks without an announce.
LEMMA KnownSpeaks ==
    ASSUME NEW id, NEW text
    PROVE  FirstWords(id, FALSE, text) = <<MessageAs(id.node, text)>>
  <1>. DEFINE p == MessageAs(id.node, text)
  <1>. HIDE DEF p
  <1>1. FirstWords(id, FALSE, text) = <<>> \o <<p>>
    BY DEF FirstWords, p
  <1>2. <<>> \o <<p>> = <<p>>
    OBVIOUS
  <1>. QED
    BY <1>1, <1>2 DEF p
-----------------------------------------------------------------------------
(* The clock                                                                *)

\* What % gives, once around.
LEMMA Modulo ==
    ASSUME NEW x \in Nat, NEW m \in Nat \ {0}
    PROVE  /\ x % m \in 0 .. m - 1
           /\ x < m => x % m = x /\ (x + m) % m = x
  OBVIOUS

\* millis() is below its modulus, and is the time until it wraps.
LEMMA MillisIs ==
    ASSUME time \in Nat
    PROVE  millis \in 0 .. CLOCK_MOD - 1 /\ (time < CLOCK_MOD => millis = time)
  BY RegistryAssumption, Modulo DEF millis

\* A difference of times that did not wrap.
LEMMA SinceIs ==
    ASSUME NEW s \in Nat, NEW now \in Nat, s <= now, now < CLOCK_MOD
    PROVE  Since(s, now) = now - s
  <1>. DEFINE x == now - s
  <1>1. CLOCK_MOD \in Nat \ {0}
    BY RegistryAssumption
  <1>2. x \in Nat /\ x < CLOCK_MOD /\ now + CLOCK_MOD - s = x + CLOCK_MOD
    BY <1>1
  <1>3. Since(s, now) = (x + CLOCK_MOD) % CLOCK_MOD
    BY <1>2 DEF Since
  <1>. HIDE DEF x
  <1>4. (x + CLOCK_MOD) % CLOCK_MOD = x
    BY <1>1, <1>2, Modulo
  <1>. QED
    BY <1>3, <1>4 DEF x
-----------------------------------------------------------------------------
(* The inductive step: the registry and its history                         *)

\* An evicted identity was silent at least as long, until the clock wraps.
LeastRecentGo ==
    MaxTime < CLOCK_MOD =>
        \A gone \in Nodes(did'.evicted), stays \in Nodes(identities) \ Nodes(did'.evicted) :
            heard[gone] <= heard[stays]

\* The announce cycle ends with no more due than were evicted from behind it.
CycleDone == announce.idx >= 0 /\ announce'.idx < 0 => Cardinality(due) <= overtaken

\* What a step does to the registry and says of it.
RegistryStep ==
    /\ identities' \in Seq(IdType) /\ Len(identities') <= VIRT_ID_MAX_SLOTS
    /\ heard' \in [MeshUsers -> Nat] /\ (\A u \in MeshUsers : heard'[u] <= time')
    /\ overtaken' \in Nat
    /\ OneIdentityPerUser' /\ PeersSeeRegistry' /\ DueAhead' /\ SeenIsHeard'
    /\ Spoken(identities, did'.ble) /\ LeastRecentGo /\ CycleDone

\* Facts of the invariant that every step uses.
LEMMA Registered ==
    ASSUME IInv
    PROVE  /\ identities \in Seq(IdType) /\ Len(identities) <= VIRT_ID_MAX_SLOTS
           /\ Len(identities) \in Nat /\ DOMAIN identities = 1 .. Len(identities)
           /\ OneEach(identities) /\ time \in Nat /\ time <= MaxTime
           /\ heap \in Nat /\ millis \in 0 .. CLOCK_MOD - 1
           /\ heard \in [MeshUsers -> Nat] /\ (\A u \in MeshUsers : heard[u] <= time)
           /\ (MaxTime < CLOCK_MOD => millis = time)
  <1>1. identities \in Seq(IdType) /\ Len(identities) <= VIRT_ID_MAX_SLOTS
    BY DEF IInv, StateType, TypeOK
  <1>2. OneEach(identities)
    BY DEF IInv, OneIdentityPerUser, OneEach
  <1>3. heap \in Nat
    BY BridgeAssumption DEF IInv, TypeOK
  <1>4. time \in Nat /\ time <= MaxTime
    BY DEF IInv, TypeOK, StateType
  <1>5. millis \in 0 .. CLOCK_MOD - 1 /\ (time < CLOCK_MOD => millis = time)
    BY <1>4, MillisIs
  <1>6. MaxTime < CLOCK_MOD => time < CLOCK_MOD
    BY <1>4, BridgeAssumption, RegistryAssumption
  <1>7. heard \in [MeshUsers -> Nat] /\ (\A u \in MeshUsers : heard[u] <= time)
    BY DEF IInv, StateType
  <1>8. Len(identities) \in Nat /\ DOMAIN identities = 1 .. Len(identities)
    BY <1>1
  <1>. HIDE DEF millis
  <1>. QED
    BY <1>1, <1>2, <1>3, <1>4, <1>5, <1>6, <1>7, <1>8

\* What heard becomes.
LEMMA HeardIs ==
    ASSUME IInv, HNext, time' \in Nat, time <= time'
    PROVE  /\ heard' \in [MeshUsers -> Nat] /\ (\A u \in MeshUsers : heard'[u] <= time')
           /\ \A u \in MeshUsers :
                 heard'[u] = IF did'.forwarded # <<>> /\ did'.forwarded[2] = u
                             THEN time ELSE heard[u]
  <1>1. heard \in [MeshUsers -> Nat] /\ (\A u \in MeshUsers : heard[u] <= time) /\ time \in Nat
    BY Registered
  <1>2. heard' = [u \in MeshUsers |->
                    IF did'.forwarded # <<>> /\ did'.forwarded[2] = u THEN time ELSE heard[u]]
    BY DEF HNext
  <1>3. heard' \in [MeshUsers -> Nat]
        /\ \A u \in MeshUsers :
              heard'[u] = IF did'.forwarded # <<>> /\ did'.forwarded[2] = u
                          THEN time ELSE heard[u]
    BY <1>1, <1>2
  <1>4. ASSUME NEW u \in MeshUsers PROVE heard'[u] <= time'
    <2>1. heard'[u] = time \/ heard'[u] = heard[u]
      BY <1>3
    <2>2. heard[u] \in Nat /\ heard[u] <= time
      BY <1>1
    <2>. QED
      BY <1>1, <2>1, <2>2
  <1>. QED
    BY <1>3, <1>4

\* While the clock does not wrap, the oldest were heard least recently.
LEMMA OldestWereSilent ==
    ASSUME IInv, NEW gone, gone \in Seq(IdType),
           \A r \in DOMAIN gone : \E i \in DOMAIN identities : gone[r] = identities[i],
           OldestGo(identities, gone, millis), MaxTime < CLOCK_MOD,
           NEW g \in Nodes(gone), NEW s \in Nodes(identities) \ Nodes(gone)
    PROVE  heard[g] <= heard[s]
  <1>1. PICK r \in DOMAIN gone : gone[r].node = g
    BY DEF Nodes
  <1>2. PICK i \in DOMAIN identities : gone[r] = identities[i]
    BY <1>1
  <1>3. PICK j \in DOMAIN identities : identities[j].node = s
    BY DEF Nodes
  <1>4. identities[i].seen = heard[g] /\ identities[j].seen = heard[s]
    BY <1>1, <1>2, <1>3 DEF IInv, SeenIsHeard
  <1>5. g \in MeshUsers /\ s \in MeshUsers
    BY <1>1, <1>2, <1>3, Registered, IdFields
  <1>6. /\ heard[g] \in Nat /\ heard[s] \in Nat /\ heard[g] <= time /\ heard[s] <= time
        /\ time \in Nat /\ time < CLOCK_MOD /\ millis = time
    <2>1. /\ heard[g] \in Nat /\ heard[s] \in Nat /\ heard[g] <= time /\ heard[s] <= time
      BY <1>5, Registered
    <2>2. time \in Nat /\ time <= MaxTime /\ millis = time
      BY Registered
    <2>3. time < CLOCK_MOD
      BY <2>2, BridgeAssumption, RegistryAssumption
    <2>. QED
      BY <2>1, <2>2, <2>3
  <1>. HIDE DEF millis
  <1>7. \/ gone[r].seen <= identities[j].seen
        \/ /\ Since(gone[r].seen, millis) > VIRT_ID_TIMEOUT
           /\ ~ (Since(identities[j].seen, millis) > VIRT_ID_TIMEOUT)
    BY <1>1, <1>3 DEF OldestGo
  <1>8. Since(heard[g], time) = time - heard[g] /\ Since(heard[s], time) = time - heard[s]
    BY <1>6, SinceIs
  <1>9. \/ heard[g] <= heard[s]
        \/ /\ time - heard[g] > VIRT_ID_TIMEOUT
           /\ ~ (time - heard[s] > VIRT_ID_TIMEOUT)
    BY <1>2, <1>4, <1>6, <1>7, <1>8
  <1>. QED
    BY <1>6, <1>9, RegistryAssumption

\* The step evicts gone and announces A while the cycle stands still.
Changes(gone, A) ==
    /\ gone \in Seq(IdType)
    /\ \A r \in DOMAIN gone : \E i \in DOMAIN identities : gone[r] = identities[i]
    /\ OldestGo(identities, gone, millis)
    /\ did'.evicted = gone /\ Announced(did'.ble) = A /\ Departed(did'.ble) = Nodes(gone)
    /\ announce' = announce
    /\ identities' \in Seq(IdType) /\ Len(identities') <= VIRT_ID_MAX_SLOTS
    /\ OneEach(identities')
    /\ Nodes(identities') = (Nodes(identities) \cup A) \ Nodes(gone)
    /\ InOrder(identities, identities')

\* A union has at most as many elements as its parts together.
LEMMA UnionAtMost ==
    ASSUME NEW P, IsFiniteSet(P), NEW Q, IsFiniteSet(Q), NEW R, R \subseteq P \cup Q
    PROVE  Cardinality(R) <= Cardinality(P) + Cardinality(Q)
  <1>. DEFINE U == P \cup Q
  <1>1. /\ IsFiniteSet(U)
        /\ Cardinality(U) = Cardinality(P) + Cardinality(Q) - Cardinality(P \cap Q)
    BY FS_Union
  <1>2. IsFiniteSet(P \cap Q)
    BY FS_Subset
  <1>. HIDE DEF U
  <1>3. IsFiniteSet(R) /\ Cardinality(R) <= Cardinality(U)
    BY <1>1, FS_Subset DEF U
  <1>4. /\ Cardinality(R) \in Nat /\ Cardinality(U) \in Nat /\ Cardinality(P) \in Nat
        /\ Cardinality(Q) \in Nat /\ Cardinality(P \cap Q) \in Nat
    BY <1>1, <1>2, <1>3, FS_CardinalityType
  <1>. QED
    BY <1>1, <1>3, <1>4

\* The count of those evicted from behind the cycle stays a number.
LEMMA CountedUp ==
    ASSUME IInv, HNext
    PROVE  overtaken' \in Nat
  <1>1. overtaken \in Nat /\ announce.idx \in Int
    BY DEF IInv, StateType
  <1>. DEFINE D == Passed \cap Nodes(did'.evicted)
  <1>2. Cardinality(D) \in Nat
    <2>1. Passed \subseteq Nodes(identities)
      BY DEF Passed, Nodes
    <2>2. IsFiniteSet(Nodes(identities))
      BY Registered, NodesFinite
    <2>3. IsFiniteSet(D)
      BY <2>1, <2>2, FS_Subset
    <2>. QED
      BY <2>3, FS_CardinalityType
  <1>3. overtaken' = 0 \/ overtaken' = overtaken + Cardinality(D)
    BY DEF HNext
  <1>. QED
    BY <1>1, <1>2, <1>3

\* Such a step keeps the registry's part of the invariant.
LEMMA RegistryChanges ==
    ASSUME IInv, HNext, time' \in Nat, time <= time', NEW gone, NEW A, Changes(gone, A),
           SeenIsHeard', Spoken(identities, did'.ble)
    PROVE  RegistryStep
  <1>1. identities' \in Seq(IdType) /\ Len(identities') <= VIRT_ID_MAX_SLOTS
    BY DEF Changes
  <1>2. heard' \in [MeshUsers -> Nat] /\ (\A u \in MeshUsers : heard'[u] <= time')
    BY HeardIs
  <1>12. announce.idx \in Int /\ announce' = announce
    BY DEF IInv, StateType, Changes
  <1>3. overtaken' \in Nat
    BY <1>12, CountedUp
  <1>4. OneIdentityPerUser'
    BY DEF Changes, OneEach, OneIdentityPerUser
  <1>5. PeersSeeRegistry'
    <2>1. present' = (present \cup Announced(did'.ble)) \ Departed(did'.ble)
      BY DEF HNext
    <2>2. present = Nodes(identities)
      BY DEF IInv, PeersSeeRegistry
    <2>3. present' = Nodes(identities')
      BY <2>1, <2>2 DEF Changes
    <2>. QED
      BY <2>3 DEF PeersSeeRegistry, Nodes
  <1>6. ~CycleStarts
    BY DEF Changes, CycleStarts
  <1>7. DueAhead'
    <2>1. due' = due \ (A \cup Nodes(gone))
      BY <1>6 DEF HNext, Changes
    <2>2. /\ announce'.idx = announce.idx
          /\ announce.idx >= 0 => overtaken' = overtaken + Cardinality(Passed \cap Nodes(gone))
      BY <1>6, <1>12 DEF HNext, Changes
    <2>3. IsFiniteSet(due) /\ IsFiniteSet(due')
      BY <2>1, FS_Subset DEF IInv, DueAhead
    <2>. SUFFICES ASSUME announce.idx >= 0
                  PROVE  Cardinality(due' \ Beyond(identities', announce.idx)) <= overtaken'
      BY <2>2, <2>3 DEF DueAhead, Beyond
    <2>. DEFINE at == announce.idx
                M == (Beyond(identities, at) \ Beyond(identities', at)) \ Nodes(gone)
                H == due \ Beyond(identities, at)
                R == due' \ Beyond(identities', at)
                D == UpTo(identities, at) \cap Nodes(gone)
    <2>4. at \in Nat
      BY DEF IInv, StateType
    <2>5. IsFiniteSet(M) /\ Cardinality(M) <= Cardinality(D)
      <3>1. Nodes(identities) \ Nodes(gone) \subseteq Nodes(identities')
        BY DEF Changes
      <3>2. /\ identities \in Seq(IdType) /\ OneEach(identities)
            /\ identities' \in Seq(IdType) /\ InOrder(identities, identities')
        BY Registered DEF Changes
      <3>. QED
        BY <2>4, <3>1, <3>2, OvertakenBound
    <2>6. IsFiniteSet(H) /\ Cardinality(H) <= overtaken
      BY <2>3, FS_Subset DEF IInv, DueAhead
    <2>7. R \subseteq H \cup M
      BY <2>1
    <2>8. IsFiniteSet(D) /\ Passed \cap Nodes(gone) = D
      <3>1. IsFiniteSet(UpTo(identities, at))
        BY <2>4, Registered, UpToSize
      <3>2. IsFiniteSet(D)
        BY <3>1, FS_Subset
      <3>. QED
        BY <3>2 DEF Passed, UpTo
    <2>. HIDE DEF M, H, R, D
    <2>9. Cardinality(R) <= Cardinality(H) + Cardinality(M)
      BY <2>5, <2>6, <2>7, UnionAtMost
    <2>10. /\ Cardinality(R) \in Nat /\ Cardinality(H) \in Nat /\ Cardinality(M) \in Nat
           /\ Cardinality(D) \in Nat /\ overtaken \in Nat
      <3>1. IsFiniteSet(H \cup M)
        BY <2>5, <2>6, FS_Union
      <3>2. IsFiniteSet(R)
        BY <2>7, <3>1, FS_Subset
      <3>. QED
        BY <2>5, <2>6, <2>8, <3>2, FS_CardinalityType DEF IInv, StateType
    <2>11. overtaken' = overtaken + Cardinality(D)
      BY <2>2, <2>8
    <2>12. Cardinality(R) <= overtaken'
      BY <2>5, <2>6, <2>9, <2>10, <2>11
    <2>. QED
      BY <2>12 DEF R
  <1>8. LeastRecentGo
    <2>. SUFFICES ASSUME MaxTime < CLOCK_MOD, NEW g \in Nodes(gone),
                         NEW s \in Nodes(identities) \ Nodes(gone)
                  PROVE  heard[g] <= heard[s]
      BY DEF LeastRecentGo, Changes
    <2>1. /\ gone \in Seq(IdType)
          /\ \A r \in DOMAIN gone : \E i \in DOMAIN identities : gone[r] = identities[i]
          /\ OldestGo(identities, gone, millis)
      BY DEF Changes
    <2>. QED
      BY <2>1, OldestWereSilent
  <1>9. CycleDone
    <2>1. announce.idx \in Int
      BY DEF IInv, StateType
    <2>. QED
      BY <2>1 DEF CycleDone, Changes
  <1>. QED
    BY <1>1, <1>2, <1>3, <1>4, <1>5, <1>7, <1>8, <1>9 DEF RegistryStep

\* Nothing goes out and nothing changes.
Quiet ==
    /\ UNCHANGED <<identities, announce>>
    /\ did'.ble = <<>> /\ did'.evicted = <<>>
    /\ did'.forwarded = <<>> \/ did'.forwarded[2] = Zero

\* A step that leaves the registry alone.
LEMMA QuietStep ==
    ASSUME IInv, HNext, time' \in Nat, time <= time', Quiet
    PROVE  RegistryStep
  <1>. DEFINE none == <<>>
  <1>1. none \in Seq(IdType) /\ DOMAIN none = {} /\ Nodes(none) = {}
        /\ Announced(none) = {} /\ Departed(none) = {}
    BY DEF Nodes, Announced, Departed
  <1>2. did'.ble = none /\ did'.evicted = none
    BY DEF Quiet
  <1>. HIDE DEF none
  <1>3. OldestGo(identities, none, millis)
    BY <1>1 DEF OldestGo
  <1>4. Changes(none, {})
    <2>1. identities \in Seq(IdType) /\ Len(identities) <= VIRT_ID_MAX_SLOTS /\ OneEach(identities)
      BY Registered
    <2>2. identities' = identities /\ announce' = announce
      BY DEF Quiet
    <2>3. Nodes(identities') = (Nodes(identities) \cup {}) \ Nodes(none)
      BY <1>1, <2>2
    <2>4. InOrder(identities, identities')
      BY <2>1, <2>2 DEF InOrder, OneEach
    <2>. QED
      BY <1>1, <1>2, <1>3, <2>1, <2>2, <2>3, <2>4 DEF Changes
  <1>5. SeenIsHeard'
    <2>. SUFFICES ASSUME MaxTime < CLOCK_MOD, NEW i \in DOMAIN identities
                  PROVE  identities[i].seen = heard'[identities[i].node]
      BY DEF SeenIsHeard, Quiet
    <2>1. identities[i].node \in MeshUsers
      BY Registered, IdFields
    <2>2. ~ (did'.forwarded # <<>> /\ did'.forwarded[2] = identities[i].node)
      BY <2>1, BridgeAssumption DEF Quiet
    <2>3. heard'[identities[i].node] = heard[identities[i].node]
      BY <2>1, <2>2, HeardIs
    <2>. QED
      BY <2>3 DEF IInv, SeenIsHeard
  <1>6. Spoken(identities, did'.ble)
    BY <1>1, <1>2 DEF Spoken
  <1>. QED
    BY <1>4, <1>5, <1>6, RegistryChanges

\* An identity is shed.
LEMMA ShedRegistry ==
    ASSUME IInv, HNext, time' = time, announce' = announce, NEW left, ShedIdentity(left)
    PROVE  RegistryStep
  <1>. DEFINE e == identities[Lru(identities)]
              gone == <<e>>
              none == <<>>
  <1>1. identities \in Seq(IdType) /\ OneEach(identities) /\ identities # <<>>
    BY Registered DEF ShedIdentity
  <1>2. /\ Removes(identities, EvictLru(identities), gone)
        /\ Lru(identities) \in DOMAIN identities
        /\ \A j \in DOMAIN identities : e.seen <= identities[j].seen
    BY <1>1, LruSplits
  <1>3. /\ identities' = EvictLru(identities)
        /\ did'.ble = EvictionFarewells(gone) /\ did'.evicted = gone /\ did'.forwarded = <<>>
    BY DEF ShedIdentity, Nothing
  <1>. HIDE DEF e
  <1>4. DOMAIN gone = {1} /\ gone[1] = e /\ gone # <<>>
    OBVIOUS
  <1>. HIDE DEF gone
  <1>5. OldestGo(identities, gone, millis)
    BY <1>2, <1>4 DEF OldestGo
  <1>6. gone \in Seq(IdType) /\ gone # <<>>
    BY <1>2, <1>4 DEF Removes
  <1>7. none \in Seq({}) /\ Announced(none) = {} /\ Departed(none) = {} /\ DOMAIN none = {}
    BY DEF Announced, Departed
  <1>. HIDE DEF none
  <1>8. Follows(EvictionFarewells(gone), gone, none)
    BY <1>6, <1>7, FarewellsFirst DEF none
  <1>9. Announced(did'.ble) = {} /\ Departed(did'.ble) = Nodes(gone)
    <2>. DEFINE ble == EvictionFarewells(gone)
    <2>. HIDE DEF ble
    <2>1. Follows(ble, gone, none)
      BY <1>8 DEF ble
    <2>2. Announced(ble) = Announced(none) /\ Departed(ble) = Nodes(gone) \cup Departed(none)
      BY <2>1, FollowsSays
    <2>3. did'.ble = ble
      BY <1>3 DEF ble
    <2>. QED
      BY <1>7, <2>2, <2>3
  <1>10. Nodes(gone) \subseteq Nodes(identities)
    BY <1>2, <1>4 DEF Nodes, e
  <1>11. Spoken(identities, did'.ble)
    <2>1. Speech(none, Bridge, {})
      BY <1>7 DEF Speech
    <2>. QED
      BY <1>3, <1>8, <1>10, <2>1, SpeechIsSpoken
  <1>12. Changes(gone, {})
    <2>1. Len(identities') <= VIRT_ID_MAX_SLOTS
      <3>1. Len(identities') <= Len(identities) /\ Len(identities') \in Nat
        BY <1>2, <1>3 DEF Removes
      <3>2. Len(identities) <= VIRT_ID_MAX_SLOTS /\ Len(identities) \in Nat
        BY Registered
      <3>. QED
        BY <3>1, <3>2, RegistryAssumption
    <2>2. /\ identities' \in Seq(IdType) /\ OneEach(identities')
          /\ InOrder(identities, identities')
          /\ Nodes(identities') = (Nodes(identities) \cup {}) \ Nodes(gone)
          /\ \A r \in DOMAIN gone : \E i \in DOMAIN identities : gone[r] = identities[i]
      BY <1>2, <1>3 DEF Removes
    <2>. QED
      BY <1>3, <1>5, <1>6, <1>9, <2>1, <2>2 DEF Changes
  <1>13. time' \in Nat /\ time <= time'
    BY Registered
  <1>14. SeenIsHeard'
    <2>. SUFFICES ASSUME MaxTime < CLOCK_MOD, NEW r \in DOMAIN identities'
                  PROVE  identities'[r].seen = heard'[identities'[r].node]
      BY DEF SeenIsHeard
    <2>1. PICK i \in DOMAIN identities : identities'[r] = identities[i]
      BY <1>2, <1>3 DEF Removes
    <2>2. identities[i].node \in MeshUsers
      BY <1>1, IdFields
    <2>3. heard'[identities[i].node] = heard[identities[i].node]
      BY <1>3, <1>13, <2>2, HeardIs
    <2>. QED
      BY <2>1, <2>3 DEF IInv, SeenIsHeard
  <1>. QED
    BY <1>11, <1>12, <1>13, <1>14, RegistryChanges

\* A message of a Meshtastic user.
MeshMsg(t, user) == <<Raw(t), user, Zero>>

\* Its parts.
LEMMA MeshMsgIs ==
    ASSUME NEW t, NEW user
    PROVE  /\ MeshMsg(t, user)[1] = Raw(t) /\ MeshMsg(t, user)[2] = user
           /\ MeshMsg(t, user) # <<>> /\ Raw(t)[1] # "farewell"
  BY DEF MeshMsg, Raw

\* What goes out after the farewells when a user's message is forwarded, with
\* the set of users that it announces.
LEMMA WordsSpeak ==
    ASSUME NEW id, NEW new \in BOOLEAN, NEW t
    PROVE  \E T : /\ FirstWords(id, new, Raw(t)) \in Seq(T)
                  /\ Speech(FirstWords(id, new, Raw(t)), id.node, IF new THEN {id.node} ELSE {})
  <1>0. Raw(t)[1] # "farewell"
    BY MeshMsgIs
  <1>1. CASE new = TRUE
    <2>1. /\ Speech(FirstWords(id, TRUE, Raw(t)), id.node, {id.node})
          /\ FirstWords(id, TRUE, Raw(t)) \in Seq({AnnounceOf(id), MessageAs(id.node, Raw(t))})
      BY <1>0, AnnounceSpeaks
    <2>. QED
      BY <1>1, <2>1
  <1>2. CASE new = FALSE
    <2>1. /\ Speech(<<MessageAs(id.node, Raw(t))>>, id.node, {})
          /\ <<MessageAs(id.node, Raw(t))>> \in Seq({MessageAs(id.node, Raw(t))})
      BY <1>0, MessageSpeaks
    <2>2. FirstWords(id, FALSE, Raw(t)) = <<MessageAs(id.node, Raw(t))>>
      BY KnownSpeaks
    <2>. QED
      BY <1>2, <2>1, <2>2
  <1>. QED
    BY <1>1, <1>2

\* What goes out over BLE when farewells are followed by a speech.
LEMMA FarewellsAndSpeech ==
    ASSUME NEW ids, NEW gone \in Seq(IdType), NEW T, NEW tail \in Seq(T), NEW who, NEW A,
           Speech(tail, who, A), A = {} => who = Bridge \/ who \in Nodes(ids),
           \A r \in DOMAIN gone : \E i \in DOMAIN ids : gone[r] = ids[i]
    PROVE  /\ Announced(EvictionFarewells(gone) \o tail) = A
           /\ Departed(EvictionFarewells(gone) \o tail) = Nodes(gone)
           /\ Spoken(ids, EvictionFarewells(gone) \o tail)
  <1>. DEFINE ble == EvictionFarewells(gone) \o tail
  <1>1. Follows(ble, gone, tail)
    BY FarewellsFirst
  <1>. HIDE DEF ble
  <1>2. Announced(ble) = Announced(tail) /\ Departed(ble) = Nodes(gone) \cup Departed(tail)
    BY <1>1, FollowsSays
  <1>3. Announced(tail) = A /\ Departed(tail) = {}
    BY DEF Speech
  <1>4. Nodes(gone) \subseteq Nodes(ids)
    BY DEF Nodes
  <1>5. Spoken(ids, ble)
    BY <1>1, <1>4, SpeechIsSpoken
  <1>6. Announced(ble) = A /\ Departed(ble) = Nodes(gone)
    BY <1>2, <1>3
  <1>. QED
    BY <1>5, <1>6 DEF ble

\* A message is forwarded under its sender's identity.
LEMMA VirtualRegistry ==
    ASSUME IInv, HNext, time' = time, announce' = announce,
           NEW user \in MeshUsers, NEW name \in MeshNames, NEW t, NEW got,
           GotIt(identities, got, user, millis),
           ForwardAsVirtual(MeshMsg(t, user), name, got)
    PROVE  RegistryStep
  <1>. DEFINE v == Named(got.ids, got.at, name)
              at == got.at
              gone == got.evicted
              new == got.ids[got.at].name = ""
              tail == FirstWords(v[at], new, Raw(t))
              A == IF new THEN {user} ELSE {}
  <1>0. time' \in Nat /\ time <= time'
    BY Registered
  <1>1. /\ at # 0 /\ identities' = v /\ did'.forwarded = MeshMsg(t, user)
        /\ did'.ble = EvictionFarewells(gone) \o FirstWords(v[at], new, MeshMsg(t, user)[1])
        /\ did'.evicted = gone
    BY DEF ForwardAsVirtual, Named
  <1>2. did'.ble = EvictionFarewells(gone) \o tail
    BY <1>1, MeshMsgIs
  <1>3. /\ Parts(identities, gone, user, millis)
        /\ Holds(identities, got.ids, gone, at, user, millis)
        /\ got.ids \in Seq(NewIdType)
        /\ new \/ user \in Nodes(identities)
    BY <1>1 DEF GotIt
  <1>4. Holds(identities, v, gone, at, user, millis) /\ v \in Seq(IdType)
    BY <1>3, NamedHolds
  <1>5. new \in BOOLEAN
    OBVIOUS
  <1>. HIDE DEF v, at, gone, new
  <1>6. v[at].node = user /\ v[at].seen = millis
    BY <1>4 DEF Holds
  <1>7. PICK T : tail \in Seq(T) /\ Speech(tail, user, A)
    <2>1. \E T : /\ tail \in Seq(T)
                 /\ Speech(tail, v[at].node, IF new THEN {v[at].node} ELSE {})
      BY <1>5, WordsSpeak
    <2>. QED
      BY <1>6, <2>1
  <1>. HIDE DEF tail
  <1>8. A = {} => user = Bridge \/ user \in Nodes(identities)
    BY <1>3
  <1>9. A \subseteq {user} /\ (A = {user} \/ user \in Nodes(identities))
    BY <1>3
  <1>. HIDE DEF A
  <1>10. /\ gone \in Seq(IdType) /\ user \notin Nodes(gone)
         /\ \A r \in DOMAIN gone : \E i \in DOMAIN identities : gone[r] = identities[i]
         /\ OldestGo(identities, gone, millis)
    BY <1>3 DEF Parts
  <1>11. /\ Announced(EvictionFarewells(gone) \o tail) = A
         /\ Departed(EvictionFarewells(gone) \o tail) = Nodes(gone)
         /\ Spoken(identities, EvictionFarewells(gone) \o tail)
    BY <1>7, <1>8, <1>10, FarewellsAndSpeech
  <1>12. /\ Announced(did'.ble) = A /\ Departed(did'.ble) = Nodes(gone)
         /\ Spoken(identities, did'.ble)
    BY <1>2, <1>11
  <1>13. Nodes(v) = (Nodes(identities) \cup A) \ Nodes(gone)
    <2>1. Nodes(v) = (Nodes(identities) \ Nodes(gone)) \cup {user}
      BY <1>4 DEF Holds
    <2>. QED
      BY <1>9, <1>10, <2>1
  <1>14. Changes(gone, A)
    BY <1>1, <1>4, <1>10, <1>12, <1>13 DEF Changes, Holds
  <1>15. SeenIsHeard'
    <2>. SUFFICES ASSUME MaxTime < CLOCK_MOD, NEW r \in DOMAIN v
                  PROVE  v[r].seen = heard'[v[r].node]
      BY <1>1 DEF SeenIsHeard
    <2>1. CASE r = at
      <3>1. heard'[user] = time
        BY <1>0, <1>1, HeardIs, MeshMsgIs
      <3>2. millis = time
        BY Registered
      <3>. QED
        BY <1>6, <2>1, <3>1, <3>2
    <2>2. CASE r # at
      <3>1. PICK i \in DOMAIN identities : v[r] = identities[i] /\ identities[i].node # user
        BY <1>4, <2>2 DEF Holds
      <3>2. identities[i].node \in MeshUsers
        BY Registered, IdFields
      <3>3. heard'[identities[i].node] = heard[identities[i].node]
        <4>1. did'.forwarded[2] = user
          BY <1>1, MeshMsgIs
        <4>2. heard'[identities[i].node]
                = IF did'.forwarded # <<>> /\ did'.forwarded[2] = identities[i].node
                  THEN time ELSE heard[identities[i].node]
          BY <1>0, <3>2, HeardIs
        <4>. QED
          BY <3>1, <4>1, <4>2
      <3>. QED
        BY <3>1, <3>3 DEF IInv, SeenIsHeard
    <2>. QED
      BY <2>1, <2>2
  <1>. QED
    BY <1>0, <1>12, <1>14, <1>15, RegistryChanges

\* A message is forwarded under the bridge's identity.
LEMMA BridgeRegistry ==
    ASSUME IInv, HNext, time' = time, announce' = announce,
           NEW user \in MeshUsers, NEW name, NEW t, NEW got,
           GotIt(identities, got, user, millis),
           ForwardAsBridge(MeshMsg(t, user), name, got)
    PROVE  RegistryStep
  <1>. DEFINE v == got.ids
              gone == got.evicted
              text == Bridged("[M]", name, MeshMsg(t, user)[1])
              tail == <<MessageAs(Bridge, text)>>
  <1>0. time' \in Nat /\ time <= time'
    BY Registered
  <1>1. /\ got.at = 0 /\ identities' = v /\ did'.forwarded = MeshMsg(t, user)
        /\ did'.ble = EvictionFarewells(gone) \o tail
        /\ did'.evicted = gone
    BY DEF ForwardAsBridge
  <1>2. /\ Parts(identities, gone, user, millis)
        /\ Removes(identities, v, gone)
        /\ gone = <<>> => v = identities
        /\ user \notin Nodes(identities)
    BY <1>1 DEF GotIt
  <1>3. text[1] # "farewell"
    BY DEF Bridged
  <1>. HIDE DEF v, gone, text
  <1>4. Speech(tail, Bridge, {}) /\ tail \in Seq({MessageAs(Bridge, text)})
    BY <1>3, MessageSpeaks
  <1>. HIDE DEF tail
  <1>5. /\ gone \in Seq(IdType)
        /\ \A r \in DOMAIN gone : \E i \in DOMAIN identities : gone[r] = identities[i]
        /\ OldestGo(identities, gone, millis)
    BY <1>2 DEF Parts
  <1>6. /\ Announced(EvictionFarewells(gone) \o tail) = {}
        /\ Departed(EvictionFarewells(gone) \o tail) = Nodes(gone)
        /\ Spoken(identities, EvictionFarewells(gone) \o tail)
    BY <1>4, <1>5, FarewellsAndSpeech
  <1>7. /\ Announced(did'.ble) = {} /\ Departed(did'.ble) = Nodes(gone)
        /\ Spoken(identities, did'.ble)
    BY <1>1, <1>6
  <1>8. Len(v) <= VIRT_ID_MAX_SLOTS
    <2>1. Len(v) <= Len(identities) /\ Len(v) \in Nat
      BY <1>2 DEF Removes
    <2>2. Len(identities) <= VIRT_ID_MAX_SLOTS /\ Len(identities) \in Nat
      BY Registered
    <2>. QED
      BY <2>1, <2>2, RegistryAssumption
  <1>9. Changes(gone, {})
    <2>1. v \in Seq(IdType) /\ OneEach(v) /\ InOrder(identities, v)
          /\ Nodes(v) = (Nodes(identities) \cup {}) \ Nodes(gone)
      BY <1>2 DEF Removes
    <2>. QED
      BY <1>1, <1>2, <1>5, <1>7, <1>8, <2>1 DEF Changes
  <1>10. SeenIsHeard'
    <2>. SUFFICES ASSUME MaxTime < CLOCK_MOD, NEW r \in DOMAIN v
                  PROVE  v[r].seen = heard'[v[r].node]
      BY <1>1 DEF SeenIsHeard
    <2>1. PICK i \in DOMAIN identities : v[r] = identities[i]
      BY <1>2 DEF Removes
    <2>2. identities[i].node \in MeshUsers
      BY Registered, IdFields
    <2>3. identities[i].node # user
      BY <1>2 DEF Nodes
    <2>4. heard'[identities[i].node] = heard[identities[i].node]
      BY <1>0, <1>1, <2>2, <2>3, HeardIs, MeshMsgIs
    <2>. QED
      BY <2>1, <2>4 DEF IInv, SeenIsHeard
  <1>. QED
    BY <1>0, <1>7, <1>9, <1>10, RegistryChanges

\* One announce and nothing else.
LEMMA OneAnnounce ==
    ASSUME NEW id, NEW ids
    PROVE  /\ Announced(<<AnnounceOf(id)>>) = {id.node} /\ Departed(<<AnnounceOf(id)>>) = {}
           /\ Spoken(ids, <<AnnounceOf(id)>>)
  <1>. DEFINE a == AnnounceOf(id)
              s == <<a>>
  <1>1. a.type = "announce" /\ a.as = id.node /\ a.text[1] = "name"
    BY DEF AnnounceOf
  <1>. HIDE DEF a
  <1>2. DOMAIN s = {1} /\ s[1] = a
    OBVIOUS
  <1>. HIDE DEF s
  <1>3. Announced(s) = {id.node} /\ Departed(s) = {}
    BY <1>1, <1>2 DEF Announced, Departed
  <1>4. Spoken(ids, s)
    BY <1>1, <1>2 DEF Spoken
  <1>. QED
    BY <1>3, <1>4 DEF s, a

\* The announce position and the cycle's start before and after a step of it.
Starts ==
    announce.idx < 0 /\ Since(announce.cycle, millis) > BITCHAT_ANNOUNCE_INTERVAL

AtStart == IF Starts THEN [idx |-> 0, cycle |-> millis, step |-> 0] ELSE announce

\* The three ways in which an announce step goes.
AnnounceCases ==
    \/ announce' = AtStart /\ did' = Nothing
    \/ /\ AtStart.idx >= 0 /\ AtStart.idx < Len(identities)
       /\ announce' = AnnounceNext(AtStart)
       /\ did' = [Nothing EXCEPT !.ble = <<AnnounceOf(identities[AtStart.idx + 1])>>]
    \/ /\ AtStart.idx >= 0 /\ AtStart.idx >= Len(identities)
       /\ announce' = [AtStart EXCEPT !.idx = -1] /\ did' = Nothing

\* An announce step is one of the three.
LEMMA AnnounceSplits ==
    ASSUME AnnounceStep
    PROVE  AnnounceCases /\ identities' = identities /\ time' = time
  BY DEF AnnounceStep, AnnounceCases, AtStart, Starts

\* Its position, which is that of the cycle or the start of a new one.
LEMMA AtStartIs ==
    ASSUME IInv
    PROVE  /\ AtStart \in [idx : Int, cycle : Nat, step : Nat]
           /\ Starts => AtStart.idx = 0 /\ announce.idx < 0 /\ AtStart.cycle # announce.cycle
           /\ ~Starts => AtStart = announce
           /\ announce \in [idx : Int, cycle : Nat, step : Nat]
  <1>1. announce \in [idx : Int, cycle : Nat, step : Nat]
    BY DEF IInv, StateType
  <1>2. millis \in 0 .. CLOCK_MOD - 1 /\ millis \in Nat
    BY Registered, RegistryAssumption
  <1>. HIDE DEF millis
  <1>3. AtStart \in [idx : Int, cycle : Nat, step : Nat]
    BY <1>1, <1>2 DEF AtStart
  <1>4. ASSUME Starts PROVE announce.cycle # millis
    <2>. SUFFICES ASSUME announce.cycle = millis PROVE FALSE
      OBVIOUS
    <2>1. millis < CLOCK_MOD /\ millis <= millis
      BY <1>2, RegistryAssumption
    <2>2. Since(millis, millis) = millis - millis
      BY <1>2, <2>1, SinceIs
    <2>3. Since(millis, millis) = 0
      BY <1>2, <2>2
    <2>. QED
      BY <1>4, <2>3, BridgeAssumption DEF Starts
  <1>5. Starts => AtStart.idx = 0 /\ announce.idx < 0 /\ AtStart.cycle # announce.cycle
    BY <1>4 DEF AtStart, Starts
  <1>6. ~Starts => AtStart = announce
    BY DEF AtStart
  <1>. QED
    BY <1>1, <1>3, <1>5, <1>6

\* The fields of announce after each way.
LEMMA AnnounceFields ==
    ASSUME NEW a, a \in [idx : Int, cycle : Nat, step : Nat]
    PROVE  /\ AnnounceNext(a).idx = a.idx + 1 /\ AnnounceNext(a).cycle = a.cycle
           /\ AnnounceNext(a).step = millis
           /\ [a EXCEPT !.idx = -1].idx = -1 /\ [a EXCEPT !.idx = -1].cycle = a.cycle
           /\ [a EXCEPT !.idx = -1].step = a.step
  BY DEF AnnounceNext

\* The announce step says nothing of who is registered, and what is due stays
\* at or after its position.
LEMMA AnnounceRegistry ==
    ASSUME IInv, HNext, AnnounceStep
    PROVE  RegistryStep
  <1>. DEFINE a == AtStart
              ids == identities
              B == Announced(did'.ble)
  <1>0. time' \in Nat /\ time <= time' /\ ids' = ids /\ AnnounceCases
    BY AnnounceSplits, Registered
  <1>1. /\ a \in [idx : Int, cycle : Nat, step : Nat]
        /\ Starts => a.idx = 0 /\ announce.idx < 0 /\ a.cycle # announce.cycle
        /\ ~Starts => a = announce
        /\ announce \in [idx : Int, cycle : Nat, step : Nat]
    BY AtStartIs
  <1>. HIDE DEF AtStart, Starts
  <1>2. a.idx \in Int /\ announce.idx \in Int
    BY <1>1
  <1>3. \/ /\ announce'.idx = a.idx /\ announce'.cycle = a.cycle
           /\ did' = Nothing
        \/ /\ a.idx >= 0 /\ a.idx < Len(ids)
           /\ announce'.idx = a.idx + 1 /\ announce'.cycle = a.cycle
           /\ did' = [Nothing EXCEPT !.ble = <<AnnounceOf(ids[a.idx + 1])>>]
        \/ /\ a.idx >= 0 /\ a.idx >= Len(ids)
           /\ announce'.idx = -1 /\ announce'.cycle = a.cycle
           /\ did' = Nothing
    BY <1>0, <1>1, AnnounceFields DEF AnnounceCases
  <1>4. announce'.cycle = a.cycle
    BY <1>3
  <1>5. CycleStarts <=> Starts
    BY <1>1, <1>4 DEF CycleStarts
  <1>6. did'.evicted = <<>> /\ did'.forwarded = <<>>
    BY <1>3 DEF Nothing
  <1>7. /\ Departed(did'.ble) = {} /\ Spoken(ids, did'.ble)
        /\ \/ B = {} /\ announce'.idx = a.idx
           \/ /\ a.idx >= 0 /\ a.idx < Len(ids) /\ announce'.idx = a.idx + 1
              /\ B = {ids[a.idx + 1].node}
           \/ B = {} /\ a.idx >= 0 /\ a.idx >= Len(ids) /\ announce'.idx = -1
    <2>. DEFINE none == <<>>
    <2>1. Announced(none) = {} /\ Departed(none) = {} /\ Spoken(ids, none)
      BY DEF Announced, Departed, Spoken
    <2>. HIDE DEF none
    <2>2. CASE did' = Nothing
      <3>1. did'.ble = none
        BY <2>2 DEF Nothing, none
      <3>2. ~ (did' = [Nothing EXCEPT !.ble = <<AnnounceOf(ids[a.idx + 1])>>])
        <4>. DEFINE s == <<AnnounceOf(ids[a.idx + 1])>>
        <4>1. s # <<>>
          OBVIOUS
        <4>. HIDE DEF s
        <4>2. [Nothing EXCEPT !.ble = s].ble = s
          BY DEF Nothing
        <4>3. did'.ble # s
          BY <3>1, <4>1 DEF none
        <4>. QED
          BY <4>2, <4>3 DEF s
      <3>. QED
        BY <1>3, <2>1, <2>2, <3>1, <3>2
    <2>3. CASE did' = [Nothing EXCEPT !.ble = <<AnnounceOf(ids[a.idx + 1])>>]
               /\ a.idx >= 0 /\ a.idx < Len(ids) /\ announce'.idx = a.idx + 1
      <3>1. did'.ble = <<AnnounceOf(ids[a.idx + 1])>>
        BY <2>3 DEF Nothing
      <3>2. B = {ids[a.idx + 1].node} /\ Departed(did'.ble) = {} /\ Spoken(ids, did'.ble)
        BY <3>1, OneAnnounce
      <3>. QED
        BY <2>3, <3>2
    <2>. QED
      BY <1>3, <2>2, <2>3
  <1>8. ids \in Seq(IdType) /\ Len(ids) <= VIRT_ID_MAX_SLOTS /\ Len(ids) \in Nat
        /\ DOMAIN ids = 1 .. Len(ids)
    BY Registered
  <1>9. a.idx >= 0 /\ a.idx < Len(ids) => a.idx + 1 \in DOMAIN ids
    BY <1>2, <1>8
  <1>10. B \subseteq Nodes(ids)
    BY <1>7, <1>9 DEF Nodes
  <1>11. heard' \in [MeshUsers -> Nat] /\ (\A u \in MeshUsers : heard'[u] <= time')
    BY <1>0, HeardIs
  <1>12. overtaken' \in Nat /\ OneIdentityPerUser'
    <2>1. overtaken' \in Nat
      BY CountedUp
    <2>2. OneIdentityPerUser'
      BY <1>0 DEF IInv, OneIdentityPerUser
    <2>. QED
      BY <2>1, <2>2
  <1>13. PeersSeeRegistry'
    <2>1. present' = (present \cup B) \ Departed(did'.ble) /\ present = Nodes(ids)
      BY DEF HNext, IInv, PeersSeeRegistry
    <2>2. present' = Nodes(ids)
      BY <1>7, <1>10, <2>1
    <2>. QED
      BY <1>0, <2>2 DEF PeersSeeRegistry
  <1>14. SeenIsHeard'
    <2>. SUFFICES ASSUME MaxTime < CLOCK_MOD, NEW i \in DOMAIN ids
                  PROVE  ids[i].seen = heard'[ids[i].node]
      BY <1>0 DEF SeenIsHeard
    <2>1. ids[i].node \in MeshUsers
      BY <1>8, IdFields
    <2>2. heard'[ids[i].node] = heard[ids[i].node]
      BY <1>0, <1>6, <2>1, HeardIs
    <2>. QED
      BY <2>2 DEF IInv, SeenIsHeard
  <1>15. LeastRecentGo
    BY <1>6 DEF LeastRecentGo, Nodes
  <1>16. CycleDone
    <2>. SUFFICES ASSUME announce.idx >= 0, announce'.idx < 0
                  PROVE  Cardinality(due) <= overtaken
      BY DEF CycleDone
    <2>1. a.idx = announce.idx
      BY <1>1, <1>2
    <2>2. a.idx >= Len(ids)
      BY <1>2, <1>7, <2>1
    <2>3. Beyond(ids, announce.idx) = {}
      BY <1>2, <1>8, <2>1, <2>2 DEF Beyond
    <2>. QED
      BY <2>3 DEF IInv, DueAhead
  <1>17. DueAhead'
    <2>1. Nodes(did'.evicted) = {}
      BY <1>6 DEF Nodes
    <2>2. due' = (IF Starts THEN Nodes(ids) ELSE due) \ B
      BY <1>5, <2>1 DEF HNext
    <2>3. IsFiniteSet(due) /\ IsFiniteSet(due')
      <3>1. IsFiniteSet(due) /\ IsFiniteSet(Nodes(ids))
        BY <1>8, NodesFinite DEF IInv, DueAhead
      <3>. QED
        BY <2>2, <3>1, FS_Subset
    <2>4. Cardinality({}) = 0 /\ overtaken \in Nat
      BY FS_EmptySet DEF IInv, StateType
    <2>5. announce'.idx >= 0 => overtaken' = IF Starts THEN 0 ELSE overtaken
      <3>1. Passed \cap Nodes(did'.evicted) = {}
        BY <2>1
      <3>2. overtaken' = IF announce'.idx < 0 \/ CycleStarts THEN 0
                         ELSE overtaken + Cardinality(Passed \cap Nodes(did'.evicted))
        BY DEF HNext
      <3>3. announce'.idx >= 0 => ~ (announce'.idx < 0)
        BY <1>2, <1>7
      <3>4. announce'.idx >= 0 => overtaken' = IF Starts THEN 0 ELSE overtaken + 0
        BY <1>5, <2>4, <3>1, <3>2, <3>3
      <3>. QED
        BY <2>4, <3>4
    <2>. SUFFICES ASSUME announce'.idx >= 0
                  PROVE  Cardinality(due' \ Beyond(ids, announce'.idx)) <= overtaken'
      BY <1>0, <2>3 DEF DueAhead, Beyond
    <2>. DEFINE old == (IF Starts THEN Nodes(ids) ELSE due) \ Beyond(ids, a.idx)
                new == due' \ Beyond(ids, announce'.idx)
    <2>6. new \subseteq old
      <3>1. CASE announce'.idx = a.idx
        BY <2>2, <3>1
      <3>2. CASE announce'.idx = a.idx + 1 /\ B = {ids[a.idx + 1].node}
        <4>1. Beyond(ids, a.idx) \subseteq Beyond(ids, announce'.idx) \cup B
          <5>1. \A i \in DOMAIN ids : i > a.idx => i > a.idx + 1 \/ i = a.idx + 1
            BY <1>2, <1>8
          <5>. QED
            BY <3>2, <5>1 DEF Beyond
        <4>. QED
          BY <2>2, <4>1
      <3>. QED
        BY <1>2, <1>7, <3>1, <3>2
    <2>7. IsFiniteSet(old) /\ Cardinality(old) <= overtaken'
      <3>1. CASE Starts
        <4>1. a.idx = 0 /\ overtaken' = 0
          BY <1>1, <2>5, <3>1
        <4>2. Nodes(ids) \subseteq Beyond(ids, 0)
          BY <1>8 DEF Nodes, Beyond
        <4>3. old = {}
          BY <3>1, <4>1, <4>2
        <4>. HIDE DEF old
        <4>. QED
          BY <2>4, <4>1, <4>3, FS_EmptySet
      <3>2. CASE ~Starts
        <4>1. a.idx = announce.idx /\ overtaken' = overtaken
          BY <1>1, <2>5, <3>2
        <4>2. announce.idx >= 0
          BY <1>2, <1>7, <4>1
        <4>3. old = due \ Beyond(ids, announce.idx)
          BY <3>2, <4>1
        <4>. HIDE DEF old
        <4>. QED
          BY <2>3, <4>1, <4>2, <4>3, FS_Subset DEF IInv, DueAhead
      <3>. QED
        BY <3>1, <3>2
    <2>. HIDE DEF old, new
    <2>8. Cardinality(new) <= Cardinality(old) /\ IsFiniteSet(new)
      BY <2>6, <2>7, FS_Subset
    <2>9. Cardinality(new) \in Nat /\ Cardinality(old) \in Nat /\ overtaken' \in Nat
      BY <1>12, <2>7, <2>8, FS_CardinalityType
    <2>10. Cardinality(new) <= overtaken'
      BY <2>7, <2>8, <2>9
    <2>. QED
      BY <2>10 DEF new
  <1>. QED
    BY <1>0, <1>7, <1>8, <1>11, <1>12, <1>13, <1>14, <1>15, <1>16, <1>17 DEF RegistryStep
-----------------------------------------------------------------------------
(* The inductive step: the types of the rest                                *)

\* The types of what is not the registry.
LoopTypes ==
    /\ phase \in {"mesh", "ble", "announce", "memory", "shed", "drain"}
    /\ time \in Nat /\ time <= MaxTime
    /\ heap \in HeapLevels
    /\ mesh_up \in LinkStates
    /\ announce \in [idx : -1 .. VIRT_ID_MAX_SLOTS, cycle : 0 .. CLOCK_MOD - 1,
                     step : 0 .. CLOCK_MOD - 1]
    /\ mem_check \in 0 .. CLOCK_MOD - 1
    /\ dedup.idx \in Slots
    /\ pending = [chunks |-> pending.chunks, next |-> pending.next, at |-> pending.at]
    /\ pending.at \in 0 .. CLOCK_MOD - 1
    /\ Len(pending.chunks) \in {0, CHUNKS}
    /\ pending.next \in 0 .. Len(pending.chunks)
    /\ delivered \in 0 .. MaxMessages

\* They follow from the invariant.
LEMMA TypesOfLoop == IInv => LoopTypes
  <1>. SUFFICES ASSUME IInv PROVE LoopTypes
    OBVIOUS
  <1>1. announce \in [idx : Int, cycle : Nat, step : Nat]
    BY DEF IInv, StateType
  <1>2. /\ announce.idx \in -1 .. VIRT_ID_MAX_SLOTS /\ announce.cycle \in 0 .. CLOCK_MOD - 1
        /\ announce.step \in 0 .. CLOCK_MOD - 1
    BY DEF IInv, TypeOK
  <1>3. announce \in [idx : -1 .. VIRT_ID_MAX_SLOTS, cycle : 0 .. CLOCK_MOD - 1,
                      step : 0 .. CLOCK_MOD - 1]
    BY <1>1, <1>2
  <1>. QED
    BY <1>3 DEF IInv, StateType, TypeOK, LoopTypes

\* The types of the registry and its history.
RegistryTypes ==
    /\ identities \in Seq(IdType) /\ Len(identities) <= VIRT_ID_MAX_SLOTS
    /\ heard \in [MeshUsers -> Nat] /\ (\A u \in MeshUsers : heard[u] <= time)
    /\ overtaken \in Nat

\* The types of the state, from those of the loop and those of the registry.
LEMMA TypesTogether == LoopTypes /\ RegistryTypes => TypeOK /\ StateType
  <1>. SUFFICES ASSUME LoopTypes,
                       identities \in Seq(IdType), Len(identities) <= VIRT_ID_MAX_SLOTS,
                       heard \in [MeshUsers -> Nat], \A u \in MeshUsers : heard[u] <= time,
                       overtaken \in Nat
                PROVE  TypeOK /\ StateType
    BY DEF RegistryTypes
  <1>1. \A i \in DOMAIN identities :
           /\ identities[i].node \in MeshUsers
           /\ identities[i].seen \in 0 .. CLOCK_MOD - 1
           /\ identities[i].name \in MeshNames
    BY IdFields
  <1>2. /\ announce.idx \in -1 .. VIRT_ID_MAX_SLOTS /\ announce.cycle \in 0 .. CLOCK_MOD - 1
        /\ announce.step \in 0 .. CLOCK_MOD - 1
    BY DEF LoopTypes
  <1>3. announce \in [idx : Int, cycle : Nat, step : Nat]
    BY RegistryAssumption DEF LoopTypes
  <1>4. {announce.cycle, announce.step, mem_check, pending.at} \subseteq 0 .. CLOCK_MOD - 1
    BY <1>2 DEF LoopTypes
  <1>5. TypeOK
    BY <1>1, <1>2, <1>4 DEF LoopTypes, TypeOK
  <1>6. StateType
    BY <1>3 DEF LoopTypes, StateType
  <1>. QED
    BY <1>5, <1>6

\* The dedup position stays a slot.
LEMMA RecordedAt ==
    ASSUME dedup.idx \in Slots, NEW hashes, Len(hashes) \in Nat
    PROVE  RecordHashes(hashes).idx \in Slots
  <1>1. DEDUP_CACHE_SIZE \in Nat \ {0}
    BY BridgeAssumption
  <1>2. dedup.idx + Len(hashes) \in Nat
    BY <1>1 DEF Slots
  <1>3. (dedup.idx + Len(hashes)) % DEDUP_CACHE_SIZE \in 0 .. DEDUP_CACHE_SIZE - 1
    BY <1>1, <1>2, Modulo
  <1>. QED
    BY <1>3 DEF RecordHashes, Slots

\* How many hashes a step records.
LEMMA HashesCounted ==
    ASSUME NEW gone, Len(gone) \in Nat, NEW x, NEW y
    PROVE  /\ Len(EvictionHashes(gone)) \in Nat
           /\ Len(<<x>> \o EvictionHashes(gone) \o <<y>>) \in Nat
  <1>. DEFINE n == 2 * Len(gone)
              E == EvictionHashes(gone)
              P == {E[i] : i \in 1 .. n}
              S == P \cup {x, y}
  <1>1. n \in Nat
    OBVIOUS
  <1>2. DOMAIN E = 1 .. n /\ E = [i \in 1 .. n |-> E[i]]
    BY DEF EvictionHashes
  <1>. HIDE DEF n, E
  <1>3. Len(E) = n
    BY <1>1, <1>2, LenOfFunction
  <1>4. E \in [1 .. n -> S]
    BY <1>2
  <1>5. <<x>> \in Seq(S) /\ <<y>> \in Seq(S) /\ Len(<<x>>) = 1 /\ Len(<<y>>) = 1
    OBVIOUS
  <1>. HIDE DEF P, S
  <1>6. E \in Seq(S)
    BY <1>1, <1>4, FunctionIsSeq
  <1>. DEFINE u == <<x>>
              w == <<y>>
  <1>7. u \in Seq(S) /\ w \in Seq(S)
    BY <1>5
  <1>. HIDE DEF u, w
  <1>8. u \o E \in Seq(S)
    BY <1>6, <1>7, ConcatIs
  <1>9. u \o E \o w \in Seq(S)
    BY <1>7, <1>8, ConcatIs
  <1>10. Len(u \o E \o w) \in Nat
    BY <1>9
  <1>. QED
    BY <1>1, <1>3, <1>10 DEF u, w, E

\* The queue of chunks and their hashes.
LEMMA ChunksCounted ==
    ASSUME NEW msg, NEW x
    PROVE  /\ Len([i \in 1 .. CHUNKS |-> Chunk(msg[3], msg[1], i)]) = CHUNKS
           /\ Len(<<x>> \o [i \in 1 .. CHUNKS |->
                     OutgoingHash([j \in 1 .. CHUNKS |-> Chunk(msg[3], msg[1], j)][i])]) \in Nat
  <1>. DEFINE c == [i \in 1 .. CHUNKS |-> Chunk(msg[3], msg[1], i)]
              h == [i \in 1 .. CHUNKS |-> OutgoingHash(c[i])]
              S == {h[i] : i \in 1 .. CHUNKS} \cup {x}
              u == <<x>>
  <1>0. CHUNKS \in Nat
    BY BridgeAssumption
  <1>1. DOMAIN c = 1 .. CHUNKS /\ c = [i \in 1 .. CHUNKS |-> c[i]]
    OBVIOUS
  <1>. HIDE DEF c
  <1>2. Len(c) = CHUNKS
    BY <1>0, <1>1, LenOfFunction
  <1>3. h \in [1 .. CHUNKS -> S]
    OBVIOUS
  <1>4. u \in Seq(S)
    OBVIOUS
  <1>. HIDE DEF h, u, S
  <1>5. h \in Seq(S)
    BY <1>0, <1>3, FunctionIsSeq
  <1>6. u \o h \in Seq(S)
    BY <1>4, <1>5, ConcatIs
  <1>7. Len(u \o h) \in Nat
    BY <1>6
  <1>. QED
    BY <1>2, <1>7 DEF u, h, c
-----------------------------------------------------------------------------
(* The inductive step, by action                                            *)

\* Nothing is done: no effect shows.
LEMMA NothingIs ==
    /\ Nothing.ble = <<>> /\ Nothing.evicted = <<>> /\ Nothing.forwarded = <<>>
    /\ \A m : [Nothing EXCEPT !.skipped = m].ble = <<>>
              /\ [Nothing EXCEPT !.skipped = m].evicted = <<>>
              /\ [Nothing EXCEPT !.skipped = m].forwarded = <<>>
    /\ \A m : [Nothing EXCEPT !.mesh = m].ble = <<>>
              /\ [Nothing EXCEPT !.mesh = m].evicted = <<>>
              /\ [Nothing EXCEPT !.mesh = m].forwarded = <<>>
  BY DEF Nothing

\* One more message is delivered.
LEMMA OneMoreDelivered ==
    ASSUME IInv, NEW ph, Deliver(ph)
    PROVE  delivered' \in 0 .. MaxMessages
  <1>1. delivered \in 0 .. MaxMessages
    BY DEF IInv, TypeOK
  <1>2. delivered < MaxMessages /\ delivered' = delivered + 1
    BY DEF Deliver
  <1>3. MaxMessages \in Nat
    BY BridgeAssumption
  <1>. QED
    BY <1>1, <1>2, <1>3

\* What stays when a transport delivers a message.
LEMMA DeliverTypes ==
    ASSUME IInv, NEW ph, Deliver(ph), UNCHANGED pending, dedup'.idx \in Slots
    PROVE  LoopTypes' /\ time' = time /\ announce' = announce
  <1>1. LoopTypes
    BY TypesOfLoop
  <1>2. delivered' \in 0 .. MaxMessages
    BY OneMoreDelivered
  <1>3. UNCHANGED <<phase, time, heap, mesh_up, announce, mem_check>>
    BY DEF Deliver
  <1>4. LoopTypes'
    BY <1>1, <1>2, <1>3 DEF LoopTypes, Slots
  <1>. QED
    BY <1>3, <1>4

\* _on_meshtastic_message keeps the invariant.
LEMMA MeshStep ==
    ASSUME IInv, HNext, NEW user \in MeshUsers, NEW name \in MeshNames, NEW t,
           NEW derives, OnMeshtasticMessage(user, name, t, derives)
    PROVE  RegistryStep /\ LoopTypes'
  <1>. DEFINE msg == MeshMsg(t, user)
              got == GetOrCreate(identities, user, heap, millis, derives)
  <1>1. /\ Deliver("mesh")
        /\ \/ SkipDuplicate(msg)
           \/ /\ ForwardAsVirtual(msg, name, got) \/ ForwardAsBridge(msg, name, got)
              /\ UNCHANGED pending
    BY DEF OnMeshtasticMessage, MeshMsg
  <1>2. GotIt(identities, got, user, millis)
    BY Registered, GotHolds
  <1>3. dedup.idx \in Slots /\ time \in Nat /\ time <= time
    BY Registered DEF IInv, TypeOK
  <1>4. announce' = announce /\ time' = time
    BY <1>1 DEF Deliver
  <1>. HIDE DEF msg, got, millis
  <1>5. Len(got.evicted) \in Nat
    <2>1. got.evicted \in Seq(IdType)
      BY <1>2 DEF GotIt, Parts
    <2>. QED
      BY <2>1
  <1>6. CASE SkipDuplicate(msg)
    <2>1. UNCHANGED <<identities, dedup, pending>> /\ did' = [Nothing EXCEPT !.skipped = msg]
      BY <1>6 DEF SkipDuplicate
    <2>2. Quiet
      BY <1>4, <2>1, NothingIs DEF Quiet
    <2>3. RegistryStep
      BY <1>3, <1>4, <2>2, QuietStep
    <2>4. LoopTypes'
      BY <1>1, <1>3, <2>1, DeliverTypes
    <2>. QED
      BY <2>3, <2>4
  <1>7. CASE ForwardAsVirtual(msg, name, got) /\ UNCHANGED pending
    <2>1. RegistryStep
      BY <1>2, <1>4, <1>7, VirtualRegistry DEF msg
    <2>2. dedup' = RecordHashes(<<Hash(msg)>> \o EvictionHashes(got.evicted)
                                   \o <<OutgoingHash(msg[1])>>)
      BY <1>7 DEF ForwardAsVirtual
    <2>3. dedup'.idx \in Slots
      BY <1>3, <1>5, <2>2, HashesCounted, RecordedAt
    <2>4. LoopTypes'
      BY <1>1, <1>7, <2>3, DeliverTypes
    <2>. QED
      BY <2>1, <2>4
  <1>8. CASE ForwardAsBridge(msg, name, got) /\ UNCHANGED pending
    <2>1. RegistryStep
      BY <1>2, <1>4, <1>8, BridgeRegistry DEF msg
    <2>2. dedup' = RecordHashes(<<Hash(msg)>> \o EvictionHashes(got.evicted)
                                   \o <<OutgoingHash(Bridged("[M]", name, msg[1]))>>)
      BY <1>8 DEF ForwardAsBridge
    <2>3. dedup'.idx \in Slots
      BY <1>3, <1>5, <2>2, HashesCounted, RecordedAt
    <2>4. LoopTypes'
      BY <1>1, <1>8, <2>3, DeliverTypes
    <2>. QED
      BY <2>1, <2>4
  <1>. QED
    BY <1>1, <1>6, <1>7, <1>8

\* _on_bitchat_message keeps the invariant.
LEMMA PhoneStep ==
    ASSUME IInv, HNext, NEW fp, NEW text, OnBitchatMessage(fp, text)
    PROVE  RegistryStep /\ LoopTypes'
  <1>. DEFINE msg == <<text, Zero, fp>>
  <1>1. /\ Deliver("ble") /\ UNCHANGED identities
        /\ SkipDuplicate(msg) \/ ForwardShort(msg) \/ ForwardLong(msg)
    BY DEF OnBitchatMessage
  <1>2. msg[2] = Zero
    OBVIOUS
  <1>3. dedup.idx \in Slots /\ time \in Nat /\ time <= time
    BY Registered DEF IInv, TypeOK
  <1>4. announce' = announce /\ time' = time
    BY <1>1 DEF Deliver
  <1>. HIDE DEF msg
  <1>6. CASE SkipDuplicate(msg)
    <2>1. UNCHANGED <<identities, dedup, pending>> /\ did' = [Nothing EXCEPT !.skipped = msg]
      BY <1>6 DEF SkipDuplicate
    <2>2. Quiet
      BY <1>4, <2>1, NothingIs DEF Quiet
    <2>3. RegistryStep
      BY <1>3, <1>4, <2>2, QuietStep
    <2>4. LoopTypes'
      BY <1>1, <1>3, <2>1, DeliverTypes
    <2>. QED
      BY <2>3, <2>4
  <1>7. CASE ForwardShort(msg)
    <2>. DEFINE bridged == Bridged("[B]", msg[3], msg[1])
                hashes == <<Hash(msg), OutgoingHash(bridged)>>
    <2>1. /\ dedup' = RecordHashes(hashes) /\ UNCHANGED pending
          /\ did' = [Nothing EXCEPT !.forwarded = msg, !.hashes = hashes,
                                    !.mesh = ToMesh(<<bridged>>)]
      BY <1>7 DEF ForwardShort
    <2>2. Len(hashes) \in Nat
      OBVIOUS
    <2>. HIDE DEF hashes, bridged
    <2>3. dedup'.idx \in Slots
      BY <1>3, <2>1, <2>2, RecordedAt
    <2>4. did'.ble = <<>> /\ did'.evicted = <<>> /\ did'.forwarded = msg
      BY <2>1 DEF Nothing
    <2>5. Quiet
      BY <1>1, <1>2, <1>4, <2>4 DEF Quiet
    <2>6. RegistryStep
      BY <1>3, <1>4, <2>5, QuietStep
    <2>7. LoopTypes'
      BY <1>1, <2>1, <2>3, DeliverTypes
    <2>. QED
      BY <2>6, <2>7
  <1>8. CASE ForwardLong(msg)
    <2>. DEFINE chunks == [i \in 1 .. CHUNKS |-> Chunk(msg[3], msg[1], i)]
                hashes == <<Hash(msg)>> \o [i \in 1 .. CHUNKS |-> OutgoingHash(chunks[i])]
    <2>1. /\ dedup' = RecordHashes(hashes)
          /\ pending' = [chunks |-> chunks, next |-> 0, at |-> millis]
          /\ did' = [Nothing EXCEPT !.forwarded = msg, !.hashes = hashes]
      BY <1>8 DEF ForwardLong, SplitIntoChunks
    <2>2. Len(hashes) \in Nat /\ Len(chunks) = CHUNKS
      BY ChunksCounted
    <2>. HIDE DEF hashes, chunks
    <2>3. dedup'.idx \in Slots
      BY <1>3, <2>1, <2>2, RecordedAt
    <2>4. did'.ble = <<>> /\ did'.evicted = <<>> /\ did'.forwarded = msg
      BY <2>1 DEF Nothing
    <2>5. Quiet
      BY <1>1, <1>2, <1>4, <2>4 DEF Quiet
    <2>6. RegistryStep
      BY <1>3, <1>4, <2>5, QuietStep
    <2>7. LoopTypes'
      <3>1. LoopTypes
        BY TypesOfLoop
      <3>2. delivered' \in 0 .. MaxMessages
        BY <1>1, OneMoreDelivered
      <3>3. UNCHANGED <<phase, time, heap, mesh_up, announce, mem_check>>
        BY <1>1 DEF Deliver
      <3>4. millis \in 0 .. CLOCK_MOD - 1
        BY Registered
      <3>. HIDE DEF millis
      <3>5. /\ pending'.chunks = chunks /\ pending'.next = 0 /\ pending'.at = millis
            /\ pending' = [chunks |-> pending'.chunks, next |-> pending'.next, at |-> pending'.at]
        BY <2>1
      <3>6. 0 \in 0 .. CHUNKS /\ CHUNKS \in Nat
        BY BridgeAssumption
      <3>7. Len(pending'.chunks) = CHUNKS
        BY <2>2, <3>5
      <3>. QED
        BY <2>3, <3>1, <3>2, <3>3, <3>4, <3>5, <3>6, <3>7 DEF LoopTypes, Slots
    <2>. QED
      BY <2>6, <2>7
  <1>. QED
    BY <1>1, <1>6, <1>7, <1>8

\* The announce step, whose position stays within the registry.
LEMMA AnnounceTypes ==
    ASSUME IInv, AnnounceStep
    PROVE  LoopTypes'
  <1>. DEFINE a == AtStart
  <1>1. LoopTypes
    BY TypesOfLoop
  <1>2. AnnounceCases
    BY AnnounceSplits
  <1>3. /\ phase' = "memory"
        /\ UNCHANGED <<time, heap, mesh_up, mem_check, dedup, pending, delivered>>
    BY DEF AnnounceStep
  <1>4. millis \in 0 .. CLOCK_MOD - 1 /\ Len(identities) <= VIRT_ID_MAX_SLOTS
        /\ Len(identities) \in Nat
    BY Registered
  <1>. HIDE DEF millis
  <1>5. VIRT_ID_MAX_SLOTS \in Nat /\ CLOCK_MOD \in Nat \ {0}
    BY RegistryAssumption
  <1>6. a \in [idx : -1 .. VIRT_ID_MAX_SLOTS, cycle : 0 .. CLOCK_MOD - 1,
               step : 0 .. CLOCK_MOD - 1]
    <2>1. 0 \in -1 .. VIRT_ID_MAX_SLOTS /\ 0 \in 0 .. CLOCK_MOD - 1
      BY <1>5
    <2>2. announce \in [idx : -1 .. VIRT_ID_MAX_SLOTS, cycle : 0 .. CLOCK_MOD - 1,
                        step : 0 .. CLOCK_MOD - 1]
      BY <1>1 DEF LoopTypes
    <2>. QED
      BY <1>4, <2>1, <2>2 DEF AtStart
  <1>. HIDE DEF a
  <1>7. announce' \in [idx : -1 .. VIRT_ID_MAX_SLOTS, cycle : 0 .. CLOCK_MOD - 1,
                       step : 0 .. CLOCK_MOD - 1]
    <2>1. CASE announce' = a
      BY <1>6, <2>1
    <2>2. CASE /\ a.idx >= 0 /\ a.idx < Len(identities)
               /\ announce' = AnnounceNext(a)
      <3>1. a.idx + 1 \in -1 .. VIRT_ID_MAX_SLOTS
        <4>1. a.idx \in -1 .. VIRT_ID_MAX_SLOTS
          BY <1>6
        <4>. QED
          BY <1>4, <1>5, <2>2, <4>1
      <3>. DEFINE b == [a EXCEPT !.idx = a.idx + 1]
      <3>2. b \in [idx : -1 .. VIRT_ID_MAX_SLOTS, cycle : 0 .. CLOCK_MOD - 1,
                   step : 0 .. CLOCK_MOD - 1]
        BY <1>6, <3>1
      <3>3. AnnounceNext(a) = [b EXCEPT !.step = millis]
        BY <1>6 DEF AnnounceNext
      <3>. HIDE DEF b
      <3>. QED
        BY <1>4, <2>2, <3>2, <3>3
    <2>3. CASE announce' = [a EXCEPT !.idx = -1]
      <3>1. -1 \in -1 .. VIRT_ID_MAX_SLOTS
        BY <1>5
      <3>. QED
        BY <1>6, <2>3, <3>1
    <2>. QED
      BY <1>2, <2>1, <2>2, <2>3 DEF AnnounceCases, a
  <1>. QED
    BY <1>1, <1>3, <1>7 DEF LoopTypes, Slots

\* The chunk queue's position stays within it.
LEMMA DrainTypes ==
    ASSUME IInv, DrainChunks
    PROVE  LoopTypes'
  <1>1. LoopTypes
    BY TypesOfLoop
  <1>2. /\ phase' = "mesh"
        /\ UNCHANGED <<time, heap, mesh_up, announce, mem_check, dedup, delivered>>
    BY DEF DrainChunks
  <1>. DEFINE c == pending.chunks
              n == pending.next
              at == pending.at
              due_at == (millis + BRIDGE_CHUNK_DELAY) % CLOCK_MOD
  <1>3. /\ pending = [chunks |-> c, next |-> n, at |-> at] /\ at \in 0 .. CLOCK_MOD - 1
        /\ Len(c) \in {0, CHUNKS} /\ n \in 0 .. Len(c)
    BY <1>1 DEF LoopTypes
  <1>4. Len(c) \in Nat
    BY <1>3, BridgeAssumption
  <1>5. due_at \in 0 .. CLOCK_MOD - 1
    <2>1. millis + BRIDGE_CHUNK_DELAY \in Nat /\ CLOCK_MOD \in Nat \ {0}
      <3>1. millis \in 0 .. CLOCK_MOD - 1
        BY Registered
      <3>. HIDE DEF millis
      <3>. QED
        BY <3>1, BridgeAssumption, RegistryAssumption
    <2>. HIDE DEF millis
    <2>. QED
      BY <2>1, Modulo
  <1>6. \/ pending' = pending
        \/ pending' = [pending EXCEPT !.next = Len(c)]
        \/ n < Len(c) /\ pending' = [pending EXCEPT !.next = n + 1, !.at = due_at]
    BY DEF DrainChunks
  <1>. HIDE DEF c, n, at, due_at
  <1>7. /\ pending'.chunks = c
        /\ pending' = [chunks |-> pending'.chunks, next |-> pending'.next, at |-> pending'.at]
        /\ pending'.next \in 0 .. Len(c) /\ pending'.at \in 0 .. CLOCK_MOD - 1
    <2>1. CASE pending' = pending
      BY <1>3, <2>1
    <2>2. CASE pending' = [pending EXCEPT !.next = Len(c)]
      <3>1. pending' = [chunks |-> c, next |-> Len(c), at |-> at]
        BY <1>3, <2>2
      <3>2. Len(c) \in 0 .. Len(c)
        BY <1>4
      <3>. QED
        BY <1>3, <3>1, <3>2
    <2>3. CASE n < Len(c) /\ pending' = [pending EXCEPT !.next = n + 1, !.at = due_at]
      <3>1. pending' = [chunks |-> c, next |-> n + 1, at |-> due_at]
        BY <1>3, <2>3
      <3>2. n + 1 \in 0 .. Len(c)
        BY <1>3, <1>4, <2>3
      <3>. QED
        BY <1>5, <3>1, <3>2
    <2>. QED
      BY <1>6, <2>1, <2>2, <2>3
  <1>. QED
    BY <1>1, <1>2, <1>3, <1>7 DEF LoopTypes, Slots

\* The steps of loop() after the transports.
LEMMA LoopKeeps ==
    ASSUME IInv, HNext, LoopStep
    PROVE  RegistryStep /\ LoopTypes'
  <1>1. LoopTypes /\ time \in Nat /\ time <= time
    BY TypesOfLoop, Registered
  <1>2. CASE TransportDone
    <2>1. /\ did' = Nothing /\ UNCHANGED <<time, heap, mesh_up, identities, announce,
                                           mem_check, dedup, pending, delivered>>
          /\ phase' \in {"ble", "announce"}
      BY <1>2 DEF TransportDone
    <2>2. Quiet
      BY <2>1, NothingIs DEF Quiet
    <2>3. RegistryStep
      BY <1>1, <2>1, <2>2, QuietStep
    <2>4. LoopTypes'
      BY <1>1, <2>1 DEF LoopTypes, Slots
    <2>. QED
      BY <2>3, <2>4
  <1>3. CASE AnnounceStep
    BY <1>3, AnnounceRegistry, AnnounceTypes
  <1>4. CASE MemoryCheck
    <2>0. millis \in 0 .. CLOCK_MOD - 1
      BY Registered
    <2>. HIDE DEF millis
    <2>1. /\ did' = Nothing /\ UNCHANGED <<time, heap, mesh_up, identities, announce,
                                           dedup, pending, delivered>>
          /\ phase' \in {"shed", "drain"} /\ mem_check' \in {millis, mem_check}
      BY <1>4 DEF MemoryCheck
    <2>2. Quiet
      BY <2>1, NothingIs DEF Quiet
    <2>3. RegistryStep
      BY <1>1, <2>1, <2>2, QuietStep
    <2>4. LoopTypes'
      BY <1>1, <2>0, <2>1 DEF LoopTypes, Slots
    <2>. QED
      BY <2>3, <2>4
  <1>5. CASE ShedStep
    <2>1. PICK left \in HeapLevels : heap' = left /\ (ShedIdentity(left) \/ ShedEnds(left))
      BY <1>5 DEF ShedStep
    <2>2. phase = "shed" /\ UNCHANGED <<time, mesh_up, announce, mem_check, pending, delivered>>
      BY <1>5 DEF ShedStep
    <2>3. CASE ShedIdentity(left)
      <3>1. RegistryStep
        BY <2>2, <2>3, ShedRegistry
      <3>. DEFINE victims == <<identities[Lru(identities)]>>
      <3>2. Len(victims) \in Nat
        OBVIOUS
      <3>3. dedup' = RecordHashes(EvictionHashes(victims)) /\ phase' = phase
        BY <2>3 DEF ShedIdentity
      <3>. HIDE DEF victims
      <3>4. dedup'.idx \in Slots
        <4>1. dedup.idx \in Slots
          BY <1>1 DEF LoopTypes
        <4>2. Len(EvictionHashes(victims)) \in Nat
          BY <3>2, HashesCounted
        <4>. QED
          BY <3>3, <4>1, <4>2, RecordedAt
      <3>5. LoopTypes'
        BY <1>1, <2>1, <2>2, <3>3, <3>4 DEF LoopTypes, Slots
      <3>. QED
        BY <3>1, <3>5
    <2>4. CASE ShedEnds(left)
      <3>1. did' = Nothing /\ phase' = "drain" /\ UNCHANGED <<identities, dedup>>
        BY <2>4 DEF ShedEnds
      <3>2. Quiet
        BY <2>2, <3>1, NothingIs DEF Quiet
      <3>3. RegistryStep
        BY <1>1, <2>2, <3>2, QuietStep
      <3>4. LoopTypes'
        BY <1>1, <2>1, <2>2, <3>1 DEF LoopTypes, Slots
      <3>. QED
        BY <3>3, <3>4
    <2>. QED
      BY <2>1, <2>3, <2>4
  <1>6. CASE DrainChunks
    <2>1. /\ UNCHANGED <<time, identities, announce>>
          /\ did' = Nothing \/ \E m : did' = [Nothing EXCEPT !.mesh = m]
      BY <1>6 DEF DrainChunks
    <2>2. Quiet
      BY <2>1, NothingIs DEF Quiet
    <2>3. RegistryStep
      BY <1>1, <2>1, <2>2, QuietStep
    <2>4. LoopTypes'
      BY <1>6, DrainTypes
    <2>. QED
      BY <2>3, <2>4
  <1>. QED
    BY <1>2, <1>3, <1>4, <1>5, <1>6 DEF LoopStep

\* Every step does to the registry what it should, and keeps the types.
LEMMA NextKeeps ==
    ASSUME IInv, HNext
    PROVE  RegistryStep /\ LoopTypes'
  <1>1. LoopTypes /\ time \in Nat /\ time <= time
    BY TypesOfLoop, Registered
  <1>2. Next
    BY DEF HNext
  <1>3. CASE MeshUserSpeaks
    <2>1. PICK user \in MeshUsers, name \in MeshNames, t \in ShortTexts \cup LongTexts,
               derives \in BOOLEAN : OnMeshtasticMessage(user, name, t, derives)
      BY <1>3 DEF MeshUserSpeaks
    <2>. QED
      BY <2>1, MeshStep
  <1>4. CASE PhoneSpeaks
    <2>1. PICK fp \in Phones, t \in ShortTexts \cup LongTexts : OnBitchatMessage(fp, Raw(t))
      BY <1>4 DEF PhoneSpeaks
    <2>. QED
      BY <2>1, PhoneStep
  <1>5. CASE LoopStep
    BY <1>5, LoopKeeps
  <1>6. CASE Tick
    <2>1. /\ did' = Nothing /\ time < MaxTime /\ time' = time + 1
          /\ UNCHANGED <<phase, heap, mesh_up, identities, announce, mem_check, dedup,
                         pending, delivered>>
      BY <1>6 DEF Tick
    <2>2. time' \in Nat /\ time <= time' /\ time' <= MaxTime
      BY <1>1, <2>1, BridgeAssumption
    <2>3. Quiet
      BY <2>1, NothingIs DEF Quiet
    <2>4. RegistryStep
      BY <2>2, <2>3, QuietStep
    <2>5. LoopTypes'
      BY <1>1, <2>1, <2>2 DEF LoopTypes, Slots
    <2>. QED
      BY <2>4, <2>5
  <1>7. CASE HeapChanges \/ LinkChanges
    <2>1. /\ did' = Nothing /\ heap' \in HeapLevels /\ mesh_up' \in LinkStates
          /\ UNCHANGED <<phase, time, identities, announce, mem_check, dedup, pending,
                         delivered>>
      BY <1>1, <1>7 DEF HeapChanges, LinkChanges, LoopTypes
    <2>2. Quiet
      BY <2>1, NothingIs DEF Quiet
    <2>3. RegistryStep
      BY <1>1, <2>1, <2>2, QuietStep
    <2>4. LoopTypes'
      BY <1>1, <2>1 DEF LoopTypes, Slots
    <2>. QED
      BY <2>3, <2>4
  <1>. QED
    BY <1>2, <1>3, <1>4, <1>5, <1>6, <1>7 DEF Next
-----------------------------------------------------------------------------
(* The theorems of the identities                                           *)

\* The invariant holds at the start: the registry is empty.
LEMMA InitIInv == HInit => IInv
  <1>. SUFFICES ASSUME HInit PROVE IInv
    OBVIOUS
  <1>. DEFINE none == <<>>
  <1>1. /\ Init /\ present = {} /\ heard = [u \in MeshUsers |-> 0] /\ due = {}
        /\ overtaken = 0
    BY DEF HInit
  <1>2. identities = none /\ time = 0
    BY <1>1 DEF Init
  <1>3. none \in Seq(IdType) /\ DOMAIN none = {} /\ Len(none) = 0 /\ Nodes(none) = {}
    BY DEF Nodes
  <1>. HIDE DEF none
  <1>4. /\ 0 \in 0 .. CLOCK_MOD - 1 /\ 0 \in Slots /\ -1 \in -1 .. VIRT_ID_MAX_SLOTS
        /\ 0 <= VIRT_ID_MAX_SLOTS /\ 0 <= MaxTime /\ 0 \in 0 .. MaxMessages /\ 0 \in 0 .. 0
    BY RegistryAssumption, BridgeAssumption DEF Slots
  <1>5. LoopTypes
    <2>1. Len(<<>>) = 0
      OBVIOUS
    <2>2. /\ pending.chunks = <<>> /\ pending.next = 0 /\ pending.at = 0
          /\ pending = [chunks |-> pending.chunks, next |-> pending.next, at |-> pending.at]
      BY <1>1 DEF Init
    <2>3. announce \in [idx : -1 .. VIRT_ID_MAX_SLOTS, cycle : 0 .. CLOCK_MOD - 1,
                        step : 0 .. CLOCK_MOD - 1]
      BY <1>1, <1>4 DEF Init
    <2>4. dedup.idx = 0
      BY <1>1 DEF Init
    <2>5. /\ phase = "mesh" /\ heap \in HeapLevels /\ mesh_up \in LinkStates
          /\ mem_check = 0 /\ delivered = 0
      BY <1>1 DEF Init
    <2>6. Len(pending.chunks) = 0
      BY <2>1, <2>2
    <2>. QED
      BY <1>2, <1>4, <2>2, <2>3, <2>4, <2>5, <2>6 DEF LoopTypes
  <1>6. RegistryTypes
    <2>1. heard \in [MeshUsers -> Nat] /\ (\A u \in MeshUsers : heard[u] = 0)
      BY <1>1
    <2>2. identities \in Seq(IdType) /\ Len(identities) <= VIRT_ID_MAX_SLOTS
      BY <1>2, <1>3, <1>4
    <2>3. \A u \in MeshUsers : heard[u] <= time
      BY <1>2, <2>1
    <2>. QED
      BY <1>1, <2>1, <2>2, <2>3 DEF RegistryTypes
  <1>7. TypeOK /\ StateType
    BY <1>5, <1>6, TypesTogether
  <1>8. OneIdentityPerUser /\ DueAhead /\ SeenIsHeard
    <2>1. IsFiniteSet(due) /\ announce.idx = -1
      BY <1>1, FS_EmptySet DEF Init
    <2>. QED
      BY <1>1, <1>2, <1>3, <2>1 DEF OneIdentityPerUser, DueAhead, SeenIsHeard
  <1>9. PeersSeeRegistry
    BY <1>1, <1>2, <1>3 DEF PeersSeeRegistry
  <1>. QED
    BY <1>7, <1>8, <1>9 DEF IInv

\* Every step keeps it.
LEMMA NextIInv == IInv /\ [HNext]_hvars => IInv'
  <1>. SUFFICES ASSUME IInv, [HNext]_hvars PROVE IInv'
    OBVIOUS
  <1>1. CASE HNext
    <2>1. RegistryStep /\ LoopTypes'
      BY <1>1, NextKeeps
    <2>2. /\ identities' \in Seq(IdType) /\ Len(identities') <= VIRT_ID_MAX_SLOTS
          /\ heard' \in [MeshUsers -> Nat] /\ (\A u \in MeshUsers : heard'[u] <= time')
          /\ overtaken' \in Nat
          /\ OneIdentityPerUser' /\ PeersSeeRegistry' /\ DueAhead' /\ SeenIsHeard'
      BY <2>1 DEF RegistryStep
    <2>4. RegistryTypes'
      BY <2>2 DEF RegistryTypes
    <2>3. TypeOK' /\ StateType'
      BY <2>1, <2>4, TypesTogether, PTL
    <2>. QED
      BY <2>2, <2>3 DEF IInv
  <1>2. CASE UNCHANGED hvars
    <2>1. /\ TypeOK' /\ StateType' /\ OneIdentityPerUser' /\ PeersSeeRegistry'
          /\ DueAhead' /\ SeenIsHeard'
      BY <1>2 DEF IInv, hvars, vars, TypeOK, StateType, OneIdentityPerUser, PeersSeeRegistry,
                  DueAhead, SeenIsHeard, Nodes, Slots, Beyond
    <2>. QED
      BY <2>1 DEF IInv
  <1>. QED
    BY <1>1, <1>2

\* The invariant holds throughout.
LEMMA Invariance == HSpec => []IInv
  BY InitIInv, NextIInv, PTL DEF HSpec

\* Every variable of the bridge keeps its type: the registry stays within its
\* slots and the chunk queue's position within the queue.
THEOREM BridgeTypeCorrect == HSpec => []TypeOK
  <1>1. IInv => TypeOK
    BY DEF IInv
  <1>. QED
    BY <1>1, Invariance, PTL

\* get_or_create never gives a user a second identity, whatever was evicted.
THEOREM BridgeOneIdentityPerUser == HSpec => []OneIdentityPerUser
  <1>1. IInv => OneIdentityPerUser
    BY DEF IInv
  <1>. QED
    BY <1>1, Invariance, PTL

\* Phones have been told of exactly the identities in the registry: every path
\* that creates one announces it and every path that evicts one says farewell.
THEOREM BridgePeersSeeRegistry == HSpec => []PeersSeeRegistry
  <1>1. IInv => PeersSeeRegistry
    BY DEF IInv
  <1>. QED
    BY <1>1, Invariance, PTL

\* No message goes out under a virtual identity before its announce.
THEOREM BridgeAnnouncesFirst == HSpec => AnnouncedBeforeSpeaking
  <1>1. IInv /\ HNext =>
          \A j \in DOMAIN did'.ble :
              LET p == did'.ble[j]
              IN  p.type = "message" /\ p.as # Bridge =>
                      p.as \in present \cup Announced(SubSeq(did'.ble, 1, j - 1))
    <2>. SUFFICES ASSUME IInv, HNext
                  PROVE  \A j \in DOMAIN did'.ble :
                            did'.ble[j].type = "message" /\ did'.ble[j].as # Bridge =>
                                did'.ble[j].as \in
                                    present \cup Announced(SubSeq(did'.ble, 1, j - 1))
      OBVIOUS
    <2>1. Spoken(identities, did'.ble)
      BY NextKeeps DEF RegistryStep
    <2>2. present = Nodes(identities)
      BY DEF IInv, PeersSeeRegistry
    <2>. QED
      BY <2>1, <2>2 DEF Spoken
  <1>. QED
    BY <1>1, Invariance, PTL DEF HSpec, AnnouncedBeforeSpeaking

\* The staggered announce cycle reaches every identity that was registered when
\* it started and is still there, but for at most as many as were evicted from
\* before its position while it ran.
THEOREM BridgeCycleAnnouncesAll == HSpec => CycleAnnouncesAll
  <1>1. IInv /\ HNext => (announce.idx >= 0 /\ announce'.idx < 0 => Cardinality(due) <= overtaken)
    BY NextKeeps DEF RegistryStep, CycleDone
  <1>. QED
    BY <1>1, Invariance, PTL DEF HSpec, CycleAnnouncesAll

\* As long as millis() has not wrapped, _expire_stale, _evict_lru and the
\* memory shedding evict only identities that were silent at least as long as
\* every one that stays.
THEOREM BridgeEvictsLeastRecent ==
    ASSUME MaxTime < CLOCK_MOD
    PROVE  HSpec => EvictsLeastRecent
  <1>1. IInv /\ HNext =>
          \A gone \in Nodes(did'.evicted), stays \in Nodes(identities) \ Nodes(did'.evicted) :
              heard[gone] <= heard[stays]
    BY NextKeeps DEF RegistryStep, LeastRecentGo
  <1>. QED
    BY <1>1, Invariance, PTL DEF HSpec, EvictsLeastRecent
-----------------------------------------------------------------------------
(* Counting modulo                                                          *)

\* Quotient and remainder.
LEMMA Division ==
    ASSUME NEW x \in Nat, NEW m \in Nat \ {0}
    PROVE  x \div m \in Nat /\ x % m \in 0 .. m - 1 /\ x = m * (x \div m) + (x % m)
  OBVIOUS

\* A quotient and a remainder are the only ones.
LEMMA Remainder ==
    ASSUME NEW x \in Nat, NEW m \in Nat \ {0}, NEW q \in Int, NEW r \in 0 .. m - 1,
           x = m * q + r
    PROVE  x % m = r
  <1>. DEFINE d == x \div m
              s == x % m
  <1>1. d \in Nat /\ s \in 0 .. m - 1 /\ x = m * d + s
    BY Division
  <1>. HIDE DEF d, s
  <1>2. m * (d - q) = r - s
    BY <1>1
  <1>3. d - q \in Int /\ -m < r - s /\ r - s < m
    BY <1>1
  <1>. DEFINE e == d - q
  <1>4. e = 0
    <2>1. e \in Int /\ -m < m * e /\ m * e < m
      BY <1>2, <1>3
    <2>. HIDE DEF e
    <2>2. CASE e >= 1
      <3>1. m * e >= m
        BY <2>1, <2>2
      <3>. QED
        BY <2>1, <3>1
    <2>3. CASE e <= -1
      <3>1. m * e <= -m
        BY <2>1, <2>3
      <3>. QED
        BY <2>1, <3>1
    <2>. QED
      BY <2>1, <2>2, <2>3
  <1>5. r - s = 0
    BY <1>2, <1>4
  <1>6. r = s
    BY <1>1, <1>5
  <1>. QED
    BY <1>6 DEF s

\* Numbers that differ by a multiple of the modulus.
LEMMA Congruent ==
    ASSUME NEW x \in Nat, NEW y \in Nat, NEW m \in Nat \ {0}, NEW k \in Int, x = y + m * k
    PROVE  x % m = y % m
  <1>. DEFINE q == y \div m
              r == y % m
  <1>1. q \in Nat /\ r \in 0 .. m - 1 /\ y = m * q + r
    BY Division
  <1>. HIDE DEF q, r
  <1>2. x = m * (q + k) + r /\ q + k \in Int
    BY <1>1
  <1>3. x % m = r
    BY <1>1, <1>2, Remainder
  <1>. QED
    BY <1>3 DEF r

\* A sum may be reduced before it is taken.
LEMMA ReducedSum ==
    ASSUME NEW x \in Nat, NEW k \in Nat, NEW m \in Nat \ {0}
    PROVE  ((x % m) + k) % m = (x + k) % m
  <1>. DEFINE q == x \div m
              r == x % m
  <1>1. q \in Nat /\ r \in 0 .. m - 1 /\ x = m * q + r
    BY Division
  <1>. HIDE DEF q, r
  <1>. DEFINE u == x + k
              v == r + k
  <1>2. u = v + m * q /\ u \in Nat /\ v \in Nat /\ q \in Int
    BY <1>1
  <1>. HIDE DEF u, v
  <1>3. u % m = v % m
    BY <1>2, Congruent
  <1>. QED
    BY <1>3 DEF u, v, r

\* Numbers closer to each other than the modulus have different remainders.
LEMMA CloseDiffer ==
    ASSUME NEW x \in Nat, NEW y \in Nat, NEW m \in Nat \ {0}, x < y, y - x < m
    PROVE  x % m # y % m
  <1>. SUFFICES ASSUME x % m = y % m PROVE FALSE
    OBVIOUS
  <1>. DEFINE p == x \div m
              q == y \div m
              r == x % m
  <1>1. p \in Nat /\ r \in 0 .. m - 1 /\ x = m * p + r
    BY Division
  <1>2. q \in Nat /\ y = m * q + r
    BY Division
  <1>. HIDE DEF p, q, r
  <1>3. m * (q - p) = y - x /\ q - p \in Int
    BY <1>1, <1>2
  <1>. DEFINE e == q - p
  <1>4. e \in Int /\ 0 < m * e /\ m * e < m
    BY <1>3
  <1>. HIDE DEF e
  <1>5. CASE e >= 1
    <2>1. m * e >= m
      BY <1>4, <1>5
    <2>. QED
      BY <1>4, <2>1
  <1>6. CASE e <= 0
    <2>1. m * e <= 0
      BY <1>4, <1>6
    <2>. QED
      BY <1>4, <2>1
  <1>. QED
    BY <1>4, <1>5, <1>6

\* A remainder is no more than its number.
LEMMA RemainderAtMost ==
    ASSUME NEW x \in Nat, NEW m \in Nat \ {0}
    PROVE  x % m <= x
  <1>. DEFINE q == x \div m
              r == x % m
  <1>1. q \in Nat /\ r \in 0 .. m - 1 /\ x = m * q + r
    BY Division
  <1>. HIDE DEF q, r
  <1>2. m * q >= 0
    BY <1>1
  <1>3. r <= x
    BY <1>1, <1>2
  <1>. QED
    BY <1>3 DEF r

\* (uint32_t)(now - then) of two millis() values depends on the times alone.
LEMMA SinceModulo ==
    ASSUME NEW x \in Nat, NEW y \in Nat, NEW z \in Nat, NEW k \in Int, z = y - x + CLOCK_MOD * k
    PROVE  Since(x % CLOCK_MOD, y % CLOCK_MOD) = z % CLOCK_MOD
  <1>. DEFINE m == CLOCK_MOD
              p == x \div m
              q == y \div m
              r == x % m
              s == y % m
              w == s + m - r
  <1>0. m \in Nat \ {0}
    BY RegistryAssumption
  <1>. HIDE DEF m
  <1>1. p \in Nat /\ r \in 0 .. m - 1 /\ x = m * p + r
    BY <1>0, Division
  <1>2. q \in Nat /\ s \in 0 .. m - 1 /\ y = m * q + s
    BY <1>0, Division
  <1>3. Since(x % CLOCK_MOD, y % CLOCK_MOD) = w % m
    BY DEF Since, m
  <1>. HIDE DEF p, q, r, s
  <1>4. w \in Nat
    BY <1>0, <1>1, <1>2
  <1>5. w = z + m * (1 + p - q - k)
    <2>1. z = y - x + m * k
      BY DEF m
    <2>. DEFINE a == m * p
                b == m * q
                c == m * k
                e == m * (1 + p - q - k)
    <2>2. e = m + a - b - c /\ a \in Int /\ b \in Int /\ c \in Int
      BY <1>0, <1>1, <1>2
    <2>3. x = a + r /\ y = b + s /\ z = y - x + c
      BY <1>1, <1>2, <2>1
    <2>. HIDE DEF a, b, c, e
    <2>4. w = z + e
      BY <1>0, <1>1, <1>2, <2>2, <2>3
    <2>. QED
      BY <2>4 DEF e
  <1>6. 1 + p - q - k \in Int
    BY <1>1, <1>2
  <1>. HIDE DEF w
  <1>7. w % m = z % m
    BY <1>0, <1>4, <1>5, <1>6, Congruent
  <1>. QED
    BY <1>3, <1>7 DEF m

\* Wrapping only makes a time since something look shorter.
LEMMA SinceAtMost ==
    ASSUME NEW x \in Nat, NEW y \in Nat, x <= y
    PROVE  Since(x % CLOCK_MOD, y % CLOCK_MOD) <= y - x
  <1>. DEFINE z == y - x
  <1>1. z \in Nat /\ z = y - x + CLOCK_MOD * 0 /\ CLOCK_MOD \in Nat \ {0} /\ 0 \in Int
    BY RegistryAssumption
  <1>. HIDE DEF z
  <1>2. Since(x % CLOCK_MOD, y % CLOCK_MOD) = z % CLOCK_MOD
    BY <1>1, SinceModulo
  <1>3. z % CLOCK_MOD <= z
    BY <1>1, RemainderAtMost
  <1>. QED
    BY <1>2, <1>3 DEF z

\* A moment still ahead, by at most half the clock, is not yet reached.
LEMMA AheadIsBefore ==
    ASSUME NEW x \in Nat, NEW y \in Nat, y < x, 2 * (x - y) <= CLOCK_MOD
    PROVE  IsBefore(y % CLOCK_MOD, x % CLOCK_MOD)
  <1>. DEFINE z == y - x + CLOCK_MOD
  <1>0. CLOCK_MOD \in Nat \ {0}
    BY RegistryAssumption
  <1>1. z \in 0 .. CLOCK_MOD - 1 /\ z \in Nat /\ z = y - x + CLOCK_MOD * 1 /\ 2 * z >= CLOCK_MOD
    BY <1>0
  <1>. HIDE DEF z
  <1>2. Since(x % CLOCK_MOD, y % CLOCK_MOD) = z % CLOCK_MOD
    BY <1>1, SinceModulo
  <1>3. z % CLOCK_MOD = z
    <2>1. z < CLOCK_MOD
      BY <1>0, <1>1
    <2>. QED
      BY <1>0, <1>1, <2>1, Modulo
  <1>4. z >= (CLOCK_MOD + 1) \div 2
    BY <1>0, <1>1
  <1>. QED
    BY <1>2, <1>3, <1>4 DEF IsBefore
-----------------------------------------------------------------------------
(* The dedup ring                                                           *)

\* The slot of the n-th hash recorded, counted from 0.
SlotOf(n) == n % DEDUP_CACHE_SIZE

\* What _record_hash leaves in a slot: the last of the hashes that go there, if
\* there is one.
Overwrites(ring, hashes, s) ==
    \/ /\ \A j \in DOMAIN hashes : SlotOf(records + j - 1) # s
       /\ ring[s] = dedup.ring[s]
    \/ \E j \in DOMAIN hashes :
          /\ SlotOf(records + j - 1) = s
          /\ \A k \in DOMAIN hashes : SlotOf(records + k - 1) = s => k <= j
          /\ ring[s] = [hash |-> hashes[j], at |-> millis]

\* Every non-empty set of positions of a sequence has a greatest element.
LEMMA GreatestElement ==
    ASSUME NEW n \in Nat, NEW I, I \subseteq 1 .. n, I # {}
    PROVE  \E i \in I : \A j \in I : j <= i
  <1>. DEFINE D == {n - i : i \in I}
  <1>0. ASSUME NEW i \in I PROVE i \in Nat /\ n - i \in Nat
    <2>1. i \in 1 .. n
      OBVIOUS
    <2>. QED
      BY <2>1
  <1>1. D \in SUBSET Nat /\ D # {}
    BY <1>0
  <1>2. PICK d \in D : \A e \in D : d <= e
    BY <1>1, LeastElement
  <1>3. PICK i \in I : d = n - i
    BY <1>2
  <1>4. ASSUME NEW j \in I PROVE j <= i
    <2>1. d <= n - j
      BY <1>2
    <2>2. i \in Nat /\ j \in Nat
      BY <1>0
    <2>. QED
      BY <1>3, <2>1, <2>2
  <1>. QED
    BY <1>4

\* The position after k more hashes, from the number recorded.
LEMMA SlotAfter ==
    ASSUME records \in Nat, dedup.idx = SlotOf(records), NEW k \in Nat
    PROVE  (dedup.idx + k) % DEDUP_CACHE_SIZE = SlotOf(records + k)
  BY ReducedSum, BridgeAssumption DEF SlotOf

\* The ring and the position after a sequence of hashes is recorded.
LEMMA RecordedIs ==
    ASSUME records \in Nat, dedup.idx = SlotOf(records),
           NEW hashes, NEW n \in Nat, Len(hashes) = n, DOMAIN hashes = 1 .. n
    PROVE  /\ RecordHashes(hashes).idx = SlotOf(records + n)
           /\ \A s \in Slots : Overwrites(RecordHashes(hashes).ring, hashes, s)
  <1>1. RecordHashes(hashes).idx = SlotOf(records + n)
    BY SlotAfter DEF RecordHashes
  <1>2. ASSUME NEW s \in Slots PROVE Overwrites(RecordHashes(hashes).ring, hashes, s)
    <2>. DEFINE W == {j \in DOMAIN hashes : (dedup.idx + j - 1) % DEDUP_CACHE_SIZE = s}
                L == CHOOSE j \in W : \A k \in W : k <= j
                ring == RecordHashes(hashes).ring
    <2>1. ring[s] = IF W = {} THEN dedup.ring[s] ELSE [hash |-> hashes[L], at |-> millis]
      BY DEF RecordHashes
    <2>2. ASSUME NEW j \in DOMAIN hashes
          PROVE  (dedup.idx + j - 1) % DEDUP_CACHE_SIZE = SlotOf(records + j - 1)
      <3>. DEFINE k == j - 1
      <3>1. dedup.idx \in Nat
        BY BridgeAssumption, Modulo DEF SlotOf
      <3>2. k \in Nat /\ dedup.idx + j - 1 = dedup.idx + k /\ records + j - 1 = records + k
        BY <3>1
      <3>. HIDE DEF k
      <3>. QED
        BY <3>2, SlotAfter
    <2>3. \A j \in DOMAIN hashes : j \in W <=> SlotOf(records + j - 1) = s
      BY <2>2
    <2>4. W \subseteq 1 .. n /\ W \subseteq DOMAIN hashes
      OBVIOUS
    <2>5. W # {} => L \in W /\ \A k \in W : k <= L
      <3>. SUFFICES ASSUME W # {} PROVE L \in W /\ \A k \in W : k <= L
        OBVIOUS
      <3>. HIDE DEF W
      <3>1. \E j \in W : \A k \in W : k <= j
        BY <2>4, GreatestElement
      <3>. QED
        BY <3>1
    <2>. HIDE DEF W, L, ring
    <2>6. Overwrites(ring, hashes, s)
      <3>1. CASE W = {}
        BY <2>1, <2>3, <3>1 DEF Overwrites
      <3>2. CASE W # {}
        <4>1. ring[s] = [hash |-> hashes[L], at |-> millis]
          BY <2>1, <3>2
        <4>2. L \in DOMAIN hashes /\ SlotOf(records + L - 1) = s
          BY <2>3, <2>4, <2>5, <3>2
        <4>3. \A k \in DOMAIN hashes : SlotOf(records + k - 1) = s => k <= L
          BY <2>3, <2>5, <3>2
        <4>. HIDE DEF millis
        <4>. QED
          BY <4>1, <4>2, <4>3 DEF Overwrites
      <3>. QED
        BY <3>1, <3>2
    <2>. QED
      BY <2>6 DEF ring
  <1>. QED
    BY <1>1, <1>2
-----------------------------------------------------------------------------
(* The inductive invariant of the traffic                                   *)

\* The hash of an outgoing message, which has only its text filled in.
Own(h) == \E text : h = OutgoingHash(text)

\* The registry as a vector of identities, one per user.
Registry ==
    /\ identities \in Seq(IdType) /\ Len(identities) <= VIRT_ID_MAX_SLOTS
    /\ OneEach(identities)

Environment == time \in Nat /\ time <= MaxTime /\ heap \in HeapLevels

\* What comes back to the bridge by gossip has a sender.
Senders == \A m \in aired : m[1] # Zero

Counted == records \in Nat /\ dedup.idx = SlotOf(records)

\* A forwarded message has its place in the ring until as many hashes as the
\* ring holds were recorded since.
Remembered ==
    \A h \in DOMAIN forwarded :
        /\ h # <<>>
        /\ forwarded[h].time \in Nat /\ forwarded[h].time <= time
        /\ forwarded[h].records \in Nat /\ forwarded[h].records < records
        /\ records - forwarded[h].records < DEDUP_CACHE_SIZE =>
              dedup.ring[SlotOf(forwarded[h].records)] =
                  [hash |-> h, at |-> forwarded[h].time % CLOCK_MOD]

\* An entry is of an outgoing message or of a message forwarded no earlier.
EntryOf(entry, known) ==
    \/ entry.hash = <<>>
    \/ Own(entry.hash)
    \/ /\ entry.hash \in DOMAIN known
       /\ entry.at \in Nat /\ entry.at <= known[entry.hash].time

\* Until the clock wraps, the ring holds nothing else.
Justified == MaxTime < CLOCK_MOD => \A s \in Slots : EntryOf(dedup.ring[s], forwarded)

ChunksOf(name, text) == [i \in 1 .. CHUNKS |-> Chunk(name, text, i)]

\* The queue holds one message's chunks; while some have been sent and others
\* not, the last one sent is the one before the next, which waits for the delay.
Queued ==
    /\ pending = [chunks |-> pending.chunks, next |-> pending.next, at |-> pending.at]
    /\ pending.next \in Nat
    /\ pending.chunks = <<>> \/ \E name, text : pending.chunks = ChunksOf(name, text)
    /\ 0 < pending.next /\ pending.next < Len(pending.chunks) =>
          /\ chunk.text = pending.chunks[pending.next]
          /\ chunk.time \in Nat /\ chunk.time <= time
          /\ pending.at = (chunk.time + BRIDGE_CHUNK_DELAY) % CLOCK_MOD

TrafficInv ==
    Registry /\ Environment /\ Senders /\ Counted /\ Remembered /\ Justified /\ Queued
-----------------------------------------------------------------------------
(* The inductive step: deduplication                                        *)

\* The step records hashes: that of the message it forwards, if it forwards one,
\* and those of outgoing messages.
Records ==
    /\ time' = time
    /\ Len(did'.hashes) \in Nat /\ DOMAIN did'.hashes = 1 .. Len(did'.hashes)
    /\ dedup' = RecordHashes(did'.hashes)
    /\ did'.skipped = <<>>
    /\ \A j \in DOMAIN did'.hashes :
          Own(did'.hashes[j]) \/ (did'.forwarded # <<>> /\ did'.hashes[j] = did'.forwarded)
    /\ did'.forwarded # <<>> =>
          /\ 1 \in DOMAIN did'.hashes /\ did'.hashes[1] = did'.forwarded
          /\ ~ IsDuplicate(did'.forwarded)

\* The step records nothing, and what it skips is a duplicate.
RecordsNothing ==
    /\ UNCHANGED dedup
    /\ did'.forwarded = <<>> /\ Len(did'.hashes) = 0
    /\ did'.skipped # <<>> => IsDuplicate(did'.skipped) /\ ~ Own(did'.skipped)

DedupStep ==
    /\ Records \/ RecordsNothing
    /\ time' \in Nat /\ time <= time' /\ time' <= MaxTime

\* The history of forwarded messages and hashes.
Remembers ==
    /\ forwarded' = IF did'.forwarded = <<>> THEN forwarded
                    ELSE [h \in DOMAIN forwarded \cup {did'.forwarded} |->
                             IF h = did'.forwarded
                             THEN [time |-> time, records |-> records] ELSE forwarded[h]]
    /\ records' = records + Len(did'.hashes)

\* The history has no message that is not older or the one just forwarded.
LEMMA ForwardedIs ==
    ASSUME Remembers
    PROVE  /\ \A h \in DOMAIN forwarded' :
                 \/ /\ h \in DOMAIN forwarded /\ forwarded'[h] = forwarded[h]
                 \/ /\ h = did'.forwarded /\ did'.forwarded # <<>>
                    /\ forwarded'[h].time = time /\ forwarded'[h].records = records
           /\ \A h \in DOMAIN forwarded : h \in DOMAIN forwarded' /\
                 (forwarded'[h] = forwarded[h] \/ forwarded'[h].time = time)
           /\ did'.forwarded # <<>> =>
                 did'.forwarded \in DOMAIN forwarded' /\ forwarded'[did'.forwarded].time = time
  <1>1. CASE did'.forwarded = <<>>
    BY <1>1 DEF Remembers
  <1>2. CASE did'.forwarded # <<>>
    <2>. DEFINE m == did'.forwarded
                e == [time |-> time, records |-> records]
    <2>1. forwarded' = [h \in DOMAIN forwarded \cup {m} |-> IF h = m THEN e ELSE forwarded[h]]
      BY <1>2 DEF Remembers
    <2>2. e.time = time /\ e.records = records
      OBVIOUS
    <2>. HIDE DEF m, e
    <2>3. /\ DOMAIN forwarded' = DOMAIN forwarded \cup {m} /\ forwarded'[m] = e
          /\ \A h \in DOMAIN forwarded : h # m => forwarded'[h] = forwarded[h]
      BY <2>1
    <2>. QED
      BY <1>2, <2>2, <2>3 DEF m
  <1>. QED
    BY <1>1, <1>2

\* The counter of hashes and the ring's position move together.
LEMMA CountedStep ==
    ASSUME Counted, DedupStep, Remembers
    PROVE  Counted' /\ records <= records'
  <1>0. records \in Nat /\ dedup.idx = SlotOf(records)
    BY DEF Counted
  <1>1. CASE Records
    <2>. DEFINE n == Len(did'.hashes)
    <2>1. n \in Nat /\ DOMAIN did'.hashes = 1 .. n /\ dedup' = RecordHashes(did'.hashes)
      BY <1>1 DEF Records
    <2>2. records' = records + n
      BY DEF Remembers
    <2>3. dedup'.idx = SlotOf(records + n)
      BY <1>0, <2>1, RecordedIs
    <2>. HIDE DEF n
    <2>. QED
      BY <1>0, <2>1, <2>2, <2>3 DEF Counted, SlotOf
  <1>2. CASE RecordsNothing
    <2>1. dedup' = dedup /\ records' = records
      BY <1>0, <1>2 DEF RecordsNothing, Remembers
    <2>. QED
      BY <1>0, <2>1 DEF Counted, SlotOf
  <1>. QED
    BY <1>1, <1>2 DEF DedupStep

\* A hash stays in its slot until the ring has gone round.
LEMMA StaysInSlot ==
    ASSUME Counted, Records, NEW r \in Nat, r < records,
           records + Len(did'.hashes) - r < DEDUP_CACHE_SIZE
    PROVE  dedup'.ring[SlotOf(r)] = dedup.ring[SlotOf(r)]
  <1>. DEFINE n == Len(did'.hashes)
              s == SlotOf(r)
  <1>0. /\ records \in Nat /\ dedup.idx = SlotOf(records) /\ DEDUP_CACHE_SIZE \in Nat \ {0}
        /\ n \in Nat /\ DOMAIN did'.hashes = 1 .. n /\ dedup' = RecordHashes(did'.hashes)
    BY BridgeAssumption DEF Counted, Records
  <1>1. s \in Slots
    BY <1>0, Modulo DEF SlotOf, Slots
  <1>2. Overwrites(dedup'.ring, did'.hashes, s)
    BY <1>0, <1>1, RecordedIs
  <1>3. ASSUME NEW j \in DOMAIN did'.hashes PROVE SlotOf(records + j - 1) # s
    <2>. DEFINE y == records + j - 1
    <2>1. j \in 1 .. n
      BY <1>0
    <2>3. y \in Nat /\ r < y /\ y - r < DEDUP_CACHE_SIZE
      BY <1>0, <2>1
    <2>. HIDE DEF y
    <2>4. r % DEDUP_CACHE_SIZE # y % DEDUP_CACHE_SIZE
      BY <1>0, <2>3, CloseDiffer
    <2>. QED
      BY <2>4 DEF SlotOf, y
  <1>. HIDE DEF s
  <1>4. dedup'.ring[s] = dedup.ring[s]
    BY <1>2, <1>3 DEF Overwrites
  <1>. QED
    BY <1>4 DEF s

\* The first of the hashes recorded is in the ring afterwards, unless the others
\* went round it.
LEMMA FirstIsIn ==
    ASSUME Counted, Records, 1 \in DOMAIN did'.hashes, Len(did'.hashes) < DEDUP_CACHE_SIZE
    PROVE  dedup'.ring[SlotOf(records)] = [hash |-> did'.hashes[1], at |-> millis]
  <1>. DEFINE n == Len(did'.hashes)
              s == SlotOf(records)
  <1>0. /\ records \in Nat /\ dedup.idx = SlotOf(records) /\ DEDUP_CACHE_SIZE \in Nat \ {0}
        /\ n \in Nat /\ DOMAIN did'.hashes = 1 .. n /\ dedup' = RecordHashes(did'.hashes)
    BY BridgeAssumption DEF Counted, Records
  <1>1. s \in Slots
    BY <1>0, Modulo DEF SlotOf, Slots
  <1>2. Overwrites(dedup'.ring, did'.hashes, s)
    BY <1>0, <1>1, RecordedIs
  <1>3. SlotOf(records + 1 - 1) = s
    <2>1. records + 1 - 1 = records
      BY <1>0
    <2>. QED
      BY <2>1
  <1>4. ASSUME NEW j \in DOMAIN did'.hashes, j # 1 PROVE SlotOf(records + j - 1) # s
    <2>. DEFINE y == records + j - 1
    <2>1. j \in 1 .. n
      BY <1>0
    <2>2. y \in Nat /\ records < y /\ y - records < DEDUP_CACHE_SIZE
      BY <1>0, <1>4, <2>1
    <2>. HIDE DEF y
    <2>3. records % DEDUP_CACHE_SIZE # y % DEDUP_CACHE_SIZE
      BY <1>0, <2>2, CloseDiffer
    <2>. QED
      BY <2>3 DEF SlotOf, y
  <1>. HIDE DEF s, millis
  <1>5. dedup'.ring[s] = [hash |-> did'.hashes[1], at |-> millis]
    BY <1>2, <1>3, <1>4 DEF Overwrites
  <1>. QED
    BY <1>5 DEF s

\* The ring goes on remembering what was forwarded.
LEMMA RememberedStep ==
    ASSUME Counted, Environment, Remembered, DedupStep, Remembers
    PROVE  Remembered'
  <1>0. /\ records \in Nat /\ records' \in Nat /\ records <= records' /\ DEDUP_CACHE_SIZE \in Nat
        /\ time \in Nat /\ time' \in Nat /\ time <= time'
    BY CountedStep, BridgeAssumption DEF Counted, Environment, DedupStep
  <1>. SUFFICES ASSUME NEW h \in DOMAIN forwarded', NEW r, r = forwarded'[h].records,
                       NEW t, t = forwarded'[h].time
                PROVE  /\ h # <<>> /\ t \in Nat /\ t <= time' /\ r \in Nat /\ r < records'
                       /\ records' - r < DEDUP_CACHE_SIZE =>
                             dedup'.ring[SlotOf(r)] = [hash |-> h, at |-> t % CLOCK_MOD]
    BY DEF Remembered, SlotOf
  <1>1. CASE h \in DOMAIN forwarded /\ forwarded'[h] = forwarded[h]
    <2>1. /\ h # <<>> /\ t \in Nat /\ t <= time /\ r \in Nat /\ r < records
          /\ records - r < DEDUP_CACHE_SIZE =>
                dedup.ring[SlotOf(r)] = [hash |-> h, at |-> t % CLOCK_MOD]
      BY <1>1 DEF Remembered
    <2>2. t <= time' /\ r < records' /\ r \in Nat
      BY <1>0, <2>1
    <2>3. ASSUME records' - r < DEDUP_CACHE_SIZE
          PROVE  dedup'.ring[SlotOf(r)] = [hash |-> h, at |-> t % CLOCK_MOD]
      <3>0. records - r < DEDUP_CACHE_SIZE
        BY <1>0, <2>2, <2>3, SMT
      <3>1. dedup.ring[SlotOf(r)] = [hash |-> h, at |-> t % CLOCK_MOD]
        BY <2>1, <3>0
      <3>2. dedup'.ring[SlotOf(r)] = dedup.ring[SlotOf(r)]
        <4>1. CASE Records
          <5>1. records + Len(did'.hashes) - r < DEDUP_CACHE_SIZE
            <6>1. records' = records + Len(did'.hashes) /\ Len(did'.hashes) \in Nat
              BY <4>1 DEF Remembers, Records
            <6>. QED
              BY <1>0, <2>1, <2>3, <6>1
          <5>. QED
            BY <2>1, <4>1, <5>1, StaysInSlot
        <4>2. CASE RecordsNothing
          BY <4>2 DEF RecordsNothing
        <4>. QED
          BY <4>1, <4>2 DEF DedupStep
      <3>. QED
        BY <3>1, <3>2
    <2>. QED
      BY <2>1, <2>2, <2>3
  <1>2. CASE /\ h = did'.forwarded /\ did'.forwarded # <<>>
             /\ t = time /\ r = records
    <2>1. Records
      BY <1>2 DEF DedupStep, RecordsNothing
    <2>2. /\ 1 \in DOMAIN did'.hashes /\ did'.hashes[1] = h
          /\ Len(did'.hashes) \in Nat /\ DOMAIN did'.hashes = 1 .. Len(did'.hashes)
      BY <1>2, <2>1 DEF Records
    <2>3. records' = records + Len(did'.hashes) /\ records < records'
      BY <1>0, <2>2 DEF Remembers
    <2>4. ASSUME records' - records < DEDUP_CACHE_SIZE
          PROVE  dedup'.ring[SlotOf(records)] = [hash |-> h, at |-> time % CLOCK_MOD]
      <3>1. Len(did'.hashes) < DEDUP_CACHE_SIZE
        BY <1>0, <2>2, <2>3, <2>4
      <3>. QED
        BY <2>1, <2>2, <3>1, FirstIsIn DEF millis
    <2>. QED
      BY <1>0, <1>2, <2>3, <2>4
  <1>3. \/ h \in DOMAIN forwarded /\ forwarded'[h] = forwarded[h]
        \/ /\ h = did'.forwarded /\ did'.forwarded # <<>>
           /\ t = time /\ r = records
    BY ForwardedIs
  <1>. QED
    BY <1>1, <1>2, <1>3

\* An entry of the ring keeps its reason.
LEMMA EntryKept ==
    ASSUME Environment, Remembered, Remembers, NEW entry, EntryOf(entry, forwarded)
    PROVE  EntryOf(entry, forwarded')
  <1>1. CASE entry.hash = <<>> \/ Own(entry.hash)
    BY <1>1 DEF EntryOf
  <1>2. CASE /\ entry.hash \in DOMAIN forwarded
             /\ entry.at \in Nat /\ entry.at <= forwarded[entry.hash].time
    <2>. DEFINE h == entry.hash
    <2>1. h \in DOMAIN forwarded' /\ (forwarded'[h] = forwarded[h] \/ forwarded'[h].time = time)
      BY <1>2, ForwardedIs
    <2>2. forwarded[h].time \in Nat /\ forwarded[h].time <= time /\ time \in Nat
      BY <1>2 DEF Remembered, Environment
    <2>3. entry.at <= forwarded'[h].time
      <3>. DEFINE a == entry.at
                  x == forwarded[h].time
      <3>1. a \in Nat /\ a <= x /\ x \in Nat /\ x <= time
        BY <1>2, <2>2
      <3>. HIDE DEF a, x
      <3>2. a <= x /\ a <= time
        BY <2>2, <3>1
      <3>. QED
        BY <2>1, <3>2 DEF a, x
    <2>. QED
      BY <1>2, <2>1, <2>3 DEF EntryOf
  <1>. QED
    BY <1>1, <1>2 DEF EntryOf

\* Every entry of the ring goes on having one.
LEMMA JustifiedStep ==
    ASSUME Counted, Environment, Remembered, Justified, DedupStep, Remembers
    PROVE  Justified'
  <1>. SUFFICES ASSUME MaxTime < CLOCK_MOD, NEW s \in Slots
                PROVE  EntryOf(dedup'.ring[s], forwarded')
    BY DEF Justified, Slots
  <1>1. EntryOf(dedup.ring[s], forwarded)
    BY DEF Justified
  <1>2. EntryOf(dedup.ring[s], forwarded')
    BY <1>1, EntryKept
  <1>3. CASE RecordsNothing
    BY <1>2, <1>3 DEF RecordsNothing
  <1>4. CASE Records
    <2>. DEFINE n == Len(did'.hashes)
    <2>0. /\ records \in Nat /\ dedup.idx = SlotOf(records)
          /\ n \in Nat /\ DOMAIN did'.hashes = 1 .. n /\ dedup' = RecordHashes(did'.hashes)
      BY <1>4 DEF Counted, Records
    <2>1. Overwrites(dedup'.ring, did'.hashes, s)
      BY <2>0, RecordedIs
    <2>2. ASSUME NEW j \in DOMAIN did'.hashes,
                 dedup'.ring[s] = [hash |-> did'.hashes[j], at |-> millis]
          PROVE  EntryOf(dedup'.ring[s], forwarded')
      <3>1. dedup'.ring[s].hash = did'.hashes[j] /\ dedup'.ring[s].at = millis
        BY <2>2
      <3>2. CASE Own(did'.hashes[j])
        BY <3>1, <3>2 DEF EntryOf
      <3>3. CASE did'.forwarded # <<>> /\ did'.hashes[j] = did'.forwarded
        <4>1. did'.forwarded \in DOMAIN forwarded' /\ forwarded'[did'.forwarded].time = time
          BY <3>3, ForwardedIs
        <4>2. millis \in Nat /\ millis <= time
          BY MillisIs, RemainderAtMost, RegistryAssumption DEF Environment, millis
        <4>. HIDE DEF millis
        <4>. QED
          BY <3>1, <3>3, <4>1, <4>2 DEF EntryOf
      <3>. QED
        BY <1>4, <3>2, <3>3 DEF Records
    <2>. HIDE DEF millis
    <2>3. CASE dedup'.ring[s] = dedup.ring[s]
      BY <1>2, <2>3
    <2>. QED
      BY <2>1, <2>2, <2>3 DEF Overwrites
  <1>. QED
    BY <1>3, <1>4 DEF DedupStep

\* What is skipped was forwarded within the TTL, until the clock wraps.
SkipIsRepeat ==
    did'.skipped # <<>> =>
        /\ did'.skipped \in DOMAIN forwarded
        /\ time - forwarded[did'.skipped].time < DEDUP_TTL

LEMMA SkipsStep ==
    ASSUME Environment, Remembered, Justified, DedupStep, MaxTime < CLOCK_MOD
    PROVE  SkipIsRepeat
  <1>. SUFFICES ASSUME did'.skipped # <<>>
                PROVE  /\ did'.skipped \in DOMAIN forwarded
                       /\ time - forwarded[did'.skipped].time < DEDUP_TTL
    BY DEF SkipIsRepeat
  <1>. DEFINE m == did'.skipped
  <1>1. IsDuplicate(m) /\ ~ Own(m) /\ m # <<>>
    BY DEF DedupStep, Records, RecordsNothing
  <1>. HIDE DEF m
  <1>2. PICK s \in Slots : /\ dedup.ring[s].hash = m
                           /\ Since(dedup.ring[s].at, millis) < DEDUP_TTL
    BY <1>1 DEF IsDuplicate
  <1>. DEFINE a == dedup.ring[s].at
              x == forwarded[m].time
  <1>3. m \in DOMAIN forwarded /\ a \in Nat /\ a <= x
    <2>1. EntryOf(dedup.ring[s], forwarded)
      BY DEF Justified
    <2>. QED
      BY <1>1, <1>2, <2>1 DEF EntryOf
  <1>4. x \in Nat /\ x <= time /\ time \in Nat
    BY <1>3 DEF Remembered, Environment
  <1>. HIDE DEF a, x
  <1>5. time < CLOCK_MOD /\ a <= time
    BY <1>3, <1>4, BridgeAssumption, RegistryAssumption DEF Environment
  <1>6. millis = time
    BY <1>4, <1>5, MillisIs
  <1>7. Since(a, time) = time - a
    BY <1>3, <1>4, <1>5, SinceIs
  <1>8. time - a < DEDUP_TTL
    <2>1. Since(a, millis) < DEDUP_TTL
      BY <1>2 DEF a
    <2>. QED
      BY <1>6, <1>7, <2>1
  <1>9. time - x < DEDUP_TTL
    BY <1>3, <1>4, <1>8, BridgeAssumption
  <1>. QED
    BY <1>3, <1>9 DEF m, x

\* What is forwarded again was forwarded a TTL ago or has left the ring.
ForwardIsDue ==
    \A h \in DOMAIN forwarded :
        did'.forwarded = h =>
            \/ time - forwarded[h].time >= DEDUP_TTL
            \/ records - forwarded[h].records >= DEDUP_CACHE_SIZE

LEMMA ForwardsStep ==
    ASSUME Environment, Counted, Remembered, DedupStep
    PROVE  ForwardIsDue
  <1>. SUFFICES ASSUME NEW h \in DOMAIN forwarded, did'.forwarded = h,
                       ~ (time - forwarded[h].time >= DEDUP_TTL),
                       ~ (records - forwarded[h].records >= DEDUP_CACHE_SIZE)
                PROVE  FALSE
    BY DEF ForwardIsDue
  <1>. DEFINE r == forwarded[h].records
              t == forwarded[h].time
              s == SlotOf(r)
  <1>1. h # <<>>
    BY DEF Remembered
  <1>2. ~ IsDuplicate(h)
    BY <1>1 DEF DedupStep, Records, RecordsNothing
  <1>3. /\ t \in Nat /\ t <= time /\ r \in Nat /\ r < records
        /\ records - r < DEDUP_CACHE_SIZE =>
              dedup.ring[s] = [hash |-> h, at |-> t % CLOCK_MOD]
    BY DEF Remembered
  <1>4. time \in Nat /\ records \in Nat /\ DEDUP_TTL \in Nat /\ DEDUP_CACHE_SIZE \in Nat \ {0}
    BY BridgeAssumption DEF Environment, Counted
  <1>5. ~ (time - t >= DEDUP_TTL) /\ ~ (records - r >= DEDUP_CACHE_SIZE)
    OBVIOUS
  <1>. HIDE DEF r, t
  <1>6. time - t < DEDUP_TTL /\ records - r < DEDUP_CACHE_SIZE
    BY <1>3, <1>4, <1>5
  <1>7. s \in Slots
    BY <1>3, <1>4, Modulo DEF SlotOf, Slots
  <1>. DEFINE x == t % CLOCK_MOD
  <1>. HIDE DEF s
  <1>8. Since(x, millis) < DEDUP_TTL
    <2>1. Since(t % CLOCK_MOD, time % CLOCK_MOD) <= time - t
      BY <1>3, <1>4, SinceAtMost
    <2>. DEFINE z == Since(t % CLOCK_MOD, time % CLOCK_MOD)
    <2>2. z \in Int
      BY <1>3, <1>4, Modulo, RegistryAssumption DEF Since
    <2>. HIDE DEF z
    <2>3. z < DEDUP_TTL
      BY <1>3, <1>4, <1>6, <2>1, <2>2 DEF z
    <2>. QED
      BY <2>3 DEF z, millis
  <1>. HIDE DEF x, millis
  <1>9. dedup.ring[s].hash = h /\ dedup.ring[s].at = x
    BY <1>3, <1>6 DEF x
  <1>10. IsDuplicate(h)
    BY <1>7, <1>8, <1>9 DEF IsDuplicate
  <1>. QED
    BY <1>2, <1>10
-----------------------------------------------------------------------------
(* The inductive step: the chunk queue                                      *)

\* No chunk goes out, and the queue is left alone, replaced or dropped.
SendsNoChunk ==
    /\ \A i \in DOMAIN did'.mesh : ~ IsChunk(did'.mesh[i])
    /\ did'.mesh # <<>> => 1 \in DOMAIN did'.mesh
    /\ \/ pending' = pending
       \/ \E name, text : pending' = [chunks |-> ChunksOf(name, text), next |-> 0, at |-> millis]
       \/ pending' = [pending EXCEPT !.next = Len(pending.chunks)]

\* The next chunk is due and goes out.
SendsChunk ==
    /\ time' = time
    /\ pending.next < Len(pending.chunks) /\ ~ IsBefore(millis, pending.at)
    /\ pending' = [pending EXCEPT !.next = pending.next + 1,
                                  !.at = (millis + BRIDGE_CHUNK_DELAY) % CLOCK_MOD]
    /\ did'.mesh = <<pending.chunks[pending.next + 1]>>

QueueStep == SendsNoChunk \/ SendsChunk

\* The history of chunks.
RemembersChunk ==
    chunk' = IF did'.mesh # <<>> /\ IsChunk(did'.mesh[1])
             THEN [text |-> did'.mesh[1], time |-> time] ELSE chunk

\* A queue of chunks is a sequence of them.
LEMMA ChunksAre ==
    ASSUME NEW name, NEW text
    PROVE  /\ Len(ChunksOf(name, text)) = CHUNKS
           /\ \A i \in 1 .. CHUNKS : ChunksOf(name, text)[i] = Chunk(name, text, i)
  <1>. DEFINE c == ChunksOf(name, text)
  <1>1. DOMAIN c = 1 .. CHUNKS /\ c = [i \in 1 .. CHUNKS |-> c[i]]
        /\ \A i \in 1 .. CHUNKS : c[i] = Chunk(name, text, i)
    BY DEF ChunksOf
  <1>. HIDE DEF c
  <1>2. Len(c) = CHUNKS
    BY <1>1, LenOfFunction, BridgeAssumption
  <1>. QED
    BY <1>1, <1>2 DEF c

\* A chunk and the one before it.
LEMMA ChunkFields ==
    ASSUME NEW name, NEW text, NEW i \in Nat
    PROVE  /\ IsChunk(Chunk(name, text, i)) /\ Chunk(name, text, i)[4] = i
           /\ [Chunk(name, text, i) EXCEPT ![4] = @ - 1] = Chunk(name, text, i - 1)
  BY DEF IsChunk, Chunk

\* The length of the queue.
LEMMA QueueLength ==
    ASSUME Queued
    PROVE  Len(pending.chunks) \in Nat
  <1>1. CHUNKS \in Nat
    BY BridgeAssumption
  <1>2. CASE pending.chunks = <<>>
    BY <1>2
  <1>3. CASE \E name, text : pending.chunks = ChunksOf(name, text)
    BY <1>1, <1>3, ChunksAre
  <1>. QED
    BY <1>2, <1>3 DEF Queued

\* The queue is as it was, dropped or new.
LEMMA QueueWaits ==
    ASSUME Queued, Environment, SendsNoChunk, RemembersChunk, time' \in Nat, time <= time'
    PROVE  Queued'
  <1>1. chunk' = chunk
    BY DEF SendsNoChunk, RemembersChunk
  <1>. DEFINE c == pending.chunks
              n == pending.next
  <1>2. Len(c) \in Nat
    BY QueueLength
  <1>3. /\ pending = [chunks |-> c, next |-> n, at |-> pending.at] /\ n \in Nat
        /\ c = <<>> \/ \E name, text : c = ChunksOf(name, text)
    BY DEF Queued
  <1>4. CASE pending' = pending
    <2>1. 0 < n /\ n < Len(c) =>
             /\ chunk.text = c[n] /\ chunk.time \in Nat /\ chunk.time <= time
             /\ pending.at = (chunk.time + BRIDGE_CHUNK_DELAY) % CLOCK_MOD
      BY DEF Queued
    <2>2. chunk.time \in Nat /\ chunk.time <= time => chunk.time <= time'
      BY DEF Environment
    <2>3. 0 < n /\ n < Len(c) =>
             /\ chunk.text = c[n] /\ chunk.time \in Nat /\ chunk.time <= time'
             /\ pending.at = (chunk.time + BRIDGE_CHUNK_DELAY) % CLOCK_MOD
      BY <2>1, <2>2
    <2>. QED
      BY <1>1, <1>3, <1>4, <2>3 DEF Queued, ChunksOf
  <1>5. CASE \E name, text : pending' = [chunks |-> ChunksOf(name, text), next |-> 0,
                                         at |-> millis]
    <2>1. PICK name, text : pending' = [chunks |-> ChunksOf(name, text), next |-> 0,
                                        at |-> millis]
      BY <1>5
    <2>. DEFINE d == ChunksOf(name, text)
    <2>2. \E x, y : d = ChunksOf(x, y)
      OBVIOUS
    <2>. HIDE DEF d, millis
    <2>3. /\ pending'.chunks = d /\ pending'.next = 0
          /\ pending' = [chunks |-> pending'.chunks, next |-> pending'.next, at |-> pending'.at]
      BY <2>1 DEF d
    <2>4. ~ (0 < pending'.next)
      BY <2>3
    <2>. QED
      BY <2>2, <2>3, <2>4 DEF Queued, ChunksOf
  <1>6. CASE pending' = [pending EXCEPT !.next = Len(c)]
    <2>. HIDE DEF c, n
    <2>1. pending' = [chunks |-> c, next |-> Len(c), at |-> pending.at]
      BY <1>3, <1>6
    <2>2. /\ pending'.chunks = c /\ pending'.next = Len(c)
          /\ pending' = [chunks |-> pending'.chunks, next |-> pending'.next, at |-> pending'.at]
      BY <2>1
    <2>3. ~ (pending'.next < Len(pending'.chunks))
      BY <1>2, <2>2
    <2>. QED
      BY <1>2, <1>3, <2>2, <2>3 DEF Queued, ChunksOf
  <1>. QED
    BY <1>4, <1>5, <1>6 DEF SendsNoChunk

\* The chunk that goes out and the queue behind it.
LEMMA QueueMoves ==
    ASSUME Queued, Environment, SendsChunk, RemembersChunk
    PROVE  Queued'
  <1>. DEFINE c == pending.chunks
              n == pending.next
              x == c[n + 1]
              at == pending.at
              a == (millis + BRIDGE_CHUNK_DELAY) % CLOCK_MOD
  <1>1. /\ pending = [chunks |-> c, next |-> n, at |-> at] /\ n \in Nat
        /\ n < Len(c) /\ Len(c) \in Nat
    BY QueueLength DEF Queued, SendsChunk
  <1>2. PICK name, text : c = ChunksOf(name, text)
    <2>1. c # <<>>
      BY <1>1
    <2>. QED
      BY <2>1 DEF Queued
  <1>3. n + 1 \in 1 .. CHUNKS /\ n + 1 \in Nat
    <2>1. Len(c) = CHUNKS
      BY <1>2, ChunksAre
    <2>. QED
      BY <1>1, <2>1
  <1>4. IsChunk(x)
    <2>1. x = Chunk(name, text, n + 1)
      BY <1>2, <1>3, ChunksAre
    <2>2. IsChunk(Chunk(name, text, n + 1))
      BY <1>3, ChunkFields
    <2>. QED
      BY <2>1, <2>2
  <1>. HIDE DEF c, n, x, a, at
  <1>5. did'.mesh = <<x>> /\ pending' = [pending EXCEPT !.next = n + 1, !.at = a] /\ time' = time
    BY DEF SendsChunk, x, n, c, a
  <1>6. chunk'.text = x /\ chunk'.time = time
    <2>1. did'.mesh # <<>> /\ did'.mesh[1] = x
      BY <1>5
    <2>. QED
      BY <1>4, <2>1 DEF RemembersChunk
  <1>7. pending' = [chunks |-> c, next |-> n + 1, at |-> a]
    BY <1>1, <1>5
  <1>8. /\ pending'.chunks = c /\ pending'.next = n + 1 /\ pending'.at = a
        /\ pending' = [chunks |-> pending'.chunks, next |-> pending'.next, at |-> pending'.at]
    BY <1>7
  <1>9. a = (chunk'.time + BRIDGE_CHUNK_DELAY) % CLOCK_MOD
    <2>1. time \in Nat /\ BRIDGE_CHUNK_DELAY \in Nat /\ CLOCK_MOD \in Nat \ {0}
      BY BridgeAssumption, RegistryAssumption DEF Environment
    <2>2. ((time % CLOCK_MOD) + BRIDGE_CHUNK_DELAY) % CLOCK_MOD
             = (time + BRIDGE_CHUNK_DELAY) % CLOCK_MOD
      BY <2>1, ReducedSum
    <2>. QED
      BY <1>6, <2>2 DEF a, millis
  <1>10. chunk'.text = c[n + 1]
    BY <1>6 DEF x
  <1>11. chunk'.time \in Nat /\ chunk'.time <= time'
    BY <1>5, <1>6 DEF Environment
  <1>12. \E u, v : c = ChunksOf(u, v)
    BY <1>2
  <1>. QED
    BY <1>3, <1>8, <1>9, <1>10, <1>11, <1>12 DEF Queued, ChunksOf

\* A chunk after the first follows the one before it, after the delay.
ChunkFollows ==
    \A i \in DOMAIN did'.mesh :
        IsChunk(did'.mesh[i]) /\ did'.mesh[i][4] > 1 =>
            /\ chunk.text = [did'.mesh[i] EXCEPT ![4] = @ - 1]
            /\ time - chunk.time >= BRIDGE_CHUNK_DELAY

LEMMA ChunksStep ==
    ASSUME Queued, Environment, QueueStep, 2 * BRIDGE_CHUNK_DELAY <= CLOCK_MOD
    PROVE  ChunkFollows
  <1>1. CASE SendsNoChunk
    BY <1>1 DEF SendsNoChunk, ChunkFollows
  <1>2. CASE SendsChunk
    <2>. DEFINE c == pending.chunks
                n == pending.next
                x == c[n + 1]
    <2>1. did'.mesh = <<x>> /\ n < Len(c) /\ ~ IsBefore(millis, pending.at)
      BY <1>2 DEF SendsChunk
    <2>2. n \in Nat /\ Len(c) \in Nat
      BY QueueLength DEF Queued
    <2>3. PICK name, text : c = ChunksOf(name, text)
      <3>1. c # <<>>
        BY <2>1, <2>2
      <3>. QED
        BY <3>1 DEF Queued
    <2>4. n + 1 \in 1 .. CHUNKS /\ n + 1 \in Nat /\ n + 1 - 1 = n /\ (n > 0 => n \in 1 .. CHUNKS)
      <3>1. Len(c) = CHUNKS
        BY <2>3, ChunksAre
      <3>. QED
        BY <2>1, <2>2, <3>1
    <2>5. x = Chunk(name, text, n + 1) /\ (n > 0 => c[n] = Chunk(name, text, n))
      BY <2>3, <2>4, ChunksAre
    <2>6. 0 < n /\ n < Len(c) =>
             /\ chunk.text = c[n] /\ chunk.time \in Nat /\ chunk.time <= time
             /\ pending.at = (chunk.time + BRIDGE_CHUNK_DELAY) % CLOCK_MOD
      BY DEF Queued
    <2>. HIDE DEF c, n, x
    <2>7. DOMAIN did'.mesh = {1} /\ did'.mesh[1] = x
      BY <2>1
    <2>. SUFFICES ASSUME x[4] > 1
                  PROVE  /\ chunk.text = [x EXCEPT ![4] = @ - 1]
                         /\ time - chunk.time >= BRIDGE_CHUNK_DELAY
      BY <2>7 DEF ChunkFollows
    <2>8. x[4] = n + 1 /\ [x EXCEPT ![4] = @ - 1] = Chunk(name, text, n)
      <3>. DEFINE k == n + 1
      <3>1. k \in Nat /\ k - 1 = n
        BY <2>2
      <3>. HIDE DEF k
      <3>2. /\ Chunk(name, text, k)[4] = k
            /\ [Chunk(name, text, k) EXCEPT ![4] = @ - 1] = Chunk(name, text, k - 1)
        BY <3>1, ChunkFields
      <3>3. x = Chunk(name, text, k)
        BY <2>5 DEF k
      <3>. QED
        BY <3>1, <3>2, <3>3 DEF k
    <2>9. n > 0
      BY <2>2, <2>8
    <2>10. /\ chunk.text = Chunk(name, text, n) /\ chunk.time \in Nat /\ chunk.time <= time
           /\ pending.at = (chunk.time + BRIDGE_CHUNK_DELAY) % CLOCK_MOD
      BY <2>1, <2>2, <2>5, <2>6, <2>9
    <2>11. time - chunk.time >= BRIDGE_CHUNK_DELAY
      <3>. SUFFICES ASSUME ~ (time - chunk.time >= BRIDGE_CHUNK_DELAY) PROVE FALSE
        OBVIOUS
      <3>. DEFINE y == chunk.time + BRIDGE_CHUNK_DELAY
      <3>1. time \in Nat /\ BRIDGE_CHUNK_DELAY \in Nat /\ CLOCK_MOD \in Nat \ {0}
        BY BridgeAssumption, RegistryAssumption DEF Environment
      <3>2. y \in Nat /\ time < y /\ 2 * (y - time) <= CLOCK_MOD
        BY <2>10, <3>1
      <3>3. pending.at = y % CLOCK_MOD
        BY <2>10
      <3>. HIDE DEF y
      <3>4. IsBefore(time % CLOCK_MOD, y % CLOCK_MOD)
        BY <3>1, <3>2, AheadIsBefore
      <3>. QED
        BY <2>1, <3>3, <3>4 DEF millis
    <2>. QED
      BY <2>8, <2>10, <2>11
  <1>. QED
    BY <1>1, <1>2 DEF QueueStep
-----------------------------------------------------------------------------
(* The inductive step, by action                                            *)

\* Whoever speaks over BLE has a sender's name.
NamedSenders ==
    \A j \in DOMAIN did'.ble : did'.ble[j].type = "message" => did'.ble[j].as # Zero

\* What a step does, in the terms of the invariant.
TrafficStep ==
    DedupStep /\ QueueStep /\ NamedSenders /\ Registry' /\ heap' \in HeapLevels

\* The hash of a message x comes first, and the others are of outgoing messages.
LeadBy(hashes, x) ==
    /\ Len(hashes) \in Nat /\ DOMAIN hashes = 1 .. Len(hashes)
    /\ 1 \in DOMAIN hashes /\ hashes[1] = x
    /\ \A j \in DOMAIN hashes : Own(hashes[j]) \/ hashes[j] = x

\* A hash and then others.
LEMMA LeadIs ==
    ASSUME NEW x, NEW S, NEW u \in Seq(S), x \in S, \A h \in S : Own(h) \/ h = x
    PROVE  <<x>> \o u \in Seq(S) /\ LeadBy(<<x>> \o u, x)
  <1>. DEFINE s == <<x>>
              v == s \o u
  <1>1. s \in Seq(S) /\ Len(s) = 1 /\ s[1] = x
    OBVIOUS
  <1>2. Len(u) \in Nat
    OBVIOUS
  <1>. HIDE DEF s
  <1>3. /\ v \in Seq(S) /\ Len(v) = Len(s) + Len(u) /\ DOMAIN v = 1 .. Len(s) + Len(u)
        /\ \A i \in 1 .. Len(s) : v[i] = s[i]
    <2>1. s \in Seq(S) /\ u \in Seq(S)
      BY <1>1
    <2>. QED
      BY <2>1, ConcatIs, Zenon
  <1>. HIDE DEF v
  <1>4. 1 \in 1 .. Len(s) /\ 1 \in 1 .. Len(s) + Len(u) /\ Len(s) + Len(u) \in Nat
    BY <1>1, <1>2
  <1>5. v[1] = x
    BY <1>1, <1>3, <1>4
  <1>6. \A j \in DOMAIN v : v[j] \in S
    BY <1>3
  <1>7. LeadBy(v, x)
    BY <1>3, <1>4, <1>5, <1>6 DEF LeadBy
  <1>. QED
    BY <1>3, <1>7 DEF v, s

\* One hash more behind them.
LEMMA LeadAndOne ==
    ASSUME NEW x, NEW S, NEW v \in Seq(S), LeadBy(v, x), NEW y \in S,
           \A h \in S : Own(h) \/ h = x
    PROVE  LeadBy(v \o <<y>>, x)
  <1>. DEFINE s == <<y>>
              w == v \o s
  <1>1. s \in Seq(S) /\ Len(s) = 1
    OBVIOUS
  <1>2. Len(v) \in Nat /\ 1 \in 1 .. Len(v) /\ v[1] = x
    BY DEF LeadBy
  <1>. HIDE DEF s
  <1>3. /\ w \in Seq(S) /\ Len(w) = Len(v) + Len(s) /\ DOMAIN w = 1 .. Len(v) + Len(s)
        /\ \A i \in 1 .. Len(v) : w[i] = v[i]
    BY <1>1, ConcatIs
  <1>. HIDE DEF w
  <1>4. 1 \in 1 .. Len(v) + Len(s) /\ Len(v) + Len(s) \in Nat
    BY <1>1, <1>2
  <1>5. w[1] = x
    BY <1>2, <1>3
  <1>6. \A j \in DOMAIN w : w[j] \in S
    BY <1>3
  <1>7. LeadBy(w, x)
    BY <1>3, <1>4, <1>5, <1>6 DEF LeadBy
  <1>. QED
    BY <1>7 DEF w, s

\* The notices of an eviction are outgoing messages.
LEMMA EvictionHashesOwn ==
    ASSUME NEW gone, Len(gone) \in Nat
    PROVE  /\ EvictionHashes(gone) \in Seq({EvictionHashes(gone)[i] : i \in 1 .. 2 * Len(gone)})
           /\ \A i \in 1 .. 2 * Len(gone) : Own(EvictionHashes(gone)[i])
           /\ Len(EvictionHashes(gone)) = 2 * Len(gone)
           /\ DOMAIN EvictionHashes(gone) = 1 .. 2 * Len(gone)
  <1>. DEFINE n == 2 * Len(gone)
              E == EvictionHashes(gone)
              S == {E[i] : i \in 1 .. n}
  <1>1. n \in Nat
    OBVIOUS
  <1>2. DOMAIN E = 1 .. n /\ E = [i \in 1 .. n |-> E[i]]
    BY DEF EvictionHashes
  <1>3. ASSUME NEW i \in 1 .. n PROVE Own(E[i])
    <2>. DEFINE id == gone[(i + 1) \div 2]
                text == IF i % 2 = 1 THEN Farewell(id) ELSE Released(id)
    <2>1. E[i] = OutgoingHash(text)
      BY DEF EvictionHashes
    <2>. HIDE DEF text, E
    <2>. QED
      BY <2>1 DEF Own
  <1>. HIDE DEF E, n
  <1>4. Len(E) = n /\ E \in Seq(S)
    BY <1>1, <1>2, LenOfFunction
  <1>. QED
    BY <1>2, <1>3, <1>4 DEF E, n

\* The hashes of a forwarded message of a Meshtastic user.
LEMMA MeshHashes ==
    ASSUME NEW gone, Len(gone) \in Nat, NEW x, NEW text
    PROVE  LeadBy(<<x>> \o EvictionHashes(gone) \o <<OutgoingHash(text)>>, x)
  <1>. DEFINE E == EvictionHashes(gone)
              P == {E[i] : i \in 1 .. 2 * Len(gone)}
              y == OutgoingHash(text)
              S == P \cup {x, y}
  <1>1. E \in Seq(P) /\ \A h \in P : Own(h)
    BY EvictionHashesOwn
  <1>2. Own(y)
    BY DEF Own
  <1>. HIDE DEF E, P, y
  <1>3. E \in Seq(S) /\ x \in S /\ y \in S /\ \A h \in S : Own(h) \/ h = x
    BY <1>1, <1>2
  <1>. HIDE DEF S
  <1>. DEFINE v == <<x>> \o E
  <1>4. v \in Seq(S) /\ LeadBy(v, x)
    BY <1>3, LeadIs
  <1>. HIDE DEF v
  <1>5. LeadBy(v \o <<y>>, x)
    BY <1>3, <1>4, LeadAndOne
  <1>. QED
    BY <1>5 DEF v, y, E

\* The hashes of a long message of a phone.
LEMMA LongHashes ==
    ASSUME NEW x, NEW chunks
    PROVE  LeadBy(<<x>> \o [i \in 1 .. CHUNKS |-> OutgoingHash(chunks[i])], x)
  <1>. DEFINE h == [i \in 1 .. CHUNKS |-> OutgoingHash(chunks[i])]
              S == {h[i] : i \in 1 .. CHUNKS} \cup {x}
  <1>0. CHUNKS \in Nat
    BY BridgeAssumption
  <1>1. h \in [1 .. CHUNKS -> S]
    OBVIOUS
  <1>2. ASSUME NEW i \in 1 .. CHUNKS PROVE Own(h[i])
    <2>1. h[i] = OutgoingHash(chunks[i])
      OBVIOUS
    <2>. QED
      BY <2>1 DEF Own
  <1>. HIDE DEF h
  <1>3. x \in S /\ \A e \in S : Own(e) \/ e = x
    BY <1>2
  <1>. HIDE DEF S
  <1>4. h \in Seq(S)
    BY <1>0, <1>1, FunctionIsSeq
  <1>5. LeadBy(<<x>> \o h, x)
    BY <1>3, <1>4, LeadIs
  <1>. QED
    BY <1>5 DEF h

\* The hashes of a short one.
LEMMA ShortHashes ==
    ASSUME NEW x, NEW text
    PROVE  LeadBy(<<x, OutgoingHash(text)>>, x)
  <1>. DEFINE y == OutgoingHash(text)
              w == <<x, y>>
  <1>1. Own(y)
    BY DEF Own
  <1>. HIDE DEF y
  <1>2. Len(w) = 2 /\ DOMAIN w = 1 .. 2 /\ w[1] = x /\ w[2] = y
    OBVIOUS
  <1>. HIDE DEF w
  <1>3. 1 \in 1 .. 2 /\ \A j \in 1 .. 2 : j = 1 \/ j = 2
    OBVIOUS
  <1>4. LeadBy(w, x)
    BY <1>1, <1>2, <1>3 DEF LeadBy
  <1>. QED
    BY <1>4 DEF w, y

\* A message that comes in is not the hash of an outgoing one.
LEMMA IncomingIs ==
    ASSUME NEW text, NEW user, NEW fp, user # Zero \/ fp # Zero
    PROVE  <<text, user, fp>> # <<>> /\ ~ Own(<<text, user, fp>>)
  BY DEF Own, OutgoingHash, Hash

\* What holds of a step that forwards a message.
LEMMA ForwardRecords ==
    ASSUME time' = time, NEW msg, msg # <<>>, ~ IsDuplicate(Hash(msg)), did'.forwarded = msg,
           did'.skipped = <<>>, LeadBy(did'.hashes, Hash(msg)), dedup' = RecordHashes(did'.hashes),
           Environment
    PROVE  DedupStep
  <1>1. Hash(msg) = msg
    BY DEF Hash
  <1>2. Records
    BY <1>1 DEF Records, LeadBy
  <1>. QED
    BY <1>2 DEF DedupStep, Environment

\* No packet, no text to the mesh and no hash.
LEMMA NothingSaid ==
    /\ Nothing.ble = <<>> /\ Nothing.mesh = <<>> /\ Nothing.skipped = <<>>
    /\ Nothing.forwarded = <<>> /\ Nothing.hashes = <<>>
    /\ DOMAIN <<>> = {} /\ Len(<<>>) = 0
  BY DEF Nothing

\* Time passes or stands still.
LEMMA TimeStays ==
    ASSUME Environment, time' = time
    PROVE  time' \in Nat /\ time <= time' /\ time' <= MaxTime
  BY DEF Environment

\* The registry is left alone.
LEMMA RegistryStays ==
    ASSUME Registry, identities' = identities
    PROVE  Registry'
  BY DEF Registry, OneEach

\* A step of which nothing shows.
LEMMA IdleStep ==
    ASSUME TrafficInv, did' = Nothing, UNCHANGED <<identities, dedup>>,
           pending' = pending \/ pending' = [pending EXCEPT !.next = Len(pending.chunks)],
           time' \in Nat, time <= time', time' <= MaxTime, heap' \in HeapLevels
    PROVE  TrafficStep
  <1>1. /\ did'.ble = <<>> /\ did'.mesh = <<>> /\ did'.skipped = <<>>
        /\ did'.forwarded = <<>> /\ Len(did'.hashes) = 0 /\ DOMAIN <<>> = {}
    BY NothingSaid
  <1>2. DedupStep
    BY <1>1 DEF DedupStep, RecordsNothing
  <1>3. QueueStep
    BY <1>1 DEF QueueStep, SendsNoChunk
  <1>4. NamedSenders
    BY <1>1 DEF NamedSenders
  <1>5. Registry'
    BY RegistryStays DEF TrafficInv
  <1>. QED
    BY <1>2, <1>3, <1>4, <1>5 DEF TrafficStep

\* A message is skipped.
LEMMA SkipStep ==
    ASSUME TrafficInv, NEW msg, msg # <<>>, ~ Own(msg), SkipDuplicate(msg),
           UNCHANGED <<time, heap>>
    PROVE  TrafficStep
  <1>1. /\ IsDuplicate(msg) /\ did' = [Nothing EXCEPT !.skipped = msg]
        /\ UNCHANGED <<identities, dedup, pending>>
    BY DEF SkipDuplicate, Hash
  <1>2. /\ did'.ble = <<>> /\ did'.mesh = <<>> /\ did'.skipped = msg
        /\ did'.forwarded = <<>> /\ did'.hashes = <<>>
    BY <1>1 DEF Nothing
  <1>3. DOMAIN <<>> = {} /\ Len(<<>>) = 0
    OBVIOUS
  <1>4. DedupStep
    BY <1>1, <1>2, <1>3, TimeStays DEF DedupStep, RecordsNothing, TrafficInv
  <1>5. QueueStep
    BY <1>1, <1>2, <1>3 DEF QueueStep, SendsNoChunk
  <1>6. NamedSenders
    BY <1>2, <1>3 DEF NamedSenders
  <1>7. Registry'
    BY <1>1, RegistryStays DEF TrafficInv
  <1>8. heap' \in HeapLevels
    BY DEF TrafficInv, Environment
  <1>. QED
    BY <1>4, <1>5, <1>6, <1>7, <1>8 DEF TrafficStep

\* The notices of an eviction are no chunks.
LEMMA NoticesAre ==
    ASSUME NEW gone, Len(gone) \in Nat, DOMAIN gone = 1 .. Len(gone)
    PROVE  /\ \A i \in DOMAIN EvictionNotices(gone) : ~ IsChunk(EvictionNotices(gone)[i])
           /\ EvictionNotices(gone) # <<>> => 1 \in DOMAIN EvictionNotices(gone)
  <1>. DEFINE n == Len(gone)
              N == [i \in 1 .. n |-> Released(gone[i])]
  <1>1. EvictionNotices(gone) = N \/ EvictionNotices(gone) = <<>>
    BY DEF EvictionNotices, ToMesh
  <1>2. \A i \in 1 .. n : ~ IsChunk(N[i])
    BY DEF IsChunk, Released
  <1>3. DOMAIN N = 1 .. n /\ N = [i \in 1 .. n |-> N[i]]
    OBVIOUS
  <1>. HIDE DEF N
  <1>4. n \in Nat
    OBVIOUS
  <1>. HIDE DEF n
  <1>5. Len(N) = n /\ N \in Seq({N[i] : i \in 1 .. n})
    BY <1>3, <1>4, LenOfFunction
  <1>6. N # <<>> => 1 \in 1 .. n
    <2>1. CASE n = 0
      <3>1. N = <<>>
        BY <1>5, <2>1
      <3>. QED
        BY <3>1
    <2>2. CASE n # 0
      BY <1>4, <2>2
    <2>. QED
      BY <2>1, <2>2
  <1>7. DOMAIN <<>> = {}
    OBVIOUS
  <1>. QED
    BY <1>1, <1>2, <1>3, <1>6, <1>7

\* Farewells have senders, and so has what follows them.
LEMMA FarewellSenders ==
    ASSUME NEW gone \in Seq(IdType), NEW tail, NEW ble, Follows(ble, gone, tail),
           \A i \in 1 .. Len(tail) : tail[i].type = "message" => tail[i].as # Zero
    PROVE  \A j \in DOMAIN ble : ble[j].type = "message" => ble[j].as # Zero
  <1>. SUFFICES ASSUME NEW j \in DOMAIN ble
                PROVE  ble[j].type = "message" => ble[j].as # Zero
    OBVIOUS
  <1>1. /\ Len(gone) \in Nat /\ Len(tail) \in Nat /\ j \in 1 .. Len(gone) + Len(tail)
        /\ DOMAIN gone = 1 .. Len(gone)
    BY DEF Follows
  <1>2. CASE j \in 1 .. Len(gone)
    <2>1. ble[j] = MessageAs(gone[j].node, Farewell(gone[j]))
      BY <1>2 DEF Follows
    <2>2. gone[j].node # Zero
      BY <1>1, <1>2, IdFields, BridgeAssumption
    <2>3. ble[j].as = gone[j].node
      BY <2>1 DEF MessageAs
    <2>. QED
      BY <2>2, <2>3
  <1>3. CASE j \notin 1 .. Len(gone)
    <2>. DEFINE k == j - Len(gone)
    <2>1. k \in 1 .. Len(tail) /\ j = Len(gone) + k
      BY <1>1, <1>3
    <2>. HIDE DEF k
    <2>2. ble[j] = tail[k]
      BY <2>1 DEF Follows
    <2>. QED
      BY <2>1, <2>2
  <1>. QED
    BY <1>2, <1>3

\* The words for a message go out under an identity with a node.
LEMMA WordsSenders ==
    ASSUME NEW id, id.node # Zero, NEW new \in BOOLEAN, NEW t
    PROVE  \E T : /\ FirstWords(id, new, Raw(t)) \in Seq(T)
                  /\ \A i \in 1 .. Len(FirstWords(id, new, Raw(t))) :
                        FirstWords(id, new, Raw(t))[i].type = "message" =>
                            FirstWords(id, new, Raw(t))[i].as # Zero
  <1>. DEFINE w == FirstWords(id, new, Raw(t))
              A == IF new THEN {id.node} ELSE {}
  <1>1. PICK T : w \in Seq(T) /\ Speech(w, id.node, A)
    BY WordsSpeak
  <1>. HIDE DEF w, A
  <1>2. ASSUME NEW i \in 1 .. Len(w), w[i].type = "message" PROVE w[i].as # Zero
    <2>1. i \in DOMAIN w
      BY <1>1
    <2>2. w[i].as = id.node
      BY <1>1, <1>2, <2>1 DEF Speech
    <2>. QED
      BY <2>2
  <1>. QED
    BY <1>1, <1>2 DEF w

\* Facts of the invariant that the actions use.
LEMMA TrafficFacts ==
    ASSUME TrafficInv
    PROVE  /\ identities \in Seq(IdType) /\ OneEach(identities)
           /\ Len(identities) <= VIRT_ID_MAX_SLOTS /\ Len(identities) \in Nat
           /\ heap \in Nat /\ heap \in HeapLevels /\ millis \in 0 .. CLOCK_MOD - 1
  <1>1. identities \in Seq(IdType) /\ OneEach(identities) /\ Len(identities) <= VIRT_ID_MAX_SLOTS
    BY DEF TrafficInv, Registry
  <1>2. heap \in HeapLevels /\ heap \in Nat
    BY BridgeAssumption DEF TrafficInv, Environment
  <1>3. millis \in 0 .. CLOCK_MOD - 1
    BY MillisIs DEF TrafficInv, Environment
  <1>. HIDE DEF millis
  <1>. QED
    BY <1>1, <1>2, <1>3

\* A message goes out under its sender's identity.
LEMMA VirtualStep ==
    ASSUME TrafficInv, UNCHANGED <<time, heap, pending>>,
           NEW user \in MeshUsers, NEW name \in MeshNames, NEW t, NEW got,
           GotIt(identities, got, user, millis), ~ IsDuplicate(Hash(MeshMsg(t, user))),
           ForwardAsVirtual(MeshMsg(t, user), name, got)
    PROVE  TrafficStep
  <1>. DEFINE v == Named(got.ids, got.at, name)
              at == got.at
              gone == got.evicted
              new == got.ids[got.at].name = ""
              tail == FirstWords(v[at], new, Raw(t))
              msg == MeshMsg(t, user)
  <1>1. /\ at # 0 /\ identities' = v /\ did'.forwarded = msg /\ did'.skipped = <<>>
        /\ did'.hashes = <<Hash(msg)>> \o EvictionHashes(gone) \o <<OutgoingHash(msg[1])>>
        /\ did'.ble = EvictionFarewells(gone) \o FirstWords(v[at], new, msg[1])
        /\ did'.mesh = EvictionNotices(gone)
        /\ dedup' = RecordHashes(did'.hashes)
    BY DEF ForwardAsVirtual, Named
  <1>2. did'.ble = EvictionFarewells(gone) \o tail
    BY <1>1, MeshMsgIs
  <1>3. /\ gone \in Seq(IdType)
        /\ Holds(identities, got.ids, gone, at, user, millis)
        /\ got.ids \in Seq(NewIdType)
    BY <1>1 DEF GotIt, Parts
  <1>4. Holds(identities, v, gone, at, user, millis) /\ v \in Seq(IdType)
    BY <1>3, NamedHolds
  <1>5. new \in BOOLEAN
    OBVIOUS
  <1>6. msg # <<>> /\ ~ IsDuplicate(Hash(msg))
    BY MeshMsgIs
  <1>. HIDE DEF v, at, gone, new, msg, millis
  <1>7. v[at].node = user /\ user # Zero
    BY <1>4, BridgeAssumption DEF Holds
  <1>8. Registry'
    BY <1>1, <1>4 DEF Holds, Registry, OneEach
  <1>9. PICK T : /\ tail \in Seq(T)
                 /\ \A i \in 1 .. Len(tail) : tail[i].type = "message" => tail[i].as # Zero
    BY <1>5, <1>7, WordsSenders
  <1>. HIDE DEF tail
  <1>10. NamedSenders
    <2>1. Follows(did'.ble, gone, tail)
      BY <1>2, <1>3, <1>9, FarewellsFirst
    <2>. QED
      BY <1>3, <1>9, <2>1, FarewellSenders DEF NamedSenders
  <1>11. Len(gone) \in Nat /\ DOMAIN gone = 1 .. Len(gone)
    BY <1>3
  <1>12. DedupStep
    <2>1. LeadBy(did'.hashes, Hash(msg))
      BY <1>1, <1>11, MeshHashes
    <2>2. Environment /\ time' = time
      BY DEF TrafficInv
    <2>. QED
      BY <1>1, <1>6, <2>1, <2>2, ForwardRecords
  <1>13. QueueStep
    BY <1>1, <1>11, NoticesAre DEF QueueStep, SendsNoChunk
  <1>14. heap' \in HeapLevels
    BY TrafficFacts
  <1>. QED
    BY <1>8, <1>10, <1>12, <1>13, <1>14 DEF TrafficStep

\* A message goes out under the bridge's identity.
LEMMA BridgeStep ==
    ASSUME TrafficInv, UNCHANGED <<time, heap, pending>>,
           NEW user \in MeshUsers, NEW name, NEW t, NEW got,
           GotIt(identities, got, user, millis), ~ IsDuplicate(Hash(MeshMsg(t, user))),
           ForwardAsBridge(MeshMsg(t, user), name, got)
    PROVE  TrafficStep
  <1>. DEFINE v == got.ids
              gone == got.evicted
              msg == MeshMsg(t, user)
              text == Bridged("[M]", name, msg[1])
              p == MessageAs(Bridge, text)
              tail == <<p>>
  <1>1. /\ got.at = 0 /\ identities' = v /\ did'.forwarded = msg /\ did'.skipped = <<>>
        /\ did'.hashes = <<Hash(msg)>> \o EvictionHashes(gone) \o <<OutgoingHash(text)>>
        /\ did'.ble = EvictionFarewells(gone) \o tail
        /\ did'.mesh = EvictionNotices(gone)
        /\ dedup' = RecordHashes(did'.hashes)
    BY DEF ForwardAsBridge
  <1>2. gone \in Seq(IdType) /\ Removes(identities, v, gone)
    BY <1>1 DEF GotIt, Parts
  <1>3. msg # <<>> /\ ~ IsDuplicate(Hash(msg))
    BY MeshMsgIs
  <1>4. p.as # Zero
    BY DEF MessageAs, Bridge, Zero
  <1>. HIDE DEF v, gone, msg, text, p
  <1>5. tail \in Seq({p}) /\ \A i \in 1 .. Len(tail) : tail[i] = p
    OBVIOUS
  <1>. HIDE DEF tail
  <1>6. NamedSenders
    <2>1. Follows(did'.ble, gone, tail)
      BY <1>1, <1>2, <1>5, FarewellsFirst
    <2>. QED
      BY <1>2, <1>4, <1>5, <2>1, FarewellSenders DEF NamedSenders
  <1>7. Registry'
    <2>1. Len(v) <= VIRT_ID_MAX_SLOTS
      <3>1. Len(v) <= Len(identities) /\ Len(v) \in Nat
        BY <1>2 DEF Removes
      <3>2. Len(identities) <= VIRT_ID_MAX_SLOTS /\ Len(identities) \in Nat
        BY TrafficFacts
      <3>. QED
        BY <3>1, <3>2, RegistryAssumption
    <2>. QED
      BY <1>1, <1>2, <2>1 DEF Removes, Registry, OneEach
  <1>8. Len(gone) \in Nat /\ DOMAIN gone = 1 .. Len(gone)
    BY <1>2
  <1>9. DedupStep
    <2>1. LeadBy(did'.hashes, Hash(msg))
      BY <1>1, <1>8, MeshHashes
    <2>2. Environment /\ time' = time
      BY DEF TrafficInv
    <2>. QED
      BY <1>1, <1>3, <2>1, <2>2, ForwardRecords
  <1>10. QueueStep
    BY <1>1, <1>8, NoticesAre DEF QueueStep, SendsNoChunk
  <1>11. heap' \in HeapLevels
    BY TrafficFacts
  <1>. QED
    BY <1>6, <1>7, <1>9, <1>10, <1>11 DEF TrafficStep

\* _on_meshtastic_message.
LEMMA MeshTraffic ==
    ASSUME TrafficInv, NEW user \in MeshUsers, NEW name \in MeshNames, NEW t,
           NEW derives, OnMeshtasticMessage(user, name, t, derives)
    PROVE  TrafficStep
  <1>. DEFINE msg == MeshMsg(t, user)
              got == GetOrCreate(identities, user, heap, millis, derives)
  <1>1. /\ Deliver("mesh")
        /\ \/ SkipDuplicate(msg)
           \/ /\ ~ IsDuplicate(Hash(msg))
              /\ ForwardAsVirtual(msg, name, got) \/ ForwardAsBridge(msg, name, got)
              /\ UNCHANGED pending
    BY DEF OnMeshtasticMessage, MeshMsg
  <1>2. GotIt(identities, got, user, millis)
    BY TrafficFacts, GotHolds
  <1>3. UNCHANGED <<time, heap>>
    BY <1>1 DEF Deliver
  <1>4. msg # <<>> /\ ~ Own(msg)
    BY IncomingIs, BridgeAssumption DEF MeshMsg
  <1>. HIDE DEF got, millis
  <1>5. CASE SkipDuplicate(msg)
    <2>. HIDE DEF msg
    <2>. QED
      BY <1>3, <1>4, <1>5, SkipStep
  <1>6. CASE /\ ~ IsDuplicate(Hash(msg)) /\ UNCHANGED pending
             /\ ForwardAsVirtual(msg, name, got)
    BY <1>2, <1>3, <1>6, VirtualStep
  <1>7. CASE /\ ~ IsDuplicate(Hash(msg)) /\ UNCHANGED pending
             /\ ForwardAsBridge(msg, name, got)
    BY <1>2, <1>3, <1>7, BridgeStep
  <1>. QED
    BY <1>1, <1>5, <1>6, <1>7

\* _on_bitchat_message, for a message of a phone or one that comes back.
LEMMA PhoneTraffic ==
    ASSUME TrafficInv, NEW fp, fp # Zero, NEW text, OnBitchatMessage(fp, text)
    PROVE  TrafficStep
  <1>. DEFINE msg == <<text, Zero, fp>>
  <1>1. /\ Deliver("ble") /\ identities' = identities
        /\ \/ SkipDuplicate(msg)
           \/ ~ IsDuplicate(Hash(msg)) /\ (ForwardShort(msg) \/ ForwardLong(msg))
    BY DEF OnBitchatMessage
  <1>2. msg # <<>> /\ ~ Own(msg)
    BY IncomingIs
  <1>3. UNCHANGED <<time, heap>>
    BY <1>1 DEF Deliver
  <1>4. Registry' /\ Environment /\ heap' \in HeapLevels
    BY <1>1, <1>3, RegistryStays, TrafficFacts DEF TrafficInv
  <1>5. DOMAIN <<>> = {}
    OBVIOUS
  <1>. HIDE DEF msg
  <1>6. CASE SkipDuplicate(msg)
    BY <1>2, <1>3, <1>6, SkipStep
  <1>7. CASE ~ IsDuplicate(Hash(msg)) /\ ForwardShort(msg)
    <2>. DEFINE bridged == Bridged("[B]", msg[3], msg[1])
                hashes == <<Hash(msg), OutgoingHash(bridged)>>
                texts == <<bridged>>
    <2>1. /\ dedup' = RecordHashes(hashes) /\ pending' = pending
          /\ did' = [Nothing EXCEPT !.forwarded = msg, !.hashes = hashes,
                                    !.mesh = ToMesh(texts)]
      BY <1>7 DEF ForwardShort
    <2>2. LeadBy(hashes, Hash(msg))
      BY ShortHashes
    <2>3. ~ IsChunk(bridged)
      BY DEF IsChunk, Bridged
    <2>. HIDE DEF bridged, hashes
    <2>4. DOMAIN texts = {1} /\ texts[1] = bridged
      OBVIOUS
    <2>. HIDE DEF texts
    <2>5. /\ did'.forwarded = msg /\ did'.hashes = hashes /\ did'.mesh = ToMesh(texts)
          /\ did'.ble = <<>> /\ did'.skipped = <<>>
      BY <2>1 DEF Nothing
    <2>6. DedupStep
      BY <1>2, <1>3, <1>4, <1>7, <2>1, <2>2, <2>5, ForwardRecords
    <2>7. did'.mesh = texts \/ did'.mesh = <<>>
      BY <2>5 DEF ToMesh
    <2>8. QueueStep
      BY <1>5, <2>1, <2>3, <2>4, <2>7 DEF QueueStep, SendsNoChunk
    <2>9. NamedSenders
      BY <1>5, <2>5 DEF NamedSenders
    <2>. QED
      BY <1>4, <2>6, <2>8, <2>9 DEF TrafficStep
  <1>8. CASE ~ IsDuplicate(Hash(msg)) /\ ForwardLong(msg)
    <2>. DEFINE chunks == ChunksOf(msg[3], msg[1])
                hashes == <<Hash(msg)>> \o [i \in 1 .. CHUNKS |-> OutgoingHash(chunks[i])]
    <2>1. /\ dedup' = RecordHashes(hashes)
          /\ pending' = [chunks |-> chunks, next |-> 0, at |-> millis]
          /\ did' = [Nothing EXCEPT !.forwarded = msg, !.hashes = hashes]
      BY <1>8 DEF ForwardLong, SplitIntoChunks, ChunksOf
    <2>2. LeadBy(hashes, Hash(msg))
      BY LongHashes
    <2>. HIDE DEF hashes, millis
    <2>3. \E name, body : pending' = [chunks |-> ChunksOf(name, body), next |-> 0,
                                      at |-> millis]
      BY <2>1
    <2>. HIDE DEF chunks
    <2>4. /\ did'.forwarded = msg /\ did'.hashes = hashes /\ did'.mesh = <<>>
          /\ did'.ble = <<>> /\ did'.skipped = <<>>
      BY <2>1 DEF Nothing
    <2>5. DedupStep
      BY <1>2, <1>3, <1>4, <1>8, <2>1, <2>2, <2>4, ForwardRecords
    <2>6. QueueStep
      BY <1>5, <2>3, <2>4 DEF QueueStep, SendsNoChunk
    <2>7. NamedSenders
      BY <1>5, <2>4 DEF NamedSenders
    <2>. QED
      BY <1>4, <2>5, <2>6, <2>7 DEF TrafficStep
  <1>. QED
    BY <1>1, <1>6, <1>7, <1>8

\* check_memory_pressure sheds an identity.
LEMMA ShedTraffic ==
    ASSUME TrafficInv, NEW left, ShedIdentity(left), UNCHANGED <<time, pending>>,
           heap' \in HeapLevels
    PROVE  TrafficStep
  <1>. DEFINE e == identities[Lru(identities)]
              gone == <<e>>
              none == <<>>
              hashes == EvictionHashes(gone)
  <1>1. identities \in Seq(IdType) /\ OneEach(identities) /\ identities # <<>>
    BY TrafficFacts DEF ShedIdentity
  <1>2. Removes(identities, EvictLru(identities), gone)
    BY <1>1, LruSplits
  <1>3. /\ identities' = EvictLru(identities) /\ dedup' = RecordHashes(hashes)
        /\ did'.ble = EvictionFarewells(gone) /\ did'.mesh = EvictionNotices(gone)
        /\ did'.hashes = hashes /\ did'.forwarded = <<>> /\ did'.skipped = <<>>
    BY DEF ShedIdentity, Nothing
  <1>. HIDE DEF gone
  <1>4. gone \in Seq(IdType)
    BY <1>2 DEF Removes
  <1>5. Len(gone) \in Nat /\ DOMAIN gone = 1 .. Len(gone)
    BY <1>4
  <1>6. /\ Len(hashes) = 2 * Len(gone) /\ DOMAIN hashes = 1 .. 2 * Len(gone)
        /\ \A i \in 1 .. 2 * Len(gone) : Own(hashes[i])
    BY <1>5, EvictionHashesOwn
  <1>. HIDE DEF hashes
  <1>7. DedupStep
    <2>1. Len(hashes) \in Nat
      BY <1>5, <1>6
    <2>2. Records
      BY <1>3, <1>6, <2>1 DEF Records
    <2>. QED
      BY <2>2, TimeStays DEF DedupStep, TrafficInv
  <1>8. QueueStep
    BY <1>3, <1>5, NoticesAre DEF QueueStep, SendsNoChunk
  <1>9. NamedSenders
    <2>1. none \in Seq({}) /\ Len(none) = 0
      OBVIOUS
    <2>2. Follows(EvictionFarewells(gone), gone, none)
      BY <1>4, <2>1, FarewellsFirst
    <2>. HIDE DEF none
    <2>3. \A i \in 1 .. Len(none) : none[i].type = "message" => none[i].as # Zero
      BY <2>1
    <2>. QED
      BY <1>3, <1>4, <2>2, <2>3, FarewellSenders DEF NamedSenders
  <1>10. Registry'
    <2>1. Len(identities') <= VIRT_ID_MAX_SLOTS
      <3>1. Len(identities') <= Len(identities) /\ Len(identities') \in Nat
        BY <1>2, <1>3 DEF Removes
      <3>2. Len(identities) <= VIRT_ID_MAX_SLOTS /\ Len(identities) \in Nat
        BY TrafficFacts
      <3>. QED
        BY <3>1, <3>2, RegistryAssumption
    <2>. QED
      BY <1>2, <1>3, <2>1 DEF Removes, Registry, OneEach
  <1>. QED
    BY <1>7, <1>8, <1>9, <1>10 DEF TrafficStep

\* _drain_pending_chunks.
LEMMA DrainTraffic ==
    ASSUME TrafficInv, DrainChunks
    PROVE  TrafficStep
  <1>1. UNCHANGED <<time, heap, identities, dedup>>
    BY DEF DrainChunks
  <1>2. Environment /\ heap' \in HeapLevels
    BY <1>1, TrafficFacts DEF TrafficInv
  <1>3. CASE /\ did' = Nothing
             /\ pending' = pending \/ pending' = [pending EXCEPT !.next = Len(pending.chunks)]
    BY <1>1, <1>2, <1>3, TimeStays, IdleStep
  <1>4. CASE /\ pending.next < Len(pending.chunks) /\ ~ IsBefore(millis, pending.at)
             /\ pending' = [pending EXCEPT !.next = pending.next + 1,
                                !.at = (millis + BRIDGE_CHUNK_DELAY) % CLOCK_MOD]
             /\ did' = [Nothing EXCEPT !.mesh = <<pending.chunks[pending.next + 1]>>]
    <2>1. SendsChunk
      BY <1>1, <1>4 DEF SendsChunk, Nothing
    <2>2. /\ did'.forwarded = <<>> /\ did'.hashes = <<>> /\ did'.skipped = <<>>
          /\ did'.ble = <<>>
      BY <1>4 DEF Nothing
    <2>3. DOMAIN <<>> = {} /\ Len(<<>>) = 0
      OBVIOUS
    <2>4. DedupStep
      BY <1>1, <1>2, <2>2, <2>3, TimeStays DEF DedupStep, RecordsNothing
    <2>5. NamedSenders
      BY <2>2, <2>3 DEF NamedSenders
    <2>6. Registry'
      BY <1>1, RegistryStays DEF TrafficInv
    <2>. QED
      BY <1>2, <2>1, <2>4, <2>5, <2>6 DEF TrafficStep, QueueStep
  <1>. HIDE DEF millis
  <1>. QED
    BY <1>3, <1>4 DEF DrainChunks

\* The announce step.
LEMMA AnnounceTraffic ==
    ASSUME TrafficInv, AnnounceStep
    PROVE  TrafficStep
  <1>1. UNCHANGED <<time, heap, identities, dedup, pending>>
    BY DEF AnnounceStep
  <1>2. Environment /\ heap' \in HeapLevels
    BY <1>1, TrafficFacts DEF TrafficInv
  <1>3. CASE did' = Nothing
    BY <1>1, <1>2, <1>3, TimeStays, IdleStep
  <1>4. CASE \E id : did' = [Nothing EXCEPT !.ble = <<AnnounceOf(id)>>]
    <2>1. PICK id : did' = [Nothing EXCEPT !.ble = <<AnnounceOf(id)>>]
      BY <1>4
    <2>2. AnnounceOf(id).type # "message"
      BY DEF AnnounceOf
    <2>. DEFINE a == AnnounceOf(id)
    <2>. HIDE DEF a
    <2>3. /\ did'.forwarded = <<>> /\ did'.hashes = <<>> /\ did'.skipped = <<>>
          /\ did'.ble = <<a>> /\ did'.mesh = <<>>
      BY <2>1 DEF Nothing, a
    <2>4. DOMAIN <<>> = {} /\ Len(<<>>) = 0 /\ DOMAIN <<a>> = {1} /\ <<a>>[1] = a
      OBVIOUS
    <2>5. DedupStep
      BY <1>1, <1>2, <2>3, <2>4, TimeStays DEF DedupStep, RecordsNothing
    <2>6. QueueStep
      BY <1>1, <2>3, <2>4 DEF QueueStep, SendsNoChunk
    <2>7. NamedSenders
      BY <2>2, <2>3, <2>4 DEF NamedSenders, a
    <2>8. Registry'
      BY <1>1, RegistryStays DEF TrafficInv
    <2>. QED
      BY <1>2, <2>5, <2>6, <2>7, <2>8 DEF TrafficStep
  <1>5. did' = Nothing \/ \E id : did' = [Nothing EXCEPT !.ble = <<AnnounceOf(id)>>]
    BY AnnounceSplits DEF AnnounceCases
  <1>. QED
    BY <1>3, <1>4, <1>5

\* Every step of the bridge.
LEMMA StepTraffic ==
    ASSUME TrafficInv, Next \/ GossipReturns
    PROVE  TrafficStep
  <1>0. Environment /\ heap \in HeapLevels
    BY TrafficFacts DEF TrafficInv
  <1>1. CASE MeshUserSpeaks
    <2>1. PICK user \in MeshUsers, name \in MeshNames, t \in ShortTexts \cup LongTexts,
               derives \in BOOLEAN : OnMeshtasticMessage(user, name, t, derives)
      BY <1>1 DEF MeshUserSpeaks
    <2>. QED
      BY <2>1, MeshTraffic
  <1>2. CASE PhoneSpeaks
    <2>1. PICK fp \in Phones, t \in ShortTexts \cup LongTexts : OnBitchatMessage(fp, Raw(t))
      BY <1>2 DEF PhoneSpeaks
    <2>2. fp # Zero
      BY BridgeAssumption
    <2>. QED
      BY <2>1, <2>2, PhoneTraffic
  <1>3. CASE GossipReturns
    <2>1. PICK m \in aired : OnBitchatMessage(m[1], m[2])
      BY <1>3 DEF GossipReturns
    <2>2. m[1] # Zero
      BY DEF TrafficInv, Senders
    <2>. QED
      BY <2>1, <2>2, PhoneTraffic
  <1>4. CASE LoopStep
    <2>1. CASE TransportDone \/ MemoryCheck
      <3>1. did' = Nothing /\ UNCHANGED <<time, heap, identities, dedup, pending>>
        BY <2>1 DEF TransportDone, MemoryCheck
      <3>. QED
        BY <1>0, <3>1, TimeStays, IdleStep
    <2>2. CASE AnnounceStep
      BY <2>2, AnnounceTraffic
    <2>3. CASE ShedStep
      <3>1. PICK left \in HeapLevels : heap' = left /\ (ShedIdentity(left) \/ ShedEnds(left))
        BY <2>3 DEF ShedStep
      <3>2. UNCHANGED <<time, pending>>
        BY <2>3 DEF ShedStep
      <3>3. CASE ShedIdentity(left)
        BY <3>1, <3>2, <3>3, ShedTraffic
      <3>4. CASE ShedEnds(left)
        <4>1. did' = Nothing /\ UNCHANGED <<identities, dedup>>
          BY <3>4 DEF ShedEnds
        <4>. QED
          BY <1>0, <3>1, <3>2, <4>1, TimeStays, IdleStep
      <3>. QED
        BY <3>1, <3>3, <3>4
    <2>4. CASE DrainChunks
      BY <2>4, DrainTraffic
    <2>. QED
      BY <1>4, <2>1, <2>2, <2>3, <2>4 DEF LoopStep
  <1>5. CASE Tick
    <2>1. /\ did' = Nothing /\ time < MaxTime /\ time' = time + 1
          /\ UNCHANGED <<heap, identities, dedup, pending>>
      BY <1>5 DEF Tick
    <2>2. time' \in Nat /\ time <= time' /\ time' <= MaxTime
      BY <1>0, <2>1, BridgeAssumption DEF Environment
    <2>. QED
      BY <1>0, <2>1, <2>2, IdleStep
  <1>6. CASE HeapChanges \/ LinkChanges
    <2>1. /\ did' = Nothing /\ heap' \in HeapLevels
          /\ UNCHANGED <<time, identities, dedup, pending>>
      BY <1>0, <1>6 DEF HeapChanges, LinkChanges
    <2>. QED
      BY <1>0, <2>1, TimeStays, IdleStep
  <1>. QED
    BY <1>1, <1>2, <1>3, <1>4, <1>5, <1>6 DEF Next
-----------------------------------------------------------------------------
(* The theorems of the traffic                                              *)

\* The invariant holds at the start: nothing was forwarded and the ring is empty.
LEMMA InitTraffic == TrafficInit => TrafficInv
  <1>. SUFFICES ASSUME TrafficInit PROVE TrafficInv
    OBVIOUS
  <1>. DEFINE none == <<>>
  <1>1. Init /\ aired = {} /\ forwarded = none /\ records = 0
    BY DEF TrafficInit
  <1>2. /\ identities = none /\ time = 0 /\ heap \in HeapLevels
        /\ dedup.idx = 0 /\ dedup.ring = [s \in Slots |-> [hash |-> none, at |-> 0]]
        /\ pending = [chunks |-> none, next |-> 0, at |-> 0]
    BY <1>1 DEF Init
  <1>3. none \in Seq(IdType) /\ DOMAIN none = {} /\ Len(none) = 0
    OBVIOUS
  <1>. HIDE DEF none
  <1>4. Registry
    BY <1>2, <1>3, RegistryAssumption DEF Registry, OneEach
  <1>5. Environment
    BY <1>2, BridgeAssumption DEF Environment
  <1>6. Senders /\ Remembered
    BY <1>1, <1>3 DEF Senders, Remembered
  <1>7. Counted
    BY <1>1, <1>2, Modulo, BridgeAssumption DEF Counted, SlotOf
  <1>8. Justified
    <2>1. \A s \in Slots : dedup.ring[s].hash = none
      BY <1>2
    <2>. QED
      BY <2>1 DEF Justified, EntryOf, none
  <1>9. Queued
    <2>1. /\ pending.chunks = none /\ pending.next = 0
          /\ pending = [chunks |-> pending.chunks, next |-> pending.next, at |-> pending.at]
      BY <1>2
    <2>2. ~ (0 < pending.next)
      BY <2>1
    <2>. QED
      BY <2>1, <2>2 DEF Queued, none
  <1>. QED
    BY <1>4, <1>5, <1>6, <1>7, <1>8, <1>9 DEF TrafficInv

\* What was said over BLE in a step has senders.
LEMMA AiredStep ==
    ASSUME Senders, NamedSenders, aired' = aired \cup Messages(did'.ble)
    PROVE  Senders'
  <1>1. ASSUME NEW m \in Messages(did'.ble) PROVE m[1] # Zero
    <2>. DEFINE ble == did'.ble
    <2>1. PICK i \in {j \in DOMAIN ble : ble[j].type = "message"} :
             m = <<ble[i].as, ble[i].text>>
      BY DEF Messages
    <2>2. ble[i].as # Zero
      BY <2>1 DEF NamedSenders
    <2>. QED
      BY <2>1, <2>2
  <1>. QED
    BY <1>1 DEF Senders

\* Every step keeps the invariant and does what the theorems say.
LEMMA NextTraffic ==
    ASSUME TrafficInv, TrafficNext
    PROVE  /\ TrafficInv' /\ DedupStep /\ QueueStep
  <1>1. TrafficStep
    BY StepTraffic DEF TrafficNext
  <1>2. Remembers /\ RemembersChunk /\ aired' = aired \cup Messages(did'.ble)
    BY DEF TrafficNext, Remembers, RemembersChunk
  <1>3. /\ DedupStep /\ QueueStep /\ NamedSenders /\ Registry' /\ heap' \in HeapLevels
        /\ time' \in Nat /\ time <= time' /\ time' <= MaxTime
    BY <1>1 DEF TrafficStep, DedupStep
  <1>4. Environment /\ Senders /\ Counted /\ Remembered /\ Justified /\ Queued
    BY DEF TrafficInv
  <1>5. Environment'
    BY <1>3 DEF Environment
  <1>6. Senders'
    BY <1>2, <1>3, <1>4, AiredStep
  <1>7. Counted'
    BY <1>2, <1>3, <1>4, CountedStep
  <1>8. Remembered'
    BY <1>2, <1>3, <1>4, RememberedStep
  <1>9. Justified'
    BY <1>2, <1>3, <1>4, JustifiedStep
  <1>10. Queued'
    BY <1>2, <1>3, <1>4, QueueWaits, QueueMoves DEF QueueStep
  <1>. QED
    BY <1>3, <1>5, <1>6, <1>7, <1>8, <1>9, <1>10 DEF TrafficInv

\* The invariant holds throughout.
LEMMA TrafficInvariance == TrafficSpec => []TrafficInv
  <1>1. TrafficInv /\ [TrafficNext]_tvars => TrafficInv'
    <2>. SUFFICES ASSUME TrafficInv, [TrafficNext]_tvars PROVE TrafficInv'
      OBVIOUS
    <2>1. CASE TrafficNext
      BY <2>1, NextTraffic
    <2>2. CASE UNCHANGED tvars
      BY <2>2 DEF tvars, vars, TrafficInv, Registry, OneEach, Environment, Senders, Counted,
                  SlotOf, Remembered, Justified, EntryOf, Slots, Queued, ChunksOf
    <2>. QED
      BY <2>1, <2>2
  <1>. QED
    BY <1>1, InitTraffic, PTL DEF TrafficSpec

\* As long as millis() has not wrapped, _is_duplicate swallows a message only if
\* the same sender's same text was forwarded within the TTL, for every size of
\* the cache and whatever outgoing messages are recorded between.
THEOREM BridgeSkipsOnlyRepeats ==
    ASSUME MaxTime < CLOCK_MOD
    PROVE  TrafficSpec => SkipsOnlyRepeats
  <1>1. TrafficInv /\ TrafficNext =>
          (did'.skipped # <<>> =>
               /\ did'.skipped \in DOMAIN forwarded
               /\ time - forwarded[did'.skipped].time < DEDUP_TTL)
    <2>. SUFFICES ASSUME TrafficInv, TrafficNext PROVE SkipIsRepeat
      BY DEF SkipIsRepeat
    <2>1. DedupStep /\ Environment /\ Remembered /\ Justified
      BY NextTraffic DEF TrafficInv
    <2>. QED
      BY <2>1, SkipsStep
  <1>. QED
    BY <1>1, TrafficInvariance, PTL DEF TrafficSpec, SkipsOnlyRepeats

\* _is_duplicate and _record_hash forward the same sender's same text again only
\* once the TTL is over or the ring has gone round, however often millis() wraps.
THEOREM BridgeForwardsOnce == TrafficSpec => ForwardsOnce
  <1>1. TrafficInv /\ TrafficNext =>
          \A h \in DOMAIN forwarded :
              did'.forwarded = h =>
                  \/ time - forwarded[h].time >= DEDUP_TTL
                  \/ records - forwarded[h].records >= DEDUP_CACHE_SIZE
    <2>. SUFFICES ASSUME TrafficInv, TrafficNext PROVE ForwardIsDue
      BY DEF ForwardIsDue
    <2>1. DedupStep /\ Environment /\ Counted /\ Remembered
      BY NextTraffic DEF TrafficInv
    <2>. QED
      BY <2>1, ForwardsStep
  <1>. QED
    BY <1>1, TrafficInvariance, PTL DEF TrafficSpec, ForwardsOnce

\* _drain_pending_chunks sends a long message's chunks one after the other with
\* the delay between them, never two messages' chunks in turn, whatever overwrites
\* the queue and however often millis() wraps.  The delay is at most half the
\* clock, which the signed comparison of times needs.
THEOREM BridgeChunksInOrder ==
    ASSUME 2 * BRIDGE_CHUNK_DELAY <= CLOCK_MOD
    PROVE  TrafficSpec => ChunksInOrder
  <1>1. TrafficInv /\ TrafficNext =>
          \A i \in DOMAIN did'.mesh :
              LET text == did'.mesh[i]
              IN  IsChunk(text) /\ text[4] > 1 =>
                      /\ chunk.text = [text EXCEPT ![4] = @ - 1]
                      /\ time - chunk.time >= BRIDGE_CHUNK_DELAY
    <2>. SUFFICES ASSUME TrafficInv, TrafficNext PROVE ChunkFollows
      BY DEF ChunkFollows
    <2>1. QueueStep /\ Environment /\ Queued
      BY NextTraffic DEF TrafficInv
    <2>. QED
      BY <2>1, ChunksStep
  <1>. QED
    BY <1>1, TrafficInvariance, PTL DEF TrafficSpec, ChunksInOrder
=============================================================================
