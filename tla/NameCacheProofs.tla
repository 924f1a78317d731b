-------------------------- MODULE NameCacheProofs --------------------------
(***************************************************************************)
(* Proofs about NameCache for any numbers of users, names and entries and    *)
(* any debounce interval: what is not marked dirty is in flash, a reset      *)
(* costs at most a torn table, and a look-up gives the latest name.          *)
(***************************************************************************)
EXTENDS NameCache, SequenceTheorems, WellFoundedInduction, TLAPS

-----------------------------------------------------------------------------
(* The inductive invariant                                                   *)

\* Both keys of a table hold what is in memory.
BlobWritten(t)  == nvs[t].blobSet /\ nvs[t].blob = names[t]
CountWritten(t) == nvs[t].nSet /\ nvs[t].n = Len(names[t])

\* Inside save() the tables are dirty, and the keys that were written already
\* hold the tables of this save.
SaveInv ==
    /\ phase # "idle" => dirty
    /\ phase \in {"mesh_n", "ble", "ble_n", "close"} => BlobWritten("mesh")
    /\ phase \in {"ble", "ble_n", "close"} => CountWritten("mesh")
    /\ phase \in {"ble_n", "close"} => BlobWritten("ble")
    /\ phase = "close" => CountWritten("ble")

\* Memory still has whatever was restored or saved: entries are never removed.
KeptInMemory == \A t \in Tables : kept[t] \subseteq Ids(names[t])

IInv ==
    /\ TypeOK
    /\ SaveInv
    /\ KeptInMemory
    /\ CleanIsRestorable
    /\ OnlyTornTablesAreLost
    /\ LookupIsLatest

-----------------------------------------------------------------------------
(* Tables                                                                    *)

\* Every non-empty set of numbers has a least element.
LEMMA LeastElement ==
    ASSUME NEW S \in SUBSET Nat, S # {}
    PROVE  \E i \in S : \A j \in S : i <= j
<1> DEFINE R == OpToRel(<, Nat)
<1>1. IsWellFoundedOn(R, Nat)
  BY NatLessThanWellFounded
<1>2. PICK x \in S : \A y \in S : ~ (<<y, x>> \in R)
  <2> HIDE DEF R
  <2>1. QED
    BY <1>1, WFMin, Zenon
<1>3. \A y \in S : ~ (y < x)
  BY <1>2 DEF OpToRel
<1>4. QED
  BY <1>3

\* FirstOf picks the least of some positions.
LEMMA FirstOfLeast ==
    ASSUME NEW I \in SUBSET Nat, I # {}
    PROVE  FirstOf(I) \in I /\ \A j \in I : FirstOf(I) <= j
<1>1. \E i \in I : \A j \in I : i <= j
  BY LeastElement
<1>2. QED
  BY <1>1 DEF FirstOf

\* It is the only element that is least.
LEMMA FirstOfUnique ==
    ASSUME NEW I \in SUBSET Nat, NEW k \in I, \A j \in I : k <= j
    PROVE  FirstOf(I) = k
<1>1. FirstOf(I) \in Nat /\ k \in Nat /\ k <= FirstOf(I) /\ FirstOf(I) <= k
  BY FirstOfLeast
<1>2. QED
  BY <1>1

\* A function on 1..n is a sequence.
LEMMA FunctionIsSeq ==
    ASSUME NEW S, NEW n \in Nat, NEW f \in [1 .. n -> S]
    PROVE  f \in Seq(S) /\ Len(f) = n
OBVIOUS

\* What Stored makes of a table: the same entries, one with a new name or one
\* more at the end.
LEMMA StoredCases ==
    ASSUME NEW t \in Tables, NEW s, TableType(t, s), NEW id \in IdsOf(t), NEW v \in Versions
    PROVE  LET r == Stored(s, id, Name(id, v))
           IN  /\ TableType(t, r)
               /\ Ids(s) \subseteq Ids(r)
               /\ id \in Ids(r) => GetName(r, id) = Name(id, v)
               /\ \A o \in IdsOf(t) \ {id} : GetName(r, o) = GetName(s, o)
<1> DEFINE hits == Entry(s, id)
           new  == [id |-> id, name |-> Name(id, v)]
           r    == Stored(s, id, Name(id, v))
<1>1. /\ s \in Seq(Entries(t)) /\ Len(s) \in Nat /\ DOMAIN s = 1 .. Len(s)
      /\ Len(s) <= MAX_IDENTITY_ENTRIES
      /\ new \in Entries(t) /\ Name(id, v) = new.name
      /\ id # NoId /\ Name(id, v) # Blank.name
  BY CacheAssumption DEF TableType, Entries, Name, IdsOf, Tables, Blank
<1>2. CASE hits # {}
  <2> DEFINE k == FirstOf(hits)
  <2>0. hits \in SUBSET Nat /\ \A i \in hits : i \in 1 .. Len(s) /\ s[i].id = id
    BY <1>1 DEF Entry
  <2>1. k \in 1 .. Len(s) /\ s[k].id = id /\ k \in hits /\ \A j \in hits : k <= j
    <3> HIDE DEF hits
    <3>1. QED
      BY <1>2, <2>0, FirstOfLeast
  <2>2. r = [s EXCEPT ![k].name = Name(id, v)]
    BY <1>2 DEF Stored
  <2> HIDE DEF k, hits
  <2>3. /\ r \in Seq(Entries(t)) /\ Len(r) = Len(s) /\ DOMAIN r = DOMAIN s
        /\ \A i \in 1 .. Len(s) : r[i].id = s[i].id
        /\ r[k].name = Name(id, v)
        /\ \A i \in 1 .. Len(s) : i # k => r[i] = s[i]
    <3> DEFINE e == [s[k] EXCEPT !.name = Name(id, v)]
    <3>1. e \in Entries(t) /\ e.id = s[k].id /\ e.name = Name(id, v)
      <4>1. s[k] \in Entries(t)
        BY <1>1, <2>1, ElementOfSeq
      <4>2. Name(id, v) \in [of : IdsOf(t) \cup {NoId}, ver : Versions \cup {0}]
        BY DEF Name
      <4>3. QED
        BY <4>1, <4>2 DEF Entries
    <3>2. r = [s EXCEPT ![k] = e]
      BY <2>2
    <3> HIDE DEF e, r
    <3>3. r \in Seq(Entries(t)) /\ Len(r) = Len(s)
      BY <1>1, <2>1, <3>1, <3>2, ExceptSeq
    <3>4. QED
      BY <1>1, <2>1, <3>1, <3>2, <3>3
  <2>4. Ids(s) \subseteq Ids(r)
    BY <1>1, <2>3 DEF Ids
  <2>5. GetName(r, id) = Name(id, v)
    <3> DEFINE K == {i \in 1 .. Len(r) : r[i].id = id /\ r[i].name # Blank.name}
    <3>1. K \in SUBSET Nat /\ K \subseteq hits
      BY <1>1, <2>3 DEF hits, Entry
    <3>2. k \in K
      BY <1>1, <2>1, <2>3 DEF Entry
    <3>3. \A j \in K : k <= j
      BY <2>1, <3>1
    <3>4. GetName(r, id) = r[FirstOf(K)].name
      BY <3>2 DEF GetName
    <3> HIDE DEF K
    <3>5. FirstOf(K) = k
      BY <3>1, <3>2, <3>3, FirstOfUnique
    <3>6. QED
      BY <2>3, <3>4, <3>5
  <2>6. ASSUME NEW o \in IdsOf(t) \ {id}
        PROVE  GetName(r, o) = GetName(s, o)
    <3> DEFINE I == {i \in 1 .. Len(s) : s[i].id = o /\ s[i].name # Blank.name}
    <3>1. {i \in 1 .. Len(r) : r[i].id = o /\ r[i].name # Blank.name} = I
      BY <2>1, <2>3 DEF Entry
    <3>2. CASE I = {}
      BY <3>1, <3>2 DEF GetName
    <3>3. CASE I # {}
      <4>1. FirstOf(I) \in I
        <5>1. I \in SUBSET Nat
          BY <1>1 DEF Entry
        <5> HIDE DEF I
        <5>2. QED
          BY <3>3, <5>1, FirstOfLeast
      <4>2. r[FirstOf(I)] = s[FirstOf(I)]
        BY <4>1, <2>1, <2>3 DEF Entry
      <4>3. QED
        BY <3>1, <3>3, <4>2 DEF GetName
    <3>4. QED
      BY <3>2, <3>3
  <2>7. QED
    BY <1>1, <2>3, <2>4, <2>5, <2>6 DEF TableType
<1>3. CASE hits = {} /\ Len(s) < MAX_IDENTITY_ENTRIES
  <2>1. r = Append(s, new)
    BY <1>3 DEF Stored
  <2>2. /\ r \in Seq(Entries(t)) /\ Len(r) = Len(s) + 1 /\ DOMAIN r = 1 .. Len(s) + 1
        /\ r[Len(s) + 1] = new
        /\ \A i \in 1 .. Len(s) : r[i] = s[i]
    BY <1>1, <2>1
  <2> HIDE DEF r, new
  <2>3. Len(r) <= MAX_IDENTITY_ENTRIES
    BY <1>1, <1>3, <2>2, CacheAssumption
  <2>4. Ids(s) \subseteq Ids(r)
    BY <1>1, <2>2 DEF Ids
  <2>5. GetName(r, id) = Name(id, v)
    <3>1. {i \in 1 .. Len(r) : r[i].id = id /\ r[i].name # Blank.name} = {Len(s) + 1}
      BY <1>1, <1>3, <2>2 DEF Entry, new
    <3>2. FirstOf({Len(s) + 1}) = Len(s) + 1
      BY <1>1, FirstOfUnique
    <3>3. QED
      BY <1>1, <3>1, <3>2, <2>2 DEF GetName
  <2>6. ASSUME NEW o \in IdsOf(t) \ {id}
        PROVE  GetName(r, o) = GetName(s, o)
    <3> DEFINE I == {i \in 1 .. Len(s) : s[i].id = o /\ s[i].name # Blank.name}
    <3>1. {i \in 1 .. Len(r) : r[i].id = o /\ r[i].name # Blank.name} = I
      BY <1>1, <2>2 DEF new, Entry
    <3>2. CASE I = {}
      BY <3>1, <3>2 DEF GetName
    <3>3. CASE I # {}
      <4>1. FirstOf(I) \in I
        <5>1. I \in SUBSET Nat
          BY <1>1 DEF Entry
        <5> HIDE DEF I
        <5>2. QED
          BY <3>3, <5>1, FirstOfLeast
      <4>2. r[FirstOf(I)] = s[FirstOf(I)]
        BY <4>1, <2>2 DEF Entry
      <4>3. QED
        BY <3>1, <3>3, <4>2 DEF GetName
    <3>4. QED
      BY <3>2, <3>3
  <2>7. QED
    BY <2>2, <2>3, <2>4, <2>5, <2>6 DEF TableType, r
<1>4. CASE hits = {} /\ ~(Len(s) < MAX_IDENTITY_ENTRIES)
  <2>1. r = s
    BY <1>4 DEF Stored
  <2>2. id \notin Ids(s)
    BY <1>1, <1>4 DEF Ids, Entry
  <2>3. QED
    BY <2>1, <2>2
<1>5. QED
  BY <1>2, <1>3, <1>4

\* What load() makes of a table's two keys is a table.
LEMMA LoadedType ==
    ASSUME NEW t \in Tables, NEW f, FlashType(t, f)
    PROVE  TableType(t, Loaded(f)) /\ Ids(Loaded(f)) \subseteq IdsOf(t)
<1>1. CASE f.nSet /\ f.n <= MAX_IDENTITY_ENTRIES /\ f.blobSet /\ Len(f.blob) <= f.n
  <2> DEFINE g == [i \in 1 .. f.n |-> IF i <= Len(f.blob) THEN f.blob[i] ELSE Blank]
  <2>1. Loaded(f) = g
    BY <1>1 DEF Loaded
  <2>2. /\ f.n \in Nat /\ f.n <= MAX_IDENTITY_ENTRIES
        /\ f.blob \in Seq(Entries(t)) /\ Blank \in Entries(t)
    BY CacheAssumption DEF FlashType, TableType, Blank, Entries, Name
  <2>3. g \in [1 .. f.n -> Entries(t)]
    BY <2>2
  <2> HIDE DEF g
  <2>4. g \in Seq(Entries(t)) /\ Len(g) = f.n /\ DOMAIN g = 1 .. f.n
    BY <2>2, <2>3, FunctionIsSeq
  <2>5. Ids(g) \subseteq IdsOf(t)
    BY <2>3, <2>4 DEF Ids, Entries
  <2>6. QED
    BY <2>1, <2>2, <2>4, <2>5 DEF TableType
<1>2. CASE ~(f.nSet /\ f.n <= MAX_IDENTITY_ENTRIES /\ f.blobSet /\ Len(f.blob) <= f.n)
  <2>1. Loaded(f) = <<>>
    BY <1>2 DEF Loaded
  <2>2. <<>> \in Seq(Entries(t)) /\ Len(<<>>) = 0 /\ Ids(<<>>) = {}
    BY DEF Ids
  <2>3. QED
    BY <2>1, <2>2, CacheAssumption DEF TableType
<1>3. QED
  BY <1>1, <1>2

\* Two keys that hold one table restore it.
LEMMA LoadedWritten ==
    ASSUME NEW t \in Tables, NEW f, FlashType(t, f), NEW s, TableType(t, s),
           f.blobSet, f.nSet, f.blob = s, f.n = Len(s)
    PROVE  Loaded(f) = s
<1>1. s \in Seq(Entries(t)) /\ Len(s) \in Nat /\ Len(s) <= MAX_IDENTITY_ENTRIES
  BY DEF TableType
<1>2. Loaded(f) = [i \in 1 .. Len(s) |-> IF i <= Len(s) THEN s[i] ELSE Blank]
  BY <1>1 DEF Loaded
<1>3. [i \in 1 .. Len(s) |-> IF i <= Len(s) THEN s[i] ELSE Blank] = s
  BY <1>1
<1>4. QED
  BY <1>2, <1>3

\* The bridge starts with empty tables and an empty flash.
LEMMA InitIInv == Init => IInv
<1> SUFFICES ASSUME Init PROVE IInv
  OBVIOUS
<1> USE CacheAssumption DEF Init
<1>1. \A t \in Tables : Loaded(NoBlob) = <<>> /\ Ids(<<>>) = {} /\ TableType(t, <<>>)
  BY DEF Loaded, NoBlob, Ids, TableType
<1>2. TypeOK
  <2>1. \A t \in Tables : FlashType(t, NoBlob)
    BY <1>1 DEF FlashType, NoBlob
  <2>2. /\ DOMAIN names = Tables /\ names = [t \in Tables |-> names[t]]
        /\ DOMAIN nvs = Tables /\ nvs = [t \in Tables |-> nvs[t]]
        /\ kept = [t \in Tables |-> kept[t]]
    OBVIOUS
  <2>3. \A t \in Tables : names[t] = <<>> /\ nvs[t] = NoBlob /\ kept[t] = {}
    OBVIOUS
  <2>4. dirty \in BOOLEAN
    OBVIOUS
  <2>5. saveAge \in 0 .. SAVE_DEBOUNCE /\ phase = "idle"
    OBVIOUS
  <2>6. latest \in [NodeIds \cup Fingerprints -> Versions \cup {0}]
    OBVIOUS
  <2>7. QED
    BY ONLY <1>1, <2>1, <2>2, <2>3, <2>4, <2>5, <2>6 DEF TypeOK
<1>3. KeptInMemory /\ SaveInv
  BY DEF KeptInMemory, SaveInv
<1>4. CleanIsRestorable /\ OnlyTornTablesAreLost
  BY <1>1 DEF CleanIsRestorable, OnlyTornTablesAreLost
<1>5. LookupIsLatest
  BY DEF LookupIsLatest, IdsOf
<1>6. QED
  BY <1>2, <1>3, <1>4, <1>5 DEF IInv

\* A name that the table takes.
LEMMA UpdateIInv ==
    ASSUME IInv, NEW t \in Tables, NEW id \in IdsOf(t), NEW v \in Versions,
           UpdateName(t, id, v)
    PROVE  IInv'
<1> DEFINE s == Stored(names[t], id, Name(id, v))
<1>1. /\ names' = [names EXCEPT ![t] = s] /\ dirty' = TRUE /\ phase' \in {"idle", "open"}
      /\ latest' = [latest EXCEPT ![id] = v] /\ id \in Ids(s)
      /\ UNCHANGED <<saveAge, nvs, kept>>
  BY DEF UpdateName, SaveIfNeeded
<1>2. /\ TableType(t, s) /\ Ids(names[t]) \subseteq Ids(s)
      /\ GetName(s, id) = Name(id, v)
      /\ \A o \in IdsOf(t) \ {id} : GetName(s, o) = GetName(names[t], o)
  BY <1>1, StoredCases DEF IInv, TypeOK
<1>3. /\ names'[t] = s /\ \A u \in Tables \ {t} : names'[u] = names[u]
      /\ DOMAIN names' = Tables /\ names' = [u \in Tables |-> names'[u]]
  BY <1>1 DEF IInv, TypeOK
<1> HIDE DEF s
<1>4. id \in NodeIds \cup Fingerprints
  BY DEF IdsOf
<1>5. TypeOK'
  BY <1>1, <1>2, <1>3, <1>4 DEF IInv, TypeOK
<1>6. SaveInv'
  BY <1>1 DEF SaveInv
<1>7. KeptInMemory'
  BY <1>1, <1>2, <1>3 DEF IInv, KeptInMemory
<1>8. CleanIsRestorable' /\ OnlyTornTablesAreLost'
  BY <1>1 DEF IInv, CleanIsRestorable, OnlyTornTablesAreLost
<1>9. LookupIsLatest'
  <2>1. ASSUME NEW u \in Tables, NEW o \in IdsOf(u), latest'[o] # 0
        PROVE  GetName(names'[u], o) = Name(o, latest'[o])
    <3>1. CASE u = t /\ o = id
      BY <1>1, <1>2, <1>3, <1>4, <3>1 DEF IInv, TypeOK
    <3>2. CASE o # id
      <4>1. latest'[o] = latest[o]
        BY <1>1, <3>2 DEF IInv, TypeOK
      <4>2. GetName(names'[u], o) = GetName(names[u], o)
        BY <1>2, <1>3, <3>2
      <4>3. QED
        BY <2>1, <4>1, <4>2 DEF IInv, LookupIsLatest
    <3>3. CASE u # t
      <4>1. o # id
        BY <3>3, CacheAssumption DEF IdsOf, Tables
      <4>2. QED
        BY <3>2, <4>1
    <3>4. QED
      BY <3>1, <3>2, <3>3
  <2>2. QED
    BY <2>1 DEF LookupIsLatest
<1>10. QED
  BY <1>5, <1>6, <1>7, <1>8, <1>9 DEF IInv

\* A write of one key.
LEMMA WriteIInv ==
    ASSUME IInv, NEW key \in {"mesh", "mesh_n", "ble", "ble_n"}, Write(key)
    PROVE  IInv'
<1> DEFINE t == TableOf(key)
           f == IF key \in Tables
                THEN [nvs[t] EXCEPT !.blob = names[t], !.blobSet = TRUE]
                ELSE [nvs[t] EXCEPT !.n = Len(names[t]), !.nSet = TRUE]
<1>1. /\ nvs' = [nvs EXCEPT ![t] = f]
      /\ phase = key /\ phase' = After(key)
      /\ UNCHANGED <<names, dirty, saveAge, kept, latest>>
      /\ t \in Tables
  BY DEF Write, TableOf, Tables
<1>2. FlashType(t, f)
  <2>1. FlashType(t, nvs[t]) /\ TableType(t, names[t])
    BY <1>1 DEF IInv, TypeOK
  <2>2. Len(names[t]) \in 0 .. MAX_IDENTITY_ENTRIES
    BY <2>1, CacheAssumption DEF TableType
  <2> HIDE DEF t
  <2>3. QED
    BY <2>1, <2>2 DEF FlashType
<1>3. /\ nvs'[t] = f /\ \A u \in Tables \ {t} : nvs'[u] = nvs[u]
      /\ DOMAIN nvs' = Tables /\ nvs' = [u \in Tables |-> nvs'[u]]
  BY <1>1 DEF IInv, TypeOK
<1>4. TypeOK'
  <2>1. phase' \in {"mesh_n", "ble", "ble_n", "close"}
    BY <1>1 DEF After
  <2> HIDE DEF f, t
  <2>2. QED
    BY <1>1, <1>2, <1>3, <2>1 DEF IInv, TypeOK
<1>5. SaveInv'
  BY <1>1, <1>3 DEF IInv, TypeOK, FlashType, SaveInv, BlobWritten, CountWritten,
                    After, TableOf, Tables
<1>6. KeptInMemory' /\ LookupIsLatest'
  BY <1>1 DEF IInv, KeptInMemory, LookupIsLatest
<1>7. CleanIsRestorable'
  BY <1>5, <1>1 DEF CleanIsRestorable, After
<1>8. OnlyTornTablesAreLost'
  <2>1. ASSUME NEW u \in Tables, ~Torn(nvs'[u])
        PROVE  kept[u] \subseteq Ids(Loaded(nvs'[u]))
    <3>1. CASE u # t
      BY <1>3, <2>1, <3>1 DEF IInv, OnlyTornTablesAreLost
    <3>2. CASE u = t
      <4>1. f.blob = names[t] /\ f.blobSet
        BY <1>1 DEF IInv, TypeOK, FlashType, SaveInv, BlobWritten, TableOf, Tables
      <4>2. f.nSet /\ f.n = Len(names[t])
        <5>1. ~Torn(f) /\ f.nSet \in BOOLEAN /\ f.blobSet = TRUE
          BY <1>2, <1>3, <2>1, <3>2, <4>1 DEF FlashType
        <5> HIDE DEF f
        <5>2. QED
          BY <4>1, <5>1 DEF Torn
      <4>3. Loaded(f) = names[t]
        <5> HIDE DEF f
        <5>1. QED
          BY <1>1, <1>2, <4>1, <4>2, LoadedWritten DEF IInv, TypeOK
      <4>4. QED
        BY <1>1, <1>3, <3>2, <4>3 DEF IInv, KeptInMemory
    <3>3. QED
      BY <3>1, <3>2
  <2>2. QED
    BY <1>1, <2>1 DEF OnlyTornTablesAreLost
<1>9. QED
  BY <1>4, <1>5, <1>6, <1>7, <1>8 DEF IInv

\* The steps of save() around its writes.
LEMMA SaveStepIInv ==
    ASSUME IInv, OpenFails \/ OpenSucceeds \/ SaveDone
    PROVE  IInv'
<1>1. CASE OpenFails \/ OpenSucceeds
  <2>1. /\ phase = "open" /\ phase' \in {"idle", "mesh"}
        /\ UNCHANGED <<names, dirty, saveAge, nvs, kept, latest>>
    BY <1>1 DEF OpenFails, OpenSucceeds
  <2>2. dirty
    BY <2>1 DEF IInv, SaveInv
  <2>3. TypeOK' /\ KeptInMemory' /\ OnlyTornTablesAreLost' /\ LookupIsLatest'
    BY <2>1 DEF IInv, TypeOK, KeptInMemory, OnlyTornTablesAreLost, LookupIsLatest
  <2>4. SaveInv' /\ CleanIsRestorable'
    BY <2>1, <2>2 DEF SaveInv, CleanIsRestorable
  <2>5. QED
    BY <2>3, <2>4 DEF IInv
<1>2. CASE SaveDone
  <2>1. /\ phase = "close" /\ phase' = "idle" /\ dirty' = FALSE /\ saveAge' = 0
        /\ kept' = [t \in Tables |-> Ids(names[t])]
        /\ UNCHANGED <<names, nvs, latest>>
    BY <1>2 DEF SaveDone
  <2>2. \A t \in Tables : BlobWritten(t) /\ CountWritten(t)
    BY <2>1 DEF IInv, SaveInv, Tables
  <2>3. \A t \in Tables : Loaded(nvs[t]) = names[t]
    BY <2>2, LoadedWritten DEF IInv, TypeOK, BlobWritten, CountWritten
  <2>4. \A t \in Tables : Ids(names[t]) \subseteq IdsOf(t)
    <3>1. ASSUME NEW t \in Tables
          PROVE  Ids(names[t]) \subseteq IdsOf(t)
      <4>1. names[t] \in Seq(Entries(t))
        BY DEF IInv, TypeOK, TableType
      <4>2. \A i \in DOMAIN names[t] : names[t][i] \in Entries(t)
        BY <4>1
      <4>3. QED
        BY <4>2 DEF Ids, Entries
    <3>2. QED
      BY <3>1
  <2>5. TypeOK'
    <3>1. saveAge' \in 0 .. SAVE_DEBOUNCE
      BY <2>1, CacheAssumption
    <3>2. dirty' \in BOOLEAN
      BY <2>1
    <3>3. kept' = [t \in Tables |-> kept'[t]] /\ \A t \in Tables : kept'[t] \subseteq IdsOf(t)
      BY <2>1, <2>4
    <3>4. QED
      BY <2>1, <3>1, <3>2, <3>3 DEF IInv, TypeOK
  <2>6. SaveInv' /\ KeptInMemory'
    BY <2>1 DEF SaveInv, KeptInMemory
  <2>7. CleanIsRestorable' /\ OnlyTornTablesAreLost'
    BY <2>1, <2>3 DEF CleanIsRestorable, OnlyTornTablesAreLost
  <2>8. LookupIsLatest'
    BY <2>1 DEF IInv, LookupIsLatest
  <2>9. QED
    BY <2>5, <2>6, <2>7, <2>8 DEF IInv
<1>3. QED
  BY <1>1, <1>2

\* A reset, wherever it falls.
LEMMA RestartIInv ==
    ASSUME IInv, Restart
    PROVE  IInv'
<1>1. /\ names' = [t \in Tables |-> Loaded(nvs[t])]
      /\ dirty' = FALSE /\ saveAge' = SAVE_DEBOUNCE /\ phase' = "idle"
      /\ kept' = [t \in Tables |-> Ids(Loaded(nvs[t]))]
      /\ latest' = [id \in NodeIds \cup Fingerprints |-> 0]
      /\ nvs' = nvs
  BY DEF Restart
<1>2. \A t \in Tables : /\ TableType(t, Loaded(nvs[t]))
                         /\ Ids(Loaded(nvs[t])) \subseteq IdsOf(t)
  BY LoadedType DEF IInv, TypeOK
<1>3. TypeOK'
  <2>1. dirty' \in BOOLEAN /\ phase' = "idle"
    BY <1>1
  <2>2. saveAge' \in 0 .. SAVE_DEBOUNCE
    BY <1>1, CacheAssumption
  <2>3. latest' \in [NodeIds \cup Fingerprints -> Versions \cup {0}]
    BY <1>1
  <2>4. /\ DOMAIN names' = Tables /\ names' = [t \in Tables |-> names'[t]]
        /\ kept' = [t \in Tables |-> kept'[t]]
        /\ \A t \in Tables : TableType(t, names'[t]) /\ kept'[t] \subseteq IdsOf(t)
    BY <1>1, <1>2
  <2>5. QED
    BY <1>1, <2>1, <2>2, <2>3, <2>4 DEF IInv, TypeOK
<1>4. SaveInv' /\ KeptInMemory' /\ CleanIsRestorable' /\ OnlyTornTablesAreLost'
  BY <1>1 DEF SaveInv, KeptInMemory, CleanIsRestorable, OnlyTornTablesAreLost
<1>5. LookupIsLatest'
  BY <1>1 DEF LookupIsLatest, IdsOf
<1>6. QED
  BY <1>3, <1>4, <1>5 DEF IInv

\* Every step preserves the invariant.
LEMMA NextIInv == IInv /\ [Next]_vars => IInv'
<1> SUFFICES ASSUME IInv, [Next]_vars PROVE IInv'
  OBVIOUS
<1>1. CASE Hear
  <2>1. PICK t \in Tables : \E id \in IdsOf(t), v \in Versions :
                UpdateName(t, id, v) \/ RefuseName(t, id, v)
    BY <1>1 DEF Hear
  <2>2. PICK id \in IdsOf(t), v \in Versions : UpdateName(t, id, v) \/ RefuseName(t, id, v)
    BY <2>1
  <2>3. CASE UpdateName(t, id, v)
    BY <2>3, UpdateIInv
  <2>4. CASE RefuseName(t, id, v)
    <3>1. UNCHANGED vars
      BY <2>4 DEF RefuseName
    <3>2. QED
      BY <3>1 DEF vars, IInv, TypeOK, SaveInv, BlobWritten, CountWritten, KeptInMemory,
                  CleanIsRestorable, OnlyTornTablesAreLost, LookupIsLatest
  <2>5. QED
    BY <2>2, <2>3, <2>4
<1>2. CASE Save
  BY <1>2, SaveStepIInv, WriteIInv DEF Save
<1>3. CASE Tick
  <2>1. /\ saveAge' \in 0 .. SAVE_DEBOUNCE
        /\ UNCHANGED <<names, dirty, phase, nvs, kept, latest>>
    BY <1>3, CacheAssumption DEF Tick, IInv, TypeOK
  <2>2. QED
    BY <2>1 DEF IInv, TypeOK, SaveInv, BlobWritten, CountWritten, KeptInMemory,
                CleanIsRestorable, OnlyTornTablesAreLost, LookupIsLatest
<1>4. CASE Restart
  BY <1>4, RestartIInv
<1>5. CASE UNCHANGED vars
  BY <1>5 DEF vars, IInv, TypeOK, SaveInv, BlobWritten, CountWritten, KeptInMemory,
              CleanIsRestorable, OnlyTornTablesAreLost, LookupIsLatest
<1>6. QED
  BY <1>1, <1>2, <1>3, <1>4, <1>5 DEF Next

LEMMA SpecIInv == Spec => []IInv
BY InitIInv, NextIInv, PTL DEF Spec

-----------------------------------------------------------------------------
(* Theorems                                                                  *)

\* The tables stay within their arrays and every value keeps its type, across
\* updates, saves and load() after any reset.
THEOREM CacheTypeCorrect == Spec => []TypeOK
BY SpecIInv, PTL DEF IInv

\* _dirty tells the truth: while it is not set, the image in flash restores
\* exactly the tables in memory, whatever resets have cut short before.
THEOREM CacheCleanIsRestorable == Spec => []CleanIsRestorable
BY SpecIInv, PTL DEF IInv

\* A reset at any step of save() costs nothing that was saved or restored,
\* except in a table whose two keys are of different saves.
THEOREM CacheLosesOnlyTornTables == Spec => []OnlyTornTablesAreLost
BY SpecIInv, PTL DEF IInv

\* get_mesh_name and get_ble_name answer with the name registered last.
THEOREM CacheLookupIsLatest == Spec => []LookupIsLatest
BY SpecIInv, PTL DEF IInv
=============================================================================
