----------------------------- MODULE NameCache -----------------------------
(***************************************************************************)
(* IdentityMapper: the names of Meshtastic nodes and of Bitchat peers, each  *)
(* in a table of MAX_IDENTITY_ENTRIES, saved to NVS at most once per         *)
(* debounce interval and loaded again when the bridge starts.                *)
(*                                                                           *)
(* save() runs inside the update that triggers it, so nothing but a reset    *)
(* comes between its four writes.  A write to NVS is atomic and lasting by   *)
(* itself (external): a reset between two of them leaves the first ones done.*)
(*                                                                           *)
(* The time of the last save is kept as its age.  The age stops at the       *)
(* debounce interval, where it no longer matters; _last_save_ms = 0, never   *)
(* saved, is that same age.  The wrap of millis() is left out: 49.7 days     *)
(* after a save the age would start again.                                   *)
(***************************************************************************)
EXTENDS Naturals, Sequences

CONSTANTS
    NodeIds,               \* Meshtastic node ids
    Fingerprints,          \* fingerprints of Bitchat peers
    Versions,              \* a user's successive names
    NoId,                  \* the zero id of an entry never filled
    MAX_IDENTITY_ENTRIES,
    SAVE_DEBOUNCE

ASSUME CacheAssumption ==
    /\ NoId \notin NodeIds \cup Fingerprints
    /\ NodeIds \cap Fingerprints = {}
    /\ MAX_IDENTITY_ENTRIES \in Nat \ {0}
    /\ SAVE_DEBOUNCE \in Nat

VARIABLES
    names,     \* names[t]: _mesh_names and _ble_names up to their counts
    dirty,     \* _dirty
    saveAge,   \* time since _last_save_ms, at most SAVE_DEBOUNCE
    phase,     \* "idle", or the next step of save()
    nvs,       \* nvs[t]: the blob and the count under the table's two keys
    kept,      \* history: the ids restored at start or saved since
    latest     \* history: the last name registered since the start, by id

vars == <<names, dirty, saveAge, phase, nvs, kept, latest>>

Tables == {"mesh", "ble"}

IdsOf(t) == IF t = "mesh" THEN NodeIds ELSE Fingerprints

Name(id, v) == [of |-> id, ver |-> v]

Blank == [id |-> NoId, name |-> Name(NoId, 0)]

Ids(s) == {s[i].id : i \in DOMAIN s} \ {NoId}

-----------------------------------------------------------------------------
(* The tables                                                                *)

\* Mutant of Entry: the search starts behind the first entry.
EntryAfterFirst(s, id) == {i \in 2 .. Len(s) : s[i].id = id}

\* The entries with this id.
Entry(s, id) == {i \in 1 .. Len(s) : s[i].id = id}

\* The first of some entries.
FirstOf(I) == CHOOSE i \in I : \A j \in I : i <= j

\* get_mesh_name and get_ble_name: the first entry with the id and a name.
GetName(s, id) ==
    LET hits == {i \in 1 .. Len(s) : s[i].id = id /\ s[i].name # Blank.name}
    IN  IF hits = {} THEN Blank.name ELSE s[FirstOf(hits)].name

\* Mutant of Stored: a full table gives up its last entry.
StoredByEviction(s, id, name) ==
    LET hits == Entry(s, id)
    IN  IF hits # {} THEN [s EXCEPT ![FirstOf(hits)].name = name]
        ELSE IF Len(s) < MAX_IDENTITY_ENTRIES
             THEN Append(s, [id |-> id, name |-> name])
             ELSE [s EXCEPT ![Len(s)] = [id |-> id, name |-> name]]

\* The table after a name is registered: its entry is updated or, if there is
\* room, a new one is added.
Stored(s, id, name) ==
    LET hits == Entry(s, id)
    IN  CASE hits # {} -> [s EXCEPT ![FirstOf(hits)].name = name]
          [] hits = {} /\ Len(s) < MAX_IDENTITY_ENTRIES ->
                 Append(s, [id |-> id, name |-> name])
          [] OTHER -> s

-----------------------------------------------------------------------------
(* load()                                                                    *)

NoBlob == [blob |-> <<>>, n |-> 0, blobSet |-> FALSE, nSet |-> FALSE]

\* The table that load() makes of the two keys.  A blob longer than the count
\* says is refused with its table left empty; behind a shorter one the entries
\* stay as they were initialised.
Loaded(f) ==
    IF f.nSet /\ f.n <= MAX_IDENTITY_ENTRIES /\ f.blobSet /\ Len(f.blob) <= f.n
    THEN [i \in 1 .. f.n |-> IF i <= Len(f.blob) THEN f.blob[i] ELSE Blank]
    ELSE <<>>

Init ==
    /\ names = [t \in Tables |-> <<>>]
    /\ dirty = FALSE
    /\ saveAge = SAVE_DEBOUNCE
    /\ phase = "idle"
    /\ nvs = [t \in Tables |-> NoBlob]
    /\ kept = [t \in Tables |-> {}]
    /\ latest = [id \in NodeIds \cup Fingerprints |-> 0]

\* The bridge is reset, at any moment, and starts again with load().
Restart ==
    LET loaded == [t \in Tables |-> Loaded(nvs[t])]
    IN  /\ names' = loaded
        /\ dirty' = FALSE
        /\ saveAge' = SAVE_DEBOUNCE
        /\ phase' = "idle"
        /\ kept' = [t \in Tables |-> Ids(loaded[t])]
        /\ latest' = [id \in NodeIds \cup Fingerprints |-> 0]
        /\ UNCHANGED nvs

-----------------------------------------------------------------------------
(* update_mesh_name, update_ble_name and save()                              *)

\* Mutant of SaveIfNeeded: once saved, never again.
SaveOnce == IF \E t \in Tables : nvs[t].nSet THEN "idle" ELSE "open"

\* _save_if_needed: within the debounce interval the table stays dirty.
SaveIfNeeded == IF saveAge < SAVE_DEBOUNCE THEN "idle" ELSE "open"

\* A message brings the sender's current name; on_meshtastic_message and
\* on_bitchat_message pass on no empty one.
UpdateName(t, id, v) ==
    LET s == Stored(names[t], id, Name(id, v))
    IN  /\ phase = "idle"
        /\ id \in Ids(s)
        /\ names' = [names EXCEPT ![t] = s]
        /\ dirty' = TRUE
        /\ phase' = SaveIfNeeded
        /\ latest' = [latest EXCEPT ![id] = v]
        /\ UNCHANGED <<saveAge, nvs, kept>>

\* No entry and no room: the name is not taken, and nothing is saved either.
RefuseName(t, id, v) ==
    /\ phase = "idle"
    /\ id \notin Ids(Stored(names[t], id, Name(id, v)))
    /\ UNCHANGED vars

\* Mutant of OpenFails: the tables count as saved.
OpenFailsClean ==
    /\ phase = "open"
    /\ phase' = "idle"
    /\ dirty' = FALSE
    /\ UNCHANGED <<names, saveAge, nvs, kept, latest>>

\* NVS does not open: save() returns and leaves the tables dirty.
OpenFails ==
    /\ phase = "open"
    /\ phase' = "idle"
    /\ UNCHANGED <<names, dirty, saveAge, nvs, kept, latest>>

OpenSucceeds ==
    /\ phase = "open"
    /\ phase' = "mesh"
    /\ UNCHANGED <<names, dirty, saveAge, nvs, kept, latest>>

\* The step of save() after the write of this key.
After(key) ==
    CASE key = "mesh" -> "mesh_n" [] key = "mesh_n" -> "ble"
      [] key = "ble" -> "ble_n" [] key = "ble_n" -> "close"

TableOf(key) == IF key \in {"mesh", "mesh_n"} THEN "mesh" ELSE "ble"

\* nvs_set_blob of a table's entries, nvs_set_u8 of its count.
Write(key) ==
    LET t == TableOf(key)
    IN  /\ phase = key
        /\ nvs' = [nvs EXCEPT ![t] =
                     IF key \in Tables
                     THEN [@ EXCEPT !.blob = names[t], !.blobSet = TRUE]
                     ELSE [@ EXCEPT !.n = Len(names[t]), !.nSet = TRUE]]
        /\ phase' = After(key)
        /\ UNCHANGED <<names, dirty, saveAge, kept, latest>>

SaveDone ==
    /\ phase = "close"
    /\ phase' = "idle"
    /\ dirty' = FALSE
    /\ saveAge' = 0
    /\ kept' = [t \in Tables |-> Ids(names[t])]
    /\ UNCHANGED <<names, nvs, latest>>

Save == OpenFails \/ OpenSucceeds \/ SaveDone
            \/ \E key \in {"mesh", "mesh_n", "ble", "ble_n"} : Write(key)

Tick ==
    /\ phase = "idle"
    /\ saveAge < SAVE_DEBOUNCE
    /\ saveAge' = saveAge + 1
    /\ UNCHANGED <<names, dirty, phase, nvs, kept, latest>>

Hear == \E t \in Tables : \E id \in IdsOf(t), v \in Versions :
            UpdateName(t, id, v) \/ RefuseName(t, id, v)

Next == Hear \/ Save \/ Tick \/ Restart

\* save() runs to its end, the clock advances, and NVS opens at last.
Fairness ==
    /\ WF_vars(Save)
    /\ WF_vars(Tick)
    /\ SF_vars(OpenSucceeds)

Spec == Init /\ [][Next]_vars /\ Fairness

-----------------------------------------------------------------------------
(* Properties                                                                *)

Entries(t) == [id : IdsOf(t) \cup {NoId},
               name : [of : IdsOf(t) \cup {NoId}, ver : Versions \cup {0}]]

TableType(t, s) ==
    /\ s \in Seq(Entries(t))
    /\ Len(s) <= MAX_IDENTITY_ENTRIES

FlashType(t, f) ==
    /\ f = [blob |-> f.blob, n |-> f.n, blobSet |-> f.blobSet, nSet |-> f.nSet]
    /\ TableType(t, f.blob)
    /\ f.n \in 0 .. MAX_IDENTITY_ENTRIES
    /\ f.blobSet \in BOOLEAN /\ f.nSet \in BOOLEAN

\* Every variable keeps its type; the tables stay within their arrays.
TypeOK ==
    /\ DOMAIN names = Tables /\ names = [t \in Tables |-> names[t]]
    /\ DOMAIN nvs = Tables /\ nvs = [t \in Tables |-> nvs[t]]
    /\ kept = [t \in Tables |-> kept[t]]
    /\ \A t \in Tables :
           /\ TableType(t, names[t])
           /\ FlashType(t, nvs[t])
           /\ kept[t] \subseteq IdsOf(t)
    /\ dirty \in BOOLEAN
    /\ saveAge \in 0 .. SAVE_DEBOUNCE
    /\ phase \in {"idle", "open", "mesh", "mesh_n", "ble", "ble_n", "close"}
    /\ latest \in [NodeIds \cup Fingerprints -> Versions \cup {0}]

\* _dirty tells the truth: when nothing is marked to be saved, a reset would
\* bring back exactly the tables in memory, whatever resets cut short before.
CleanIsRestorable ==
    phase = "idle" /\ ~dirty => \A t \in Tables : Loaded(nvs[t]) = names[t]

\* The blob and the count of a table are of different saves.
Torn(f) == f.blobSet # f.nSet \/ Len(f.blob) # f.n

\* A reset costs nothing that was saved or restored, except in a table whose
\* blob was written and whose count was not.
OnlyTornTablesAreLost ==
    \A t \in Tables : ~Torn(nvs[t]) => kept[t] \subseteq Ids(Loaded(nvs[t]))

\* A look-up answers with the name registered last, also when updates, saves
\* and a restored table have left several entries behind.
LookupIsLatest ==
    \A t \in Tables : \A id \in IdsOf(t) :
        latest[id] # 0 => GetName(names[t], id) = Name(id, latest[id])

\* While names keep coming in that the tables take, what they hold is saved
\* again and again: the debounce delays a save and does not lose it.
SavedInTheEnd ==
    []<><<\E t \in Tables : \E id \in IdsOf(t), v \in Versions :
              UpdateName(t, id, v)>>_vars
        => []<>(phase = "idle" /\ ~dirty)
=============================================================================
