---------------------------- MODULE MeshInbound ----------------------------
(***************************************************************************)
(* What MeshtasticTCP makes of the frames a radio sends: the config phase    *)
(* with the radio's own number, the node directory, the filter for the       *)
(* bridge's own packets, and the rate limits on positions and telemetry.     *)
(*                                                                           *)
(* A session may be with another radio than the one before.  The times of    *)
(* the last reports are kept as ages, which stop at the interval they are    *)
(* compared with; last_pos_ms = 0, never reported, is that same age.         *)
(***************************************************************************)
EXTENDS MeshProto

CONSTANTS
    Nodes,                   \* numbers of other nodes of the mesh
    Radios,                  \* numbers of the radios the bridge connects to
    BridgeNum,               \* _bridge_node_num, once BridgeManager has set it
    MAX_NODES,
    POSITION_FORWARD_MIN,
    TELEMETRY_FORWARD_MIN,
    ForwardedKinds,          \* the kinds of report the build forwards
    RxTimes                  \* values of rx_time, 0 for none
ASSUME InboundAssumption ==
    /\ Nodes \cup Radios \cup {BridgeNum} \subseteq Nat \ {0}
    /\ BridgeNum \notin Nodes \cup Radios
    /\ MAX_NODES \in Nat
    /\ POSITION_FORWARD_MIN \in Nat /\ TELEMETRY_FORWARD_MIN \in Nat
    /\ ForwardedKinds \subseteq {"POSITION", "TELEMETRY"}
    /\ RxTimes \subseteq Nat

VARIABLES
    radio,     \* the number of the radio of this session
    nonce,     \* _config_nonce, modulo 2
    told,      \* the radio has sent its MyNodeInfo in this session
    config,    \* _config_complete
    mine,      \* _my_node_id
    bridge,    \* _bridge_node_num
    nodes,     \* _nodes up to _node_count
    synced,    \* time_is_synced()
    out,       \* the message handed to _on_message in this step, or the kind and
               \* sender of a report dropped by its rate limit
    reported   \* history: age of the last report handed on, by node and kind

vars == <<radio, nonce, told, config, mine, bridge, nodes, synced, out, reported>>

Kinds == {"POSITION", "TELEMETRY"}

Interval(kind) == IF kind = "POSITION" THEN POSITION_FORWARD_MIN ELSE TELEMETRY_FORWARD_MIN

NoReports == [kind \in Kinds |-> Interval(kind)]

\* A radio the bridge is not connected to is a node of the mesh like the others.
Senders == Nodes \cup Radios

NoMessage == [kind |-> "NONE", limited |-> "NONE", from |-> 0, name |-> <<>>, text |-> <<>>]

\* "!%08x" of a node's number: what User.id holds, and the name of a node that
\* has no other.
Hex(n) == <<"hex", n>>

\* 2020-01-01, from which a time is believed.
EPOCH_2020 == 2

-----------------------------------------------------------------------------
(* The frames a radio sends                                                  *)

MyInfo == <<Field(3, "bytes", <<Field(1, "fixed32", radio)>>)>>

Complete(n) == <<Field(7, "varint", n)>>

NodeInfo(n) ==
    <<Field(4, "bytes", <<Field(1, "fixed32", n),
          Field(2, "bytes", encode_user(Hex(n), <<"long", n>>, <<"short", n>>))>>)>>

\* A MeshPacket as encode_mesh_packet lays it out, with the time that
\* parse_from_radio looks for.
Packet(from, rx_time, data) ==
    <<Field(2, "bytes", encode_mesh_packet(from, 0, 1, 0, 3, data)
          \o (IF rx_time # 0 THEN <<Field(9, "fixed32", rx_time)>> ELSE <<>>))>>

Text == encode_data(PORTNUM_TEXT_MESSAGE_APP, <<"text">>)

Position == encode_data(PORTNUM_POSITION_APP,
                <<Field(1, "fixed32", 1499), Field(2, "fixed32", 1500)>>)

\* Only the first coordinate can be read.
BrokenPosition == encode_data(PORTNUM_POSITION_APP,
                      <<Field(1, "fixed32", 1499), Field(9, "group", 0),
                        Field(2, "fixed32", 1500)>>)

Battery == encode_data(PORTNUM_TELEMETRY_APP,
               <<Field(2, "bytes", <<Field(1, "varint", 90)>>)>>)

Weather == encode_data(PORTNUM_TELEMETRY_APP,
               <<Field(2, "bytes", <<>>), Field(3, "bytes", <<Field(1, "fixed32", 20)>>)>>)

\* The NodeInfo of the bridge's own node, heard again.
BridgeInfo ==
    Packet(BridgeNum, 0, encode_data(PORTNUM_NODEINFO_APP,
        encode_user(Hex(BridgeNum), <<"long", BridgeNum>>, <<"short", BridgeNum>>)))

Frames ==
    {MyInfo, BridgeInfo} \cup {NodeInfo(n) : n \in Senders}
        \cup (IF told THEN {Complete(0), Complete(1)} ELSE {})
        \cup {Packet(n, t, p) : n \in Nodes, t \in RxTimes,
                 p \in {Text, Position, BrokenPosition, Battery, Weather}}
        \cup {Packet(n, 0, p) : n \in Radios, p \in {Text, Position}}

-----------------------------------------------------------------------------
(* The node directory                                                        *)

NewEntry(n) == [id |-> n, long_name |-> <<>>, short_name |-> <<>>, age |-> NoReports]

Positions(dir, n) == {i \in DOMAIN dir : dir[i].id = n}

The(I) == CHOOSE i \in I : \A j \in I : i <= j

\* The directory in which _find_or_create_node has looked for the node.
FindOrCreate(dir, n) ==
    IF Positions(dir, n) # {} \/ Len(dir) = MAX_NODES THEN dir ELSE Append(dir, NewEntry(n))

\* Mutant of StoreNodeInfo: the entry is replaced, with its report times.
StoreNodeInfoAnew(dir, ni) ==
    LET d == FindOrCreate(dir, ni.node_num)
        I == Positions(d, ni.node_num)
    IN  IF I = {} THEN d
        ELSE [d EXCEPT ![The(I)] = [NewEntry(ni.node_num) EXCEPT
                  !.long_name = ni.long_name, !.short_name = ni.short_name]]

\* _store_node_info: names go to the node's entry, if there is one or room for it.
StoreNodeInfo(dir, ni) ==
    LET d == FindOrCreate(dir, ni.node_num)
        I == Positions(d, ni.node_num)
    IN  IF I = {} THEN d
        ELSE [d EXCEPT ![The(I)].long_name = ni.long_name,
                       ![The(I)].short_name = ni.short_name]

Learn(dir, frame) ==
    LET ni == parse_node_info(frame)
    IN  IF ni.valid THEN StoreNodeInfo(dir, ni) ELSE dir

\* The node's name in the directory, or else its number.
GetNodeName(dir, n) ==
    LET I == {i \in Positions(dir, n) : dir[i].long_name # <<>>}
    IN  IF I = {} THEN Hex(n) ELSE dir[The(I)].long_name

-----------------------------------------------------------------------------
(* _handle_from_radio                                                        *)

\* time_sync_from_epoch: the first plausible time is taken, later ones are not.
Sync(msg) == synced \/ msg.rx_time >= EPOCH_2020

\* Mutant of ReadMyInfo: a number that is known is not read again.
ReadMyInfoOnce(frame) == IF mine # 0 THEN mine ELSE my_node_num(frame, 0)

ReadMyInfo(frame) == my_node_num(frame, mine)

\* Until the config is complete, frames are only read for numbers and names.
HandleConfig(frame) ==
    /\ ~config
    /\ mine' = ReadMyInfo(frame)
    /\ nodes' = Learn(nodes, frame)
    /\ config' = is_config_complete(frame, nonce)
    /\ out' = NoMessage
    /\ UNCHANGED <<bridge, synced, reported>>

IsOwn(msg) == (msg.from = mine /\ mine # 0) \/ (msg.from = bridge /\ bridge # 0)

\* A frame with nothing to bridge may still hold a NodeInfo.
HandleOther(frame, msg) ==
    /\ config
    /\ msg.kind = "NONE"
    /\ synced' = Sync(msg)
    /\ nodes' = Learn(nodes, frame)
    /\ out' = NoMessage
    /\ UNCHANGED <<config, mine, bridge, reported>>

\* The bridge's own packet, or a report that the build does not forward.
DropPacket(msg) ==
    /\ config
    /\ msg.kind # "NONE"
    /\ IsOwn(msg) \/ msg.kind \in Kinds \ ForwardedKinds
    /\ synced' = Sync(msg)
    /\ out' = NoMessage
    /\ UNCHANGED <<config, mine, bridge, nodes, reported>>

\* The report comes too soon after the node's last one.
Limited(dir, msg) ==
    /\ msg.kind \in Kinds
    /\ \E i \in Positions(dir, msg.from) : dir[i].age[msg.kind] < Interval(msg.kind)

\* The directory with the report's time noted, if the node has an entry.
Noted(dir, msg) ==
    LET I == Positions(dir, msg.from)
    IN  IF I = {} THEN dir ELSE [dir EXCEPT ![The(I)].age[msg.kind] = 0]

\* Mutant of AfterLimit: a report that is dropped starts the interval anew.
AfterLimitNoted(dir, msg) == Noted(dir, msg)

AfterLimit(dir, msg) == dir

LimitReport(msg) ==
    LET dir == FindOrCreate(nodes, msg.from)
    IN  /\ config
        /\ msg.kind \in ForwardedKinds
        /\ ~IsOwn(msg)
        /\ Limited(dir, msg)
        /\ synced' = Sync(msg)
        /\ nodes' = AfterLimit(dir, msg)
        /\ out' = [NoMessage EXCEPT !.limited = msg.kind, !.from = msg.from]
        /\ UNCHANGED <<config, mine, bridge, reported>>

\* HH:MM:SS of the time the packet was received is appended to a report.
Stamp(msg) ==
    IF msg.kind \in Kinds /\ msg.rx_time > 0
    THEN msg.text \o <<"@", (msg.rx_time \div 3600) % 24, (msg.rx_time \div 60) % 60,
                       msg.rx_time % 60>>
    ELSE msg.text

\* The message goes to BridgeManager, named as the directory stands before the
\* frame itself is read for a NodeInfo.
Forward(frame, msg) ==
    LET dir == IF msg.kind \in Kinds THEN Noted(FindOrCreate(nodes, msg.from), msg)
               ELSE nodes
    IN  /\ config
        /\ msg.kind \in {"TEXT"} \cup ForwardedKinds
        /\ ~IsOwn(msg)
        /\ ~Limited(FindOrCreate(nodes, msg.from), msg)
        /\ synced' = Sync(msg)
        /\ nodes' = Learn(dir, frame)
        /\ out' = [kind |-> msg.kind, limited |-> "NONE", from |-> msg.from,
                   name |-> GetNodeName(dir, msg.from), text |-> Stamp(msg)]
        /\ reported' = IF msg.kind \in Kinds
                       THEN [reported EXCEPT ![msg.from][msg.kind] = 0] ELSE reported
        /\ UNCHANGED <<config, mine, bridge>>

HandleFromRadio(frame) ==
    /\ LET msg == parse_from_radio(frame)
       IN  HandleConfig(frame) \/ HandleOther(frame, msg) \/ DropPacket(msg)
               \/ LimitReport(msg) \/ Forward(frame, msg)
    /\ told' = (told \/ frame = MyInfo)
    /\ UNCHANGED <<radio, nonce>>

-----------------------------------------------------------------------------
(* Sessions, time and resets                                                 *)

Init ==
    /\ radio \in Radios
    /\ nonce = 0
    /\ told = FALSE
    /\ config = FALSE
    /\ mine = 0
    /\ bridge = 0
    /\ nodes = <<>>
    /\ synced = FALSE
    /\ out = NoMessage
    /\ reported = [n \in Senders |-> NoReports]

\* connect(): a new session, maybe with another radio, under a new nonce.
\* What the bridge knows of the mesh and of itself stays.
Connect ==
    /\ radio' \in Radios
    /\ nonce' = 1 - nonce
    /\ told' = FALSE
    /\ config' = FALSE
    /\ out' = NoMessage
    /\ UNCHANGED <<mine, bridge, nodes, synced, reported>>

\* BridgeManager sees the link up and names the bridge's own node.
SendNodeInfo ==
    /\ config
    /\ bridge = 0
    /\ bridge' = BridgeNum
    /\ out' = NoMessage
    /\ UNCHANGED <<radio, nonce, told, config, mine, nodes, synced, reported>>

Older(ages) == [kind \in Kinds |-> IF ages[kind] < Interval(kind) THEN ages[kind] + 1
                                   ELSE ages[kind]]

Tick ==
    /\ nodes' = [i \in DOMAIN nodes |-> [nodes[i] EXCEPT !.age = Older(@)]]
    /\ reported' = [n \in Senders |-> Older(reported[n])]
    /\ out' = NoMessage
    /\ UNCHANGED <<radio, nonce, told, config, mine, bridge, synced>>

Next ==
    \/ \E frame \in Frames : HandleFromRadio(frame)
    \/ Connect
    \/ SendNodeInfo
    \/ Tick

Spec == Init /\ [][Next]_vars /\ WF_vars(Tick)

-----------------------------------------------------------------------------
(* Properties                                                                *)

Ages == [Kinds -> Nat]

\* Every variable keeps its type; the directory stays within its array.
TypeOK ==
    /\ radio \in Radios /\ nonce \in {0, 1}
    /\ told \in BOOLEAN /\ config \in BOOLEAN /\ synced \in BOOLEAN
    /\ mine \in Radios \cup {0}
    /\ bridge \in {0, BridgeNum}
    /\ Len(nodes) <= MAX_NODES
    /\ \A i \in DOMAIN nodes : nodes[i].id \in Senders /\ nodes[i].age \in Ages
    /\ reported \in [Senders -> Ages]

\* What the radio of this session sends under its own number is never taken
\* for a message of the mesh, also after the bridge has moved to another radio.
OwnRadioNotBridged == out.kind # "NONE" => out.from # radio

\* Two reports of one kind from one node are at least the interval apart,
\* except for nodes that found the directory full.
ReportsSpaced ==
    [][out'.kind \in Kinds
         => \/ reported[out'.from][out'.kind] = Interval(out'.kind)
            \/ Len(nodes) = MAX_NODES /\ Positions(nodes, out'.from) = {}]_vars

\* A node that reports faster than the limit is not silenced by it: while its
\* reports are being dropped again and again, others are handed on again and
\* again.
ReportsKeepComing ==
    \A n \in Nodes, kind \in Kinds :
        []<>(out.limited = kind /\ out.from = n) => []<>(out.kind = kind /\ out.from = n)
=============================================================================
