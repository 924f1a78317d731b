------------------------- MODULE MeshInboundProofs -------------------------
(***************************************************************************)
(* Proofs about what MeshtasticTCP makes of a radio's frames: its types,    *)
(* that the radio of the session is never taken for a node of the mesh, and *)
(* that reports keep their distance.                                        *)
(***************************************************************************)
EXTENDS MeshInbound, WellFoundedInduction, TLAPS

-----------------------------------------------------------------------------
(* The inductive invariant                                                  *)

\* In a session whose radio has told its number, that is the number the bridge
\* takes for its own; and no config is complete before.
KnowsRadio ==
    /\ told => mine = radio
    /\ config => told

AgeType == {a \in [Kinds -> Nat] : \A k \in Kinds : a[k] <= Interval(k)}

IsEntry(e) ==
    /\ e = [id |-> e.id, long_name |-> e.long_name, short_name |-> e.short_name,
            age |-> e.age]
    /\ e.id \in Senders /\ e.age \in AgeType

\* A directory: entries, one for a node, within the array.
IsDirectory(dir) ==
    /\ dir \in Seq({dir[i] : i \in DOMAIN dir})
    /\ Len(dir) <= MAX_NODES
    /\ \A i \in DOMAIN dir : IsEntry(dir[i])
    /\ \A i, j \in DOMAIN dir : dir[i].id = dir[j].id => i = j

\* The times in a directory are those of the reports handed on; a node without
\* an entry has reported nothing, unless it found the directory full.
AgesAgree(dir, rep) ==
    \A n \in Senders :
        /\ \A i \in DOMAIN dir : dir[i].id = n => dir[i].age = rep[n]
        /\ (\A i \in DOMAIN dir : dir[i].id # n) =>
               Len(dir) = MAX_NODES \/ rep[n] = NoReports

DirectoryInv ==
    /\ IsDirectory(nodes)
    /\ reported \in [Senders -> AgeType]
    /\ AgesAgree(nodes, reported)

IInv == TypeOK /\ KnowsRadio /\ DirectoryInv /\ OwnRadioNotBridged

-----------------------------------------------------------------------------
(* What the decoders make of the frames                                     *)

\* The only field that matches is the one that is read.
LEMMA GetOnly ==
    ASSUME NEW buf, NEW num, NEW wire, NEW default, NEW k \in Nat,
           Matching(buf, num, wire) = {k}
    PROVE  Get(buf, num, wire, default) = buf[k].val
  BY DEF Get

\* Nothing is read where nothing matches.
LEMMA GetNothing ==
    ASSUME NEW buf, NEW num, NEW wire, NEW default, Matching(buf, num, wire) = {}
    PROVE  Get(buf, num, wire, default) = default
  BY DEF Get

\* A message without fields.
LEMMA GetFromEmpty ==
    ASSUME NEW num, NEW wire, NEW default
    PROVE  Get(<<>>, num, wire, default) = default
  BY GetNothing DEF Matching, decode_fields

\* The wire types that decode_field can read.
Readable == {"varint", "bytes", "fixed32", "fixed64"}

\* A message with one field: it is read if it matches, and else nothing.
LEMMA GetFromOne ==
    ASSUME NEW n, NEW w \in Readable, NEW v, NEW buf, buf = <<Field(n, w, v)>>,
           NEW default
    PROVE  /\ Get(buf, n, w, default) = v
           /\ \A num, wire : num # n => Get(buf, num, wire, default) = default
  <1>. DEFINE f == Field(n, w, v)
  <1>1. f.num = n /\ f.wire = w /\ f.val = v
    BY DEF Field
  <1>. HIDE DEF f
  <1>2. DOMAIN buf = {1} /\ buf[1] = f
    BY DEF f
  <1>3. decode_fields(buf) = {1}
    <2>1. \A j \in 1 .. 1 : buf[j].wire \in Readable
      BY <1>1, <1>2
    <2>. QED
      BY <1>2, <2>1 DEF decode_fields, Readable
  <1>4. Matching(buf, n, w) = {1}
    BY <1>1, <1>2, <1>3 DEF Matching
  <1>5. ASSUME NEW num, NEW wire, num # n PROVE Matching(buf, num, wire) = {}
    BY <1>1, <1>2, <1>3, <1>5 DEF Matching
  <1>. QED
    BY <1>1, <1>2, <1>4, <1>5, GetOnly, GetNothing

\* A message with two fields of different numbers.
LEMMA GetFirstOfTwo ==
    ASSUME NEW n, NEW w \in {"varint", "bytes", "fixed32", "fixed64"}, NEW v,
           NEW g, g.num # n, NEW buf, buf = <<Field(n, w, v), g>>, NEW default
    PROVE  Get(buf, n, w, default) = v
  <1>. DEFINE f == Field(n, w, v)
  <1>1. f.num = n /\ f.wire = w /\ f.val = v
    BY DEF Field
  <1>. HIDE DEF f
  <1>2. DOMAIN buf = {1, 2} /\ buf[1] = f /\ buf[2] = g
    BY DEF f
  <1>3. 1 \in decode_fields(buf) /\ decode_fields(buf) \subseteq {1, 2}
    <2>1. \A j \in 1 .. 1 : buf[j].wire \in {"varint", "bytes", "fixed32", "fixed64"}
      BY <1>1, <1>2
    <2>. QED
      BY <1>2, <2>1 DEF decode_fields
  <1>4. Matching(buf, n, w) = {1}
    BY <1>1, <1>2, <1>3 DEF Matching
  <1>. QED
    BY <1>1, <1>2, <1>4, GetOnly

\* Every frame has one field; only MyNodeInfo has number 3, only the end of the
\* config has number 7, only a NodeInfo has number 4.
LEMMA FrameForms ==
    ASSUME NEW frame \in Frames
    PROVE  \/ frame = MyInfo
           \/ told /\ \E n : frame = <<Field(7, "varint", n)>>
           \/ \E n \in Senders : frame = NodeInfo(n)
           \/ \E n \in Senders : \E t, data : frame = Packet(n, t, data)
           \/ frame = BridgeInfo
  <1>1. CASE frame \in {MyInfo, BridgeInfo}
    BY <1>1
  <1>2. CASE frame \in {NodeInfo(n) : n \in Senders}
    BY <1>2
  <1>3. CASE frame \in (IF told THEN {Complete(0), Complete(1)} ELSE {})
    BY <1>3 DEF Complete
  <1>4. CASE frame \in {Packet(n, t, p) : n \in Nodes, t \in RxTimes,
                           p \in {Text, Position, BrokenPosition, Battery, Weather}}
    BY <1>4 DEF Senders
  <1>5. CASE frame \in {Packet(n, 0, p) : n \in Radios, p \in {Text, Position}}
    BY <1>5 DEF Senders
  <1>. QED
    BY <1>1, <1>2, <1>3, <1>4, <1>5 DEF Frames

\* The number a frame leaves: that of the radio from MyNodeInfo, and what was
\* known before from every other.
LEMMA MyNumber ==
    ASSUME NEW frame \in Frames
    PROVE  my_node_num(frame, mine) = IF frame = MyInfo THEN radio ELSE mine
  <1>1. CASE frame = MyInfo
    <2>. DEFINE info == <<Field(1, "fixed32", radio)>>
    <2>1. Get(info, 1, "fixed32", mine) = radio
      <3>1. "fixed32" \in Readable
        BY DEF Readable
      <3>. QED
        BY <3>1, GetFromOne
    <2>. HIDE DEF info
    <2>2. Get(frame, 3, "bytes", <<>>) = info
      <3>1. "bytes" \in Readable /\ frame = <<Field(3, "bytes", info)>>
        BY <1>1 DEF MyInfo, info, Readable
      <3>. QED
        BY <3>1, GetFromOne
    <2>. QED
      BY <1>1, <2>1, <2>2 DEF my_node_num
  <1>2. ASSUME NEW n \in {2, 4, 7}, NEW w \in {"varint", "bytes"}, NEW v,
               frame = <<Field(n, w, v)>>
        PROVE  my_node_num(frame, mine) = mine /\ frame # MyInfo
    <2>1. Get(frame, 3, "bytes", <<>>) = <<>>
      <3>1. w \in Readable /\ 3 # n
        BY <1>2 DEF Readable
      <3>. QED
        BY <1>2, <3>1, GetFromOne
    <2>2. my_node_num(frame, mine) = mine
      BY <2>1, GetFromEmpty DEF my_node_num
    <2>3. frame # MyInfo
      BY <1>2 DEF MyInfo, Field
    <2>. QED
      BY <2>2, <2>3
  <1>. QED
    BY <1>1, <1>2, FrameForms DEF NodeInfo, Packet, BridgeInfo

\* The config is complete only by a frame that is sent after MyNodeInfo.
LEMMA CompleteIsTold ==
    ASSUME NEW frame \in Frames, is_config_complete(frame, nonce)
    PROVE  told
  <1>1. PICK i \in DOMAIN frame : frame[i] = Field(7, "varint", nonce)
    BY DEF is_config_complete, decode_fields
  <1>2. ASSUME NEW n \in {2, 3, 4}, NEW w, NEW v, frame = <<Field(n, w, v)>>
        PROVE  FALSE
    BY <1>1, <1>2 DEF Field
  <1>3. frame # MyInfo
    BY <1>2 DEF MyInfo
  <1>4. ASSUME NEW n \in Senders
        PROVE  frame # NodeInfo(n)
    BY <1>2 DEF NodeInfo
  <1>5. ASSUME NEW n \in Senders, NEW t, NEW data
        PROVE  frame # Packet(n, t, data)
    BY <1>2 DEF Packet
  <1>6. frame # BridgeInfo
    BY <1>2 DEF BridgeInfo, Packet
  <1>. QED
    BY <1>3, <1>4, <1>5, <1>6, FrameForms

-----------------------------------------------------------------------------
(* Packets and NodeInfos                                                    *)

\* The elements of two sequences put together.
LEMMA ConcatAt ==
    ASSUME NEW S, NEW a \in Seq(S), NEW b \in Seq(S), NEW d, d = a \o b
    PROVE  /\ d \in Seq(S) /\ Len(d) = Len(a) + Len(b)
           /\ \A i \in 1 .. Len(a) : d[i] = a[i]
           /\ \A i \in 1 .. Len(b) : d[Len(a) + i] = b[i]
  OBVIOUS

\* What is read from a packet whose fields stand in this order.
LEMMA PacketRead ==
    ASSUME NEW from, NEW data, NEW buf,
           DOMAIN buf = 1 .. 5 \/ DOMAIN buf = 1 .. 6,
           buf[1].num = 1, buf[1].wire = "fixed32", buf[1].val = from,
           buf[2].num = 2, buf[2].wire = "fixed32",
           buf[3].num = 4, buf[3].wire = "bytes", buf[3].val = data,
           buf[4].num = 6, buf[5].num = 9, 6 \in DOMAIN buf => buf[6].num = 9
    PROVE  Get(buf, 1, "fixed32", 0) = from /\ Get(buf, 4, "bytes", <<>>) = data
  <1>1. \A j \in 1 .. 3 : buf[j].wire \in {"varint", "bytes", "fixed32", "fixed64"}
    OBVIOUS
  <1>2. {1, 3} \subseteq decode_fields(buf)
    BY <1>1 DEF decode_fields
  <1>3. decode_fields(buf) \subseteq DOMAIN buf
    BY DEF decode_fields
  <1>4. \A i \in DOMAIN buf : i \in {1, 2, 3, 4, 5, 6}
    OBVIOUS
  <1>5. \A i \in DOMAIN buf : (buf[i].num = 1 => i = 1) /\ (buf[i].num = 4 => i = 3)
    BY <1>4
  <1>6. Matching(buf, 1, "fixed32") = {1}
    BY <1>2, <1>3, <1>5 DEF Matching
  <1>7. Matching(buf, 4, "bytes") = {3}
    BY <1>2, <1>3, <1>5 DEF Matching
  <1>. QED
    BY <1>6, <1>7, GetOnly

\* A packet as the radio lays it out.
PacketBytes(from, rx_time, data) ==
    encode_mesh_packet(from, 0, 1, 0, 3, data)
        \o (IF rx_time # 0 THEN <<Field(9, "fixed32", rx_time)>> ELSE <<>>)

\* Such a packet, read again.
LEMMA PacketFields ==
    ASSUME NEW from \in Nat \ {0}, NEW rx_time, NEW data
    PROVE  /\ Get(PacketBytes(from, rx_time, data), 1, "fixed32", 0) = from
           /\ Get(PacketBytes(from, rx_time, data), 4, "bytes", <<>>) = data
  <1>. DEFINE f1 == Field(1, "fixed32", from)
              f2 == Field(2, "fixed32", 0)
              f4 == Field(4, "bytes", data)
              f6 == Field(6, "fixed32", 1)
              f9 == Field(9, "varint", 3)
              ft == Field(9, "fixed32", rx_time)
              t  == IF rx_time # 0 THEN <<ft>> ELSE <<>>
              S  == {f1, f2, f4, f6, f9, ft}
              a  == <<f1>> \o <<f2>>
              b  == a \o <<>>
              c  == <<f4, f6, f9>>
              d  == b \o c
              buf == d \o t
  <1>1. /\ f1.num = 1 /\ f1.wire = "fixed32" /\ f1.val = from
        /\ f2.num = 2 /\ f2.wire = "fixed32"
        /\ f4.num = 4 /\ f4.wire = "bytes" /\ f4.val = data
        /\ f6.num = 6 /\ f9.num = 9 /\ ft.num = 9
    BY DEF Field
  <1>2. encode_mesh_packet(from, 0, 1, 0, 3, data) = d
    BY DEF encode_mesh_packet
  <1>. HIDE DEF f1, f2, f4, f6, f9, ft
  <1>3. d \in Seq(S) /\ Len(d) = 5
        /\ d[1] = f1 /\ d[2] = f2 /\ d[3] = f4 /\ d[4] = f6 /\ d[5] = f9
    <2>1. a \in Seq(S) /\ Len(a) = 2 /\ a[1] = f1 /\ a[2] = f2
      OBVIOUS
    <2>. HIDE DEF a
    <2>2. b = a
      BY <2>1
    <2>3. c \in Seq(S) /\ Len(c) = 3 /\ c[1] = f4 /\ c[2] = f6 /\ c[3] = f9
      OBVIOUS
    <2>. HIDE DEF b, c, S
    <2>4. /\ d \in Seq(S) /\ Len(d) = 2 + 3
          /\ \A i \in 1 .. 2 : d[i] = a[i]
          /\ \A i \in 1 .. 3 : d[2 + i] = c[i]
      <3>1. b \in Seq(S) /\ c \in Seq(S) /\ Len(b) = 2 /\ Len(c) = 3
        BY <2>1, <2>2, <2>3
      <3>0. d = b \o c /\ b \in Seq(S) /\ c \in Seq(S)
        BY <3>1
      <3>. HIDE DEF d
      <3>2. /\ d \in Seq(S) /\ Len(d) = Len(b) + Len(c)
            /\ \A i \in 1 .. Len(b) : d[i] = b[i]
            /\ \A i \in 1 .. Len(c) : d[Len(b) + i] = c[i]
        BY <3>0, ConcatAt
      <3>. QED
        BY <2>2, <3>1, <3>2
    <2>5. /\ d[1] = a[1] /\ d[2] = a[2]
          /\ d[2 + 1] = c[1] /\ d[2 + 2] = c[2] /\ d[2 + 3] = c[3]
      BY <2>4
    <2>. QED
      BY <2>1, <2>3, <2>4, <2>5
  <1>. HIDE DEF d
  <1>4. /\ DOMAIN buf = 1 .. 5 \/ DOMAIN buf = 1 .. 6
        /\ buf[1] = f1 /\ buf[2] = f2 /\ buf[3] = f4 /\ buf[4] = f6 /\ buf[5] = f9
        /\ 6 \in DOMAIN buf => buf[6] = ft
    <2>1. t \in Seq(S) /\ (Len(t) = 0 \/ (Len(t) = 1 /\ t[1] = ft))
      <3>1. <<>> \in Seq(S) /\ Len(<<>>) = 0
        OBVIOUS
      <3>2. <<ft>> \in Seq(S) /\ Len(<<ft>>) = 1 /\ <<ft>>[1] = ft
        OBVIOUS
      <3>3. t = <<>> \/ t = <<ft>>
        OBVIOUS
      <3>. QED
        BY <3>1, <3>2, <3>3
    <2>. HIDE DEF S, t
    <2>2. /\ buf \in Seq(S) /\ Len(buf) = 5 + Len(t)
          /\ \A i \in 1 .. 5 : buf[i] = d[i]
          /\ \A i \in 1 .. Len(t) : buf[5 + i] = t[i]
      <3>0. buf = d \o t /\ d \in Seq(S) /\ t \in Seq(S)
        BY <1>3, <2>1
      <3>. HIDE DEF buf
      <3>1. /\ buf \in Seq(S) /\ Len(buf) = Len(d) + Len(t)
            /\ \A i \in 1 .. Len(d) : buf[i] = d[i]
            /\ \A i \in 1 .. Len(t) : buf[Len(d) + i] = t[i]
        BY <3>0, ConcatAt
      <3>. QED
        BY <1>3, <3>1
    <2>. HIDE DEF buf
    <2>3. DOMAIN buf = 1 .. 5 \/ (DOMAIN buf = 1 .. 6 /\ buf[5 + 1] = ft)
      <3>1. CASE Len(t) = 0
        <4>1. Len(buf) = 5 /\ DOMAIN buf = 1 .. Len(buf)
          BY <2>2, <3>1
        <4>2. DOMAIN buf = 1 .. 5
          BY <4>1
        <4>. QED
          BY <4>2
      <3>2. CASE Len(t) = 1 /\ t[1] = ft
        <4>1. Len(buf) = 6 /\ buf[5 + 1] = t[1]
          BY <2>2, <3>2
        <4>. QED
          BY <2>2, <3>2, <4>1
      <3>. QED
        BY <2>1, <3>1, <3>2
    <2>4. buf[1] = d[1] /\ buf[2] = d[2] /\ buf[3] = d[3] /\ buf[4] = d[4] /\ buf[5] = d[5]
      BY <2>2
    <2>5. 5 + 1 = 6
      OBVIOUS
    <2>6. DOMAIN buf = 1 .. 5 \/ (DOMAIN buf = 1 .. 6 /\ buf[6] = ft)
      BY <2>3, <2>5
    <2>7. 6 \in DOMAIN buf => buf[6] = ft
      BY <2>6
    <2>. QED
      BY <1>3, <2>4, <2>6, <2>7
  <1>. HIDE DEF buf
  <1>5. Get(buf, 1, "fixed32", 0) = from /\ Get(buf, 4, "bytes", <<>>) = data
    <2>1. buf[1].num = 1 /\ buf[1].wire = "fixed32" /\ buf[1].val = from
      BY <1>1, <1>4
    <2>2. buf[2].num = 2 /\ buf[2].wire = "fixed32"
      BY <1>1, <1>4
    <2>3. buf[3].num = 4 /\ buf[3].wire = "bytes" /\ buf[3].val = data
      BY <1>1, <1>4
    <2>4. buf[4].num = 6 /\ buf[5].num = 9 /\ (6 \in DOMAIN buf => buf[6].num = 9)
      BY <1>1, <1>4
    <2>5. DOMAIN buf = 1 .. 5 \/ DOMAIN buf = 1 .. 6
      BY <1>4
    <2>. QED
      BY <2>1, <2>2, <2>3, <2>4, <2>5, PacketRead
  <1>. QED
    <2>1. PacketBytes(from, rx_time, data) = buf
      BY <1>2 DEF buf, ft, PacketBytes
    <2>. QED
      BY <1>5, <2>1

\* A frame with no packet in it is not a message.
LEMMA NoPacketNoKind ==
    ASSUME NEW frame, Get(frame, 2, "bytes", <<>>) = <<>>
    PROVE  parse_from_radio(frame).kind = "NONE"
  <1>1. Get(<<>>, 4, "bytes", <<>>) = <<>> /\ Get(<<>>, 2, "bytes", <<>>) = <<>>
    BY GetFromEmpty
  <1>. QED
    BY <1>1 DEF parse_from_radio

\* The sender of a packet is read from it.
LEMMA PacketFrom ==
    ASSUME NEW n \in Nat \ {0}, NEW t, NEW data
    PROVE  /\ parse_from_radio(Packet(n, t, data)).from = n
           /\ Get(Get(Packet(n, t, data), 2, "bytes", <<>>), 4, "bytes", <<>>) = data
  <1>. DEFINE packet == PacketBytes(n, t, data)
              frame == Packet(n, t, data)
  <1>1. Get(packet, 1, "fixed32", 0) = n /\ Get(packet, 4, "bytes", <<>>) = data
    BY PacketFields
  <1>2. frame = <<Field(2, "bytes", packet)>>
    BY DEF Packet, PacketBytes
  <1>. HIDE DEF packet, frame
  <1>3. Get(frame, 2, "bytes", <<>>) = packet
    <2>1. "bytes" \in Readable
      BY DEF Readable
    <2>. QED
      BY <1>2, <2>1, GetFromOne
  <1>4. parse_from_radio(frame).from = n
    BY <1>1, <1>3 DEF parse_from_radio
  <1>. QED
    BY <1>1, <1>3, <1>4 DEF frame

\* The bridge's own NodeInfo is not a message.
LEMMA BridgeInfoNoKind == parse_from_radio(BridgeInfo).kind = "NONE"
  <1>. DEFINE user == encode_user(Hex(BridgeNum), <<"long", BridgeNum>>, <<"short", BridgeNum>>)
              data == encode_data(PORTNUM_NODEINFO_APP, user)
  <1>1. data = <<Field(1, "varint", 4), Field(2, "bytes", user)>>
    BY DEF encode_data, PORTNUM_NODEINFO_APP
  <1>. HIDE DEF user
  <1>2. Get(data, 1, "varint", 0) = 4
    <2>. DEFINE g == Field(2, "bytes", user)
    <2>1. g.num # 1
      BY DEF Field
    <2>2. data = <<Field(1, "varint", 4), g>>
      BY <1>1
    <2>. HIDE DEF g, data
    <2>. QED
      BY <2>1, <2>2, GetFirstOfTwo
  <1>3. BridgeInfo = Packet(BridgeNum, 0, data)
    BY DEF BridgeInfo, user
  <1>. HIDE DEF data
  <1>4. Get(Get(BridgeInfo, 2, "bytes", <<>>), 4, "bytes", <<>>) = data
    BY <1>3, InboundAssumption, PacketFrom
  <1>. QED
    BY <1>2, <1>4 DEF parse_from_radio, PORTNUM_TEXT_MESSAGE_APP, PORTNUM_POSITION_APP,
        PORTNUM_TELEMETRY_APP

\* What is taken for a message comes from a node of the mesh.
LEMMA MessageFrom ==
    ASSUME NEW frame \in Frames, parse_from_radio(frame).kind # "NONE"
    PROVE  parse_from_radio(frame).from \in Senders
  <1>1. ASSUME NEW n \in {3, 4, 7}, NEW w \in {"varint", "bytes"}, NEW v,
               frame = <<Field(n, w, v)>>
        PROVE  FALSE
    <2>1. w \in Readable /\ 2 # n
      BY <1>1 DEF Readable
    <2>2. Get(frame, 2, "bytes", <<>>) = <<>>
      BY <1>1, <2>1, GetFromOne
    <2>. QED
      BY <2>2, NoPacketNoKind
  <1>2. ASSUME NEW n \in Senders, NEW t, NEW data, frame = Packet(n, t, data)
        PROVE  parse_from_radio(frame).from \in Senders
    <2>1. n \in Nat \ {0}
      BY InboundAssumption DEF Senders
    <2>. QED
      BY <1>2, <2>1, PacketFrom
  <1>. QED
    BY <1>1, <1>2, FrameForms, BridgeInfoNoKind DEF MyInfo, NodeInfo

\* A NodeInfo that is stored is of a node of the mesh.
LEMMA NodeInfoOf ==
    ASSUME NEW frame \in Frames, parse_node_info(frame).valid
    PROVE  parse_node_info(frame).node_num \in Senders
  <1>1. ASSUME NEW n \in {2, 3, 7}, NEW w \in {"varint", "bytes"}, NEW v,
               frame = <<Field(n, w, v)>>
        PROVE  FALSE
    <2>1. w \in Readable /\ 4 # n
      BY <1>1 DEF Readable
    <2>2. Get(frame, 4, "bytes", <<>>) = <<>>
      BY <1>1, <2>1, GetFromOne
    <2>3. Get(<<>>, 1, "fixed32", 0) = 0
      BY GetFromEmpty
    <2>. QED
      BY <2>2, <2>3 DEF parse_node_info
  <1>2. ASSUME NEW n \in Senders, frame = NodeInfo(n)
        PROVE  parse_node_info(frame).node_num \in Senders
    <2>. DEFINE g == Field(2, "bytes", encode_user(Hex(n), <<"long", n>>, <<"short", n>>))
                info == <<Field(1, "fixed32", n), g>>
    <2>1. g.num # 1
      BY DEF Field
    <2>2. frame = <<Field(4, "bytes", info)>>
      BY <1>2 DEF NodeInfo
    <2>. HIDE DEF g
    <2>3. Get(info, 1, "fixed32", 0) = n
      <3>1. info = <<Field(1, "fixed32", n), g>>
        OBVIOUS
      <3>. HIDE DEF info
      <3>. QED
        BY <2>1, <3>1, GetFirstOfTwo
    <2>. HIDE DEF info
    <2>4. Get(frame, 4, "bytes", <<>>) = info
      <3>1. "bytes" \in Readable
        BY DEF Readable
      <3>. QED
        BY <2>2, <3>1, GetFromOne
    <2>. QED
      BY <2>3, <2>4 DEF parse_node_info
  <1>. QED
    BY <1>1, <1>2, FrameForms DEF MyInfo, Packet, BridgeInfo

-----------------------------------------------------------------------------
(* The directory                                                            *)

\* Every non-empty set of numbers has a least element.
LEMMA LeastElement ==
    ASSUME NEW I \in SUBSET Nat, I # {}
    PROVE  \E i \in I : \A j \in I : i <= j
  <1>. DEFINE R == OpToRel(<, Nat)
  <1>1. IsWellFoundedOn(R, Nat)
    BY NatLessThanWellFounded
  <1>. HIDE DEF R
  <1>2. PICK x \in I : \A y \in I : ~ (<<y, x>> \in R)
    BY <1>1, WFMin, Zenon
  <1>3. \A y \in I : ~ (y < x)
    BY <1>2 DEF OpToRel, R
  <1>. QED
    BY <1>3

\* The position that is taken is one of them.
LEMMA TheIsOne ==
    ASSUME NEW dir, NEW n, DOMAIN dir \subseteq Nat, Positions(dir, n) # {}
    PROVE  The(Positions(dir, n)) \in DOMAIN dir /\ dir[The(Positions(dir, n))].id = n
  <1>1. Positions(dir, n) \in SUBSET Nat
    BY DEF Positions
  <1>2. \E i \in Positions(dir, n) : \A j \in Positions(dir, n) : i <= j
    BY <1>1, LeastElement
  <1>3. The(Positions(dir, n)) \in Positions(dir, n)
    BY <1>2 DEF The
  <1>. QED
    BY <1>3 DEF Positions

\* No node has reported: ages within their bounds.
LEMMA NoReportsType == NoReports \in AgeType /\ \A k \in Kinds : Interval(k) \in Nat
  BY InboundAssumption DEF NoReports, AgeType, Kinds, Interval

\* What a directory is as a sequence.
LEMMA DirectorySeq ==
    ASSUME NEW dir, IsDirectory(dir)
    PROVE  Len(dir) \in Nat /\ DOMAIN dir = 1 .. Len(dir)
  BY DEF IsDirectory

\* A function on 1..n is a sequence.
LEMMA FunctionIsSeq ==
    ASSUME NEW S, NEW n \in Nat, NEW f \in [1 .. n -> S]
    PROVE  f \in Seq(S) /\ Len(f) = n
  OBVIOUS

\* A directory after one of its entries has changed.
Changed(dir, k, e) == [dir EXCEPT ![k] = e]

LEMMA ChangedEntry ==
    ASSUME NEW dir, IsDirectory(dir), NEW k \in DOMAIN dir, NEW e, IsEntry(e),
           e.id = dir[k].id
    PROVE  /\ IsDirectory(Changed(dir, k, e))
           /\ DOMAIN Changed(dir, k, e) = DOMAIN dir
           /\ Len(Changed(dir, k, e)) = Len(dir)
           /\ Changed(dir, k, e)[k] = e
           /\ \A i \in DOMAIN dir : i # k => Changed(dir, k, e)[i] = dir[i]
  <1>. DEFINE d == Changed(dir, k, e)
              D == {d[i] : i \in DOMAIN d}
  <1>1. Len(dir) \in Nat /\ DOMAIN dir = 1 .. Len(dir)
    BY DirectorySeq
  <1>2. DOMAIN d = 1 .. Len(dir)
    BY <1>1 DEF Changed
  <1>3. d[k] = e /\ \A i \in DOMAIN dir : i # k => d[i] = dir[i]
    BY DEF Changed
  <1>4. d \in [1 .. Len(dir) -> D]
    BY <1>2 DEF Changed
  <1>. HIDE DEF d
  <1>5. d \in Seq(D) /\ Len(d) = Len(dir)
    <2>. HIDE DEF D
    <2>. QED
      BY <1>1, <1>4, FunctionIsSeq
  <1>6. \A i \in DOMAIN d : IsEntry(d[i]) /\ d[i].id = dir[i].id
    BY <1>1, <1>2, <1>3 DEF IsDirectory
  <1>7. \A i, j \in DOMAIN d : d[i].id = d[j].id => i = j
    BY <1>1, <1>2, <1>6 DEF IsDirectory
  <1>8. IsDirectory(d)
    BY <1>5, <1>6, <1>7 DEF IsDirectory
  <1>. QED
    BY <1>1, <1>2, <1>3, <1>5, <1>8 DEF d

\* _find_or_create_node leaves a directory with the node in it, unless it is full.
LEMMA FoundOrCreated ==
    ASSUME NEW dir, IsDirectory(dir), NEW n \in Senders, NEW rep, AgesAgree(dir, rep)
    PROVE  /\ IsDirectory(FindOrCreate(dir, n)) /\ AgesAgree(FindOrCreate(dir, n), rep)
           /\ Positions(FindOrCreate(dir, n), n) = {}
                  => Len(FindOrCreate(dir, n)) = MAX_NODES
  <1>. DEFINE d == FindOrCreate(dir, n)
  <1>1. Len(dir) \in Nat /\ DOMAIN dir = 1 .. Len(dir) /\ Len(dir) <= MAX_NODES
    BY DirectorySeq DEF IsDirectory
  <1>2. CASE Positions(dir, n) # {} \/ Len(dir) = MAX_NODES
    <2>1. d = dir
      BY <1>2 DEF FindOrCreate
    <2>. QED
      BY <1>2, <2>1
  <1>3. CASE Positions(dir, n) = {} /\ Len(dir) # MAX_NODES
    <2>. DEFINE e == NewEntry(n)
                l == Len(dir) + 1
                D == {d[i] : i \in DOMAIN d}
    <2>1. d = Append(dir, e)
      BY <1>3 DEF FindOrCreate
    <2>2. IsEntry(e) /\ e.id = n /\ e.age = NoReports
      BY NoReportsType DEF NewEntry, IsEntry
    <2>. HIDE DEF e
    <2>3. /\ DOMAIN d = 1 .. l /\ d[l] = e
          /\ \A i \in 1 .. Len(dir) : d[i] = dir[i]
      <3>. DEFINE S == {dir[i] : i \in DOMAIN dir}
      <3>1. dir \in Seq(S)
        BY DEF IsDirectory
      <3>. HIDE DEF S, d
      <3>. QED
        BY <2>1, <3>1
    <2>. HIDE DEF d
    <2>4. d \in Seq(D) /\ Len(d) = l
      <3>1. d \in [1 .. l -> D]
        <4>1. d = [i \in DOMAIN d |-> d[i]]
          <5>. DEFINE S == {dir[i] : i \in DOMAIN dir}
                      S2 == S \cup {e}
          <5>1. dir \in Seq(S)
            BY DEF IsDirectory
          <5>2. dir \in Seq(S2) /\ e \in S2
            BY <5>1
          <5>. HIDE DEF S, S2
          <5>3. d \in Seq(S2)
            BY <2>1, <5>2
          <5>. QED
            BY <5>3
        <4>. QED
          BY <2>3, <4>1
      <3>2. l \in Nat
        BY <1>1
      <3>. HIDE DEF D, l
      <3>. QED
        BY <3>1, <3>2
    <2>5. \A i \in 1 .. Len(dir) : dir[i].id # n
      BY <1>1, <1>3 DEF Positions
    <2>6. \A i \in DOMAIN d : (i \in 1 .. Len(dir) /\ d[i] = dir[i]) \/ (i = l /\ d[i] = e)
      BY <1>1, <2>3
    <2>7. \A i \in DOMAIN d : IsEntry(d[i])
      BY <1>1, <2>2, <2>6 DEF IsDirectory
    <2>8. \A i, j \in DOMAIN d : d[i].id = d[j].id => i = j
      BY <1>1, <2>2, <2>5, <2>6 DEF IsDirectory
    <2>. HIDE DEF D
    <2>9. Len(d) <= MAX_NODES
      <3>1. MAX_NODES \in Nat
        BY InboundAssumption
      <3>2. Len(dir) < MAX_NODES
        <4>1. Len(dir) # MAX_NODES
          BY <1>3
        <4>2. Len(dir) \in Nat /\ Len(dir) <= MAX_NODES
          BY <1>1
        <4>. QED
          BY <3>1, <4>1, <4>2
      <3>3. Len(d) = Len(dir) + 1
        BY <2>4
      <3>. QED
        BY <1>1, <3>1, <3>2, <3>3
    <2>10. IsDirectory(d)
      BY <2>4, <2>7, <2>8, <2>9 DEF IsDirectory, D
    <2>11. l \in DOMAIN d /\ Positions(d, n) # {}
      BY <1>1, <2>2, <2>3 DEF Positions
    <2>12. rep[n] = NoReports
      BY <1>1, <1>3, <2>5 DEF AgesAgree
    <2>13. ASSUME NEW m \in Senders, NEW i \in DOMAIN d, d[i].id = m
           PROVE  d[i].age = rep[m]
      BY <1>1, <2>2, <2>6, <2>12, <2>13 DEF AgesAgree
    <2>14. ASSUME NEW m \in Senders, \A i \in DOMAIN d : d[i].id # m
           PROVE  rep[m] = NoReports
      <3>1. \A i \in DOMAIN dir : dir[i].id # m
        BY <1>1, <2>3, <2>14
      <3>. QED
        BY <1>3, <3>1 DEF AgesAgree
    <2>15. AgesAgree(d, rep)
      BY <2>13, <2>14 DEF AgesAgree
    <2>. QED
      BY <2>10, <2>11, <2>15 DEF d
  <1>. QED
    BY <1>2, <1>3

\* Names change no node and no time.
LEMMA Stored ==
    ASSUME NEW dir, IsDirectory(dir), NEW rep, AgesAgree(dir, rep),
           NEW ni, ni.node_num \in Senders
    PROVE  IsDirectory(StoreNodeInfo(dir, ni)) /\ AgesAgree(StoreNodeInfo(dir, ni), rep)
  <1>. DEFINE d == FindOrCreate(dir, ni.node_num)
              I == Positions(d, ni.node_num)
              k == The(I)
              s == StoreNodeInfo(dir, ni)
  <1>1. IsDirectory(d) /\ AgesAgree(d, rep)
    BY FoundOrCreated
  <1>2. CASE I = {}
    BY <1>1, <1>2 DEF StoreNodeInfo
  <1>3. CASE I # {}
    <2>1. DOMAIN d \subseteq Nat
      BY <1>1, DirectorySeq
    <2>. HIDE DEF d
    <2>2. k \in DOMAIN d
      BY <1>3, <2>1, TheIsOne
    <2>3. s = [d EXCEPT ![k].long_name = ni.long_name, ![k].short_name = ni.short_name]
      BY <1>3 DEF StoreNodeInfo, d
    <2>. HIDE DEF k, I, s
    <2>. DEFINE c == [d[k] EXCEPT !.long_name = ni.long_name]
                e == [c EXCEPT !.short_name = ni.short_name]
    <2>4. IsEntry(d[k])
      BY <1>1, <2>2 DEF IsDirectory
    <2>5. IsEntry(e) /\ e.id = d[k].id /\ e.age = d[k].age
      <3>1. IsEntry(c) /\ c.id = d[k].id /\ c.age = d[k].age
        BY <2>4 DEF IsEntry
      <3>. HIDE DEF c
      <3>. QED
        BY <3>1 DEF IsEntry
    <2>6. s = Changed(d, k, e)
      BY <2>2, <2>3 DEF Changed
    <2>. HIDE DEF e
    <2>7. /\ IsDirectory(s) /\ DOMAIN s = DOMAIN d /\ Len(s) = Len(d)
          /\ s[k] = e /\ \A i \in DOMAIN d : i # k => s[i] = d[i]
      BY <1>1, <2>2, <2>5, <2>6, ChangedEntry
    <2>8. \A i \in DOMAIN d : s[i].id = d[i].id /\ s[i].age = d[i].age
      BY <2>5, <2>7
    <2>9. AgesAgree(s, rep)
      BY <1>1, <2>7, <2>8 DEF AgesAgree
    <2>. QED
      BY <2>7, <2>9 DEF s
  <1>. QED
    BY <1>2, <1>3

\* Reading a frame for a NodeInfo keeps the directory.
LEMMA Learned ==
    ASSUME NEW dir, IsDirectory(dir), NEW rep, AgesAgree(dir, rep), NEW frame \in Frames
    PROVE  IsDirectory(Learn(dir, frame)) /\ AgesAgree(Learn(dir, frame), rep)
  BY Stored, NodeInfoOf DEF Learn

\* A report handed on is noted in the directory, unless there is no room.
LEMMA ReportNoted ==
    ASSUME NEW dir, IsDirectory(dir), NEW rep \in [Senders -> AgeType],
           AgesAgree(dir, rep), NEW msg, msg.from \in Senders, msg.kind \in Kinds,
           Positions(dir, msg.from) = {} => Len(dir) = MAX_NODES,
           NEW rep2, rep2 = [rep EXCEPT ![msg.from][msg.kind] = 0]
    PROVE  /\ IsDirectory(Noted(dir, msg)) /\ AgesAgree(Noted(dir, msg), rep2)
           /\ rep2 \in [Senders -> AgeType]
  <1>. DEFINE n == msg.from
              kind == msg.kind
              I == Positions(dir, n)
              k == The(I)
              s == Noted(dir, msg)
              new == [rep[n] EXCEPT ![kind] = 0]
  <1>0. n \in Senders /\ kind \in Kinds
    OBVIOUS
  <1>1. rep[n] \in AgeType
    BY <1>0
  <1>2. new \in AgeType
    <2>1. rep[n] \in [Kinds -> Nat] /\ \A j \in Kinds : rep[n][j] <= Interval(j)
      BY <1>1 DEF AgeType
    <2>. HIDE DEF n, kind
    <2>2. new \in [Kinds -> Nat] /\ \A j \in Kinds : new[j] = 0 \/ new[j] = rep[n][j]
      BY <1>0, <2>1
    <2>. HIDE DEF new
    <2>3. \A j \in Kinds : new[j] <= Interval(j)
      <3>. SUFFICES ASSUME NEW j \in Kinds PROVE new[j] <= Interval(j)
        OBVIOUS
      <3>1. Interval(j) \in Nat /\ 0 <= Interval(j)
        BY NoReportsType
      <3>2. rep[n][j] <= Interval(j)
        BY <2>1
      <3>3. new[j] = 0 \/ new[j] = rep[n][j]
        BY <2>2
      <3>. QED
        BY <3>1, <3>2, <3>3
    <2>. QED
      BY <2>2, <2>3 DEF AgeType
  <1>3. rep2 = [rep EXCEPT ![n] = new]
    BY <1>0
  <1>. HIDE DEF new
  <1>4. rep2 \in [Senders -> AgeType] /\ rep2[n] = new
        /\ \A m \in Senders : m # n => rep2[m] = rep[m]
    BY <1>0, <1>2, <1>3
  <1>5. CASE I = {}
    <2>1. s = dir /\ Len(dir) = MAX_NODES
      BY <1>5 DEF Noted
    <2>2. \A i \in DOMAIN dir : dir[i].id # n
      BY <1>5 DEF Positions
    <2>. HIDE DEF s, n
    <2>3. AgesAgree(s, rep2)
      BY <1>4, <2>1, <2>2 DEF AgesAgree
    <2>. QED
      BY <1>4, <2>1, <2>3 DEF s
  <1>6. CASE I # {}
    <2>1. DOMAIN dir \subseteq Nat
      BY DirectorySeq
    <2>2. k \in DOMAIN dir /\ dir[k].id = n
      BY <1>6, <2>1, TheIsOne
    <2>3. s = [dir EXCEPT ![k].age[kind] = 0]
      BY <1>6 DEF Noted
    <2>. HIDE DEF k, I, s, n, kind
    <2>4. IsEntry(dir[k]) /\ dir[k].age = rep[n]
      BY <1>0, <2>2 DEF IsDirectory, AgesAgree
    <2>. DEFINE e == [dir[k] EXCEPT !.age = new]
    <2>5. IsEntry(e) /\ e.id = dir[k].id /\ e.age = new
      BY <1>2, <2>4 DEF IsEntry
    <2>6. s = Changed(dir, k, e)
      BY <2>2, <2>3, <2>4 DEF new, Changed
    <2>. HIDE DEF e
    <2>7. /\ IsDirectory(s) /\ DOMAIN s = DOMAIN dir /\ Len(s) = Len(dir)
          /\ s[k] = e /\ \A i \in DOMAIN dir : i # k => s[i] = dir[i]
      BY <2>2, <2>5, <2>6, ChangedEntry
    <2>8. \A i \in DOMAIN dir : s[i].id = dir[i].id
      BY <2>5, <2>7
    <2>9. ASSUME NEW m \in Senders, NEW i \in DOMAIN s, s[i].id = m
          PROVE  s[i].age = rep2[m]
      <3>1. CASE i = k
        BY <1>4, <2>2, <2>5, <2>7, <2>9, <3>1
      <3>2. CASE i # k
        <4>1. dir[i].id = m /\ m # n
          BY <2>2, <2>7, <2>8, <2>9, <3>2 DEF IsDirectory
        <4>. QED
          BY <1>4, <2>7, <2>9, <3>2, <4>1 DEF AgesAgree
      <3>. QED
        BY <3>1, <3>2
    <2>10. ASSUME NEW m \in Senders, \A i \in DOMAIN s : s[i].id # m
           PROVE  Len(s) = MAX_NODES \/ rep2[m] = NoReports
      <3>1. m # n /\ \A i \in DOMAIN dir : dir[i].id # m
        BY <2>2, <2>7, <2>8, <2>10
      <3>. QED
        BY <1>4, <2>7, <3>1 DEF AgesAgree
    <2>11. AgesAgree(s, rep2)
      BY <2>9, <2>10 DEF AgesAgree
    <2>. QED
      BY <1>4, <2>7, <2>11 DEF s
  <1>. QED
    BY <1>5, <1>6

\* Time passes for the directory as it does for the reports.
LEMMA Aged ==
    ASSUME NEW dir, IsDirectory(dir), NEW rep \in [Senders -> AgeType], AgesAgree(dir, rep),
           NEW d, d = [i \in DOMAIN dir |-> [dir[i] EXCEPT !.age = Older(@)]],
           NEW rep2, rep2 = [n \in Senders |-> Older(rep[n])]
    PROVE  IsDirectory(d) /\ rep2 \in [Senders -> AgeType] /\ AgesAgree(d, rep2)
  <1>. DEFINE D == {d[i] : i \in DOMAIN d}
  <1>1. Len(dir) \in Nat /\ DOMAIN dir = 1 .. Len(dir)
    BY DirectorySeq
  <1>2. ASSUME NEW a \in AgeType PROVE Older(a) \in AgeType
    <2>1. a \in [Kinds -> Nat] /\ \A k \in Kinds : a[k] <= Interval(k)
      BY DEF AgeType
    <2>2. \A k \in Kinds : Interval(k) \in Nat
      BY NoReportsType
    <2>3. ASSUME NEW k \in Kinds
          PROVE  Older(a)[k] \in Nat /\ Older(a)[k] <= Interval(k)
      BY <2>1, <2>2 DEF Older
    <2>4. Older(a) \in [Kinds -> Nat]
      BY <2>1, <2>2 DEF Older
    <2>. QED
      BY <2>3, <2>4 DEF AgeType
  <1>3. Older(NoReports) = NoReports
    <2>1. \A k \in Kinds : Interval(k) \in Nat /\ ~ (Interval(k) < Interval(k))
      BY NoReportsType
    <2>. QED
      BY <2>1 DEF Older, NoReports
  <1>4. rep2 \in [Senders -> AgeType]
    BY <1>2
  <1>5. DOMAIN d = DOMAIN dir
    OBVIOUS
  <1>6. ASSUME NEW i \in DOMAIN dir
        PROVE  IsEntry(d[i]) /\ d[i].id = dir[i].id /\ d[i].age = Older(dir[i].age)
    <2>1. IsEntry(dir[i])
      BY DEF IsDirectory
    <2>2. d[i] = [dir[i] EXCEPT !.age = Older(dir[i].age)]
      OBVIOUS
    <2>3. Older(dir[i].age) \in AgeType
      BY <1>2, <2>1 DEF IsEntry
    <2>. QED
      BY <2>1, <2>2, <2>3 DEF IsEntry
  <1>7. d \in [1 .. Len(dir) -> D]
    BY <1>1
  <1>8. d \in Seq(D) /\ Len(d) = Len(dir)
    <2>. HIDE DEF D
    <2>. QED
      BY <1>1, <1>7, FunctionIsSeq
  <1>9. \A i, j \in DOMAIN d : d[i].id = d[j].id => i = j
    <2>1. \A i, j \in DOMAIN dir : dir[i].id = dir[j].id => i = j
      BY DEF IsDirectory
    <2>2. \A i \in DOMAIN dir : d[i].id = dir[i].id
      BY <1>6
    <2>3. ASSUME NEW i \in DOMAIN d, NEW j \in DOMAIN d, d[i].id = d[j].id
          PROVE  i = j
      <3>1. i \in DOMAIN dir /\ j \in DOMAIN dir
        BY <1>5
      <3>2. dir[i].id = dir[j].id
        BY <2>2, <2>3, <3>1, Zenon
      <3>. QED
        BY <2>1, <3>1, <3>2, Zenon
    <2>. QED
      BY <2>3
  <1>10. IsDirectory(d)
    BY <1>5, <1>6, <1>8, <1>9 DEF IsDirectory
  <1>11. ASSUME NEW n \in Senders, NEW i \in DOMAIN d, d[i].id = n
         PROVE  d[i].age = rep2[n]
    BY <1>5, <1>6, <1>11 DEF AgesAgree
  <1>12. ASSUME NEW n \in Senders, \A i \in DOMAIN d : d[i].id # n
         PROVE  Len(d) = MAX_NODES \/ rep2[n] = NoReports
    <2>1. \A i \in DOMAIN dir : dir[i].id # n
      BY <1>5, <1>6, <1>12
    <2>2. Len(dir) = MAX_NODES \/ rep[n] = NoReports
      BY <2>1 DEF AgesAgree
    <2>. QED
      BY <1>3, <1>8, <2>2
  <1>. QED
    BY <1>4, <1>10, <1>11, <1>12 DEF AgesAgree

-----------------------------------------------------------------------------
(* Every step keeps the invariant                                           *)

\* The directory's part of the type invariant follows from what it is.
DirectoryTyped ==
    /\ Len(nodes) <= MAX_NODES
    /\ \A i \in DOMAIN nodes : nodes[i].id \in Senders /\ nodes[i].age \in Ages
    /\ reported \in [Senders -> Ages]

LEMMA DirectoryType == DirectoryInv => DirectoryTyped
  <1>1. AgeType \subseteq Ages
    BY DEF AgeType, Ages
  <1>. QED
    BY <1>1 DEF DirectoryInv, IsDirectory, IsEntry, DirectoryTyped

LEMMA InitIInv == Init => IInv
  <1>. SUFFICES ASSUME Init PROVE IInv
    OBVIOUS
  <1>1. NoReports \in AgeType /\ MAX_NODES \in Nat
    BY NoReportsType, InboundAssumption
  <1>2. IsDirectory(nodes)
    <2>1. nodes = <<>> /\ Len(nodes) = 0 /\ DOMAIN nodes = {}
      BY DEF Init
    <2>2. \A S : <<>> \in Seq(S)
      OBVIOUS
    <2>. QED
      BY <1>1, <2>1, <2>2 DEF IsDirectory
  <1>3. reported \in [Senders -> AgeType]
    BY <1>1 DEF Init
  <1>4. AgesAgree(nodes, reported)
    BY DEF Init, AgesAgree
  <1>5. DirectoryInv
    BY <1>2, <1>3, <1>4 DEF DirectoryInv
  <1>6. TypeOK
    BY <1>5, DirectoryType DEF Init, TypeOK, DirectoryTyped
  <1>7. KnowsRadio /\ OwnRadioNotBridged
    BY DEF Init, KnowsRadio, OwnRadioNotBridged, NoMessage
  <1>. QED
    BY <1>5, <1>6, <1>7 DEF IInv

\* A frame keeps the directory and the times in agreement.
LEMMA FrameKeepsDirectory ==
    ASSUME IInv, NEW frame \in Frames, HandleFromRadio(frame)
    PROVE  DirectoryInv'
  <1>. DEFINE msg == parse_from_radio(frame)
  <1>. USE DEF IInv
  <1>0. /\ IsDirectory(nodes) /\ reported \in [Senders -> AgeType]
        /\ AgesAgree(nodes, reported)
    BY DEF DirectoryInv
  <1>1. msg.kind # "NONE" => msg.from \in Senders
    BY MessageFrom
  <1>2. IsDirectory(Learn(nodes, frame)) /\ AgesAgree(Learn(nodes, frame), reported)
    BY <1>0, Learned
  <1>. HIDE DEF msg
  <1>3. CASE HandleConfig(frame)
    BY <1>0, <1>2, <1>3 DEF HandleConfig, DirectoryInv
  <1>4. CASE HandleOther(frame, msg)
    BY <1>0, <1>2, <1>4 DEF HandleOther, DirectoryInv
  <1>5. CASE DropPacket(msg)
    BY <1>0, <1>5 DEF DropPacket, DirectoryInv
  <1>6. CASE LimitReport(msg)
    <2>. DEFINE dir == FindOrCreate(nodes, msg.from)
    <2>1. msg.from \in Senders
      BY <1>1, <1>6, InboundAssumption DEF LimitReport
    <2>2. IsDirectory(dir) /\ AgesAgree(dir, reported)
      BY <1>0, <2>1, FoundOrCreated
    <2>3. nodes' = dir /\ reported' = reported
      BY <1>6 DEF LimitReport, AfterLimit
    <2>. QED
      BY <1>0, <2>2, <2>3 DEF DirectoryInv
  <1>7. CASE Forward(frame, msg)
    <2>1. CASE msg.kind \in Kinds
      <3>. DEFINE dir == FindOrCreate(nodes, msg.from)
                  noted == Noted(dir, msg)
      <3>1. msg.from \in Senders
        BY <1>1, <2>1 DEF Kinds
      <3>2. /\ IsDirectory(dir) /\ AgesAgree(dir, reported)
            /\ Positions(dir, msg.from) = {} => Len(dir) = MAX_NODES
        BY <1>0, <3>1, FoundOrCreated
      <3>3. /\ nodes' = Learn(noted, frame)
            /\ reported' = [reported EXCEPT ![msg.from][msg.kind] = 0]
        BY <1>7, <2>1 DEF Forward
      <3>. HIDE DEF dir
      <3>4. /\ IsDirectory(noted) /\ AgesAgree(noted, reported')
            /\ reported' \in [Senders -> AgeType]
        BY <1>0, <2>1, <3>1, <3>2, <3>3, ReportNoted
      <3>. HIDE DEF noted
      <3>5. IsDirectory(Learn(noted, frame)) /\ AgesAgree(Learn(noted, frame), reported')
        BY <3>4, Learned
      <3>. QED
        BY <3>3, <3>4, <3>5 DEF DirectoryInv
    <2>2. CASE msg.kind \notin Kinds
      BY <1>0, <1>2, <1>7, <2>2 DEF Forward, DirectoryInv
    <2>. QED
      BY <2>1, <2>2
  <1>. QED
    BY <1>3, <1>4, <1>5, <1>6, <1>7 DEF HandleFromRadio, msg

\* A frame keeps what is known of the radio, and hands on nothing of its own.
LEMMA FrameKeepsRadio ==
    ASSUME IInv, NEW frame \in Frames, HandleFromRadio(frame)
    PROVE  KnowsRadio' /\ OwnRadioNotBridged'
  <1>. DEFINE msg == parse_from_radio(frame)
  <1>. USE DEF IInv
  <1>1. radio' = radio /\ (told' <=> told \/ frame = MyInfo)
    BY DEF HandleFromRadio
  <1>2. radio # 0
    BY InboundAssumption DEF TypeOK
  <1>. HIDE DEF msg
  <1>3. CASE HandleConfig(frame)
    <2>1. mine' = IF frame = MyInfo THEN radio ELSE mine
      BY <1>3, MyNumber DEF HandleConfig, ReadMyInfo
    <2>2. config' => told
      BY <1>3, CompleteIsTold DEF HandleConfig
    <2>3. out'.kind = "NONE"
      BY <1>3 DEF HandleConfig, NoMessage
    <2>. QED
      BY <1>1, <2>1, <2>2, <2>3 DEF KnowsRadio, OwnRadioNotBridged
  <1>4. CASE ~ HandleConfig(frame)
    <2>0. HandleOther(frame, msg) \/ DropPacket(msg) \/ LimitReport(msg)
              \/ Forward(frame, msg)
      BY <1>4 DEF HandleFromRadio, msg
    <2>1. config /\ config' = config /\ mine' = mine
      BY <2>0 DEF HandleOther, DropPacket, LimitReport, Forward
    <2>2. told /\ mine = radio
      BY <2>1 DEF KnowsRadio
    <2>3. KnowsRadio'
      BY <1>1, <2>1, <2>2 DEF KnowsRadio
    <2>4. CASE Forward(frame, msg)
      <3>1. ~ IsOwn(msg) /\ out'.from = msg.from
        BY <2>4 DEF Forward
      <3>2. out'.from # radio
        BY <1>2, <2>2, <3>1 DEF IsOwn
      <3>. QED
        BY <1>1, <2>3, <3>2 DEF OwnRadioNotBridged
    <2>5. CASE ~ Forward(frame, msg)
      <3>1. out'.kind = "NONE"
        <4>1. CASE LimitReport(msg)
          <5>1. out' = [NoMessage EXCEPT !.limited = msg.kind, !.from = msg.from]
            BY <4>1 DEF LimitReport
          <5>. QED
            BY <5>1 DEF NoMessage
        <4>2. CASE HandleOther(frame, msg) \/ DropPacket(msg)
          BY <4>2 DEF HandleOther, DropPacket, NoMessage
        <4>. QED
          BY <2>0, <2>5, <4>1, <4>2
      <3>. QED
        BY <2>3, <3>1 DEF OwnRadioNotBridged
    <2>. QED
      BY <2>4, <2>5
  <1>. QED
    BY <1>3, <1>4

\* A frame keeps the types of what it changes besides.
LEMMA FrameKeepsType ==
    ASSUME IInv, NEW frame \in Frames, HandleFromRadio(frame)
    PROVE  TypeOK'
  <1>. DEFINE msg == parse_from_radio(frame)
  <1>. USE DEF IInv
  <1>1. DirectoryInv'
    BY FrameKeepsDirectory
  <1>2. DirectoryTyped'
    BY <1>1, DirectoryType, PTL
  <1>3. radio' \in Radios /\ nonce' \in {0, 1} /\ told' \in BOOLEAN
    BY DEF HandleFromRadio, TypeOK
  <1>4. ReadMyInfo(frame) \in Radios \cup {0}
    BY MyNumber DEF ReadMyInfo, TypeOK
  <1>5. is_config_complete(frame, nonce) \in BOOLEAN
    BY DEF is_config_complete
  <1>6. Sync(msg) \in BOOLEAN
    BY DEF Sync
  <1>. HIDE DEF msg
  <1>7. /\ config' \in BOOLEAN /\ synced' \in BOOLEAN /\ mine' \in Radios \cup {0}
        /\ bridge' \in {0, BridgeNum}
    BY <1>4, <1>5, <1>6 DEF HandleFromRadio, HandleConfig, HandleOther, DropPacket,
        LimitReport, Forward, TypeOK, msg
  <1>. QED
    BY <1>2, <1>3, <1>7 DEF TypeOK, DirectoryTyped

LEMMA NextIInv == IInv /\ [Next]_vars => IInv'
  <1>. SUFFICES ASSUME IInv, [Next]_vars PROVE IInv'
    OBVIOUS
  <1>. USE DEF IInv
  <1>1. ASSUME NEW frame \in Frames, HandleFromRadio(frame) PROVE IInv'
    BY <1>1, FrameKeepsDirectory, FrameKeepsRadio, FrameKeepsType
  <1>2. CASE Connect
    <2>1. DirectoryInv'
      BY <1>2 DEF Connect, DirectoryInv
    <2>2. TypeOK'
      <3>1. nonce' \in {0, 1}
        BY <1>2 DEF Connect, TypeOK
      <3>2. radio' \in Radios /\ told' \in BOOLEAN /\ config' \in BOOLEAN
        BY <1>2 DEF Connect
      <3>. QED
        BY <1>2, <3>1, <3>2 DEF Connect, TypeOK
    <2>3. KnowsRadio' /\ OwnRadioNotBridged'
      BY <1>2 DEF Connect, KnowsRadio, OwnRadioNotBridged, NoMessage
    <2>. QED
      BY <2>1, <2>2, <2>3
  <1>3. CASE SendNodeInfo
    <2>1. DirectoryInv'
      BY <1>3 DEF SendNodeInfo, DirectoryInv
    <2>2. TypeOK'
      BY <1>3 DEF SendNodeInfo, TypeOK
    <2>3. KnowsRadio' /\ OwnRadioNotBridged'
      BY <1>3 DEF SendNodeInfo, KnowsRadio, OwnRadioNotBridged, NoMessage
    <2>. QED
      BY <2>1, <2>2, <2>3
  <1>4. CASE Tick
    <2>1. DirectoryInv'
      BY <1>4, Aged DEF Tick, DirectoryInv
    <2>2. DirectoryTyped'
      BY <2>1, DirectoryType, PTL
    <2>3. TypeOK'
      BY <1>4, <2>2 DEF Tick, TypeOK, DirectoryTyped
    <2>4. KnowsRadio' /\ OwnRadioNotBridged'
      BY <1>4 DEF Tick, KnowsRadio, OwnRadioNotBridged, NoMessage
    <2>. QED
      BY <2>1, <2>3, <2>4
  <1>5. CASE UNCHANGED vars
    BY <1>5 DEF vars, TypeOK, KnowsRadio, DirectoryInv, OwnRadioNotBridged
  <1>. QED
    BY <1>1, <1>2, <1>3, <1>4, <1>5 DEF Next

-----------------------------------------------------------------------------
(* Theorems                                                                 *)

\* The invariant holds in every state.
LEMMA Invariance == Spec => []IInv
  BY InitIInv, NextIInv, PTL DEF Spec

\* Every variable keeps its type, and the directory stays within its array:
\* _find_or_create_node never writes past _nodes[MAX_NODES - 1].
THEOREM InboundTypeCorrect == Spec => []TypeOK
  <1>1. IInv => TypeOK
    BY DEF IInv
  <1>. QED
    BY <1>1, Invariance, PTL

\* The radio of the session is never taken for a node of the mesh: no message
\* that it sends under its own number reaches BridgeManager, whatever radios
\* the bridge has been connected to before.
THEOREM InboundOwnRadioNotBridged == Spec => []OwnRadioNotBridged
  <1>1. IInv => OwnRadioNotBridged
    BY DEF IInv
  <1>. QED
    BY <1>1, Invariance, PTL

\* A report is handed on only when the interval since the node's last one has
\* passed, unless the directory was full before the node came.
THEOREM InboundReportsSpaced == Spec => ReportsSpaced
  <1>. DEFINE Spaced ==
        out'.kind \in Kinds
          => \/ reported[out'.from][out'.kind] = Interval(out'.kind)
             \/ Len(nodes) = MAX_NODES /\ Positions(nodes, out'.from) = {}
  <1>1. IInv /\ [Next]_vars => [Spaced]_vars
    <2>. SUFFICES ASSUME IInv, Next, out'.kind \in Kinds PROVE Spaced
      OBVIOUS
    <2>1. "NONE" \notin Kinds
      BY DEF Kinds
    <2>2. PICK frame \in Frames : HandleFromRadio(frame)
      BY <2>1 DEF Next, Connect, SendNodeInfo, Tick, NoMessage
    <2>. DEFINE msg == parse_from_radio(frame)
    <2>3. msg.kind # "NONE" => msg.from \in Senders
      BY MessageFrom
    <2>4. Forward(frame, msg)
      <3>1. ASSUME LimitReport(msg) PROVE out'.kind = "NONE"
        <4>1. out' = [NoMessage EXCEPT !.limited = msg.kind, !.from = msg.from]
          BY <3>1 DEF LimitReport
        <4>. QED
          BY <4>1 DEF NoMessage
      <3>2. ASSUME HandleConfig(frame) \/ HandleOther(frame, msg) \/ DropPacket(msg)
            PROVE  out'.kind = "NONE"
        BY <3>2 DEF HandleConfig, HandleOther, DropPacket, NoMessage
      <3>. QED
        BY <2>1, <2>2, <3>1, <3>2 DEF HandleFromRadio
    <2>. HIDE DEF msg
    <2>. DEFINE n == msg.from
                kind == msg.kind
                dir == FindOrCreate(nodes, n)
    <2>5. out'.kind = kind /\ out'.from = n /\ ~ Limited(dir, msg)
      BY <2>4 DEF Forward
    <2>6. n \in Senders /\ kind \in Kinds
      BY <2>1, <2>3, <2>5
    <2>7. AgesAgree(nodes, reported) /\ IsDirectory(nodes)
      BY DEF IInv, DirectoryInv
    <2>8. CASE Positions(nodes, n) # {}
      <3>1. dir = nodes
        BY <2>8 DEF FindOrCreate
      <3>2. PICK i \in DOMAIN nodes : nodes[i].id = n
        BY <2>8 DEF Positions
      <3>3. ~ (nodes[i].age[kind] < Interval(kind))
        BY <2>5, <2>6, <3>1, <3>2 DEF Limited, Positions
      <3>4. nodes[i].age = reported[n]
        BY <2>6, <2>7, <3>2 DEF AgesAgree
      <3>5. nodes[i].age \in AgeType
        BY <2>7 DEF IsDirectory, IsEntry
      <3>6. nodes[i].age[kind] = Interval(kind)
        <4>1. nodes[i].age[kind] \in Nat /\ nodes[i].age[kind] <= Interval(kind)
          BY <2>6, <3>5 DEF AgeType
        <4>2. Interval(kind) \in Nat
          BY <2>6, NoReportsType
        <4>. QED
          BY <3>3, <4>1, <4>2
      <3>. QED
        BY <2>5, <3>4, <3>6
    <2>9. CASE Positions(nodes, n) = {} /\ Len(nodes) = MAX_NODES
      BY <2>5, <2>9
    <2>10. CASE Positions(nodes, n) = {} /\ Len(nodes) # MAX_NODES
      <3>1. \A i \in DOMAIN nodes : nodes[i].id # n
        BY <2>10 DEF Positions
      <3>2. reported[n] = NoReports
        BY <2>6, <2>7, <2>10, <3>1 DEF AgesAgree
      <3>. QED
        BY <2>5, <2>6, <3>2 DEF NoReports
    <2>. QED
      BY <2>8, <2>9, <2>10
  <1>. QED
    BY <1>1, Invariance, PTL DEF Spec, ReportsSpaced
=============================================================================
