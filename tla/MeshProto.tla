----------------------------- MODULE MeshProto -----------------------------
(***************************************************************************)
(* The protobuf messages of mesh_proto.h.  A message is the sequence of its  *)
(* fields, each with its number, its wire type and its value; the value of a *)
(* field of bytes is again a sequence: of fields, or the text it carries.    *)
(* Varints, tags and lengths are left out; what a decoder does with missing, *)
(* repeated, unknown and unreadable fields is kept.                          *)
(***************************************************************************)
EXTENDS Naturals, Sequences

Field(num, wire, val) == [num |-> num, wire |-> wire, val |-> val]

PORTNUM_TEXT_MESSAGE_APP == 1
PORTNUM_POSITION_APP == 3
PORTNUM_NODEINFO_APP == 4
PORTNUM_TELEMETRY_APP == 67

-----------------------------------------------------------------------------
(* Encoding                                                                  *)

encode_data(portnum, payload) ==
    <<Field(1, "varint", portnum), Field(2, "bytes", payload)>>

\* A sender of 0 and channel 0 are left out; the radio fills in its own number.
encode_mesh_packet(from, to, id, channel, hop_limit, data) ==
    (IF from # 0 THEN <<Field(1, "fixed32", from)>> ELSE <<>>)
        \o <<Field(2, "fixed32", to)>>
        \o (IF channel # 0 THEN <<Field(3, "varint", channel)>> ELSE <<>>)
        \o <<Field(4, "bytes", data), Field(6, "fixed32", id),
             Field(9, "varint", hop_limit)>>

encode_user(id, long_name, short_name) ==
    SelectSeq(<<Field(1, "bytes", id), Field(2, "bytes", long_name),
                Field(3, "bytes", short_name)>>, LAMBDA f : f.val # <<>>)
        \o <<Field(5, "varint", 0), Field(7, "varint", 0)>>

-----------------------------------------------------------------------------
(* Decoding                                                                  *)

\* decode_field in a loop: the positions of the fields before the first that it
\* cannot read.
decode_fields(buf) ==
    {i \in DOMAIN buf :
        \A j \in 1 .. i : buf[j].wire \in {"varint", "bytes", "fixed32", "fixed64"}}

Matching(buf, num, wire) ==
    {i \in decode_fields(buf) : buf[i].num = num /\ buf[i].wire = wire}

Has(buf, num, wire) == Matching(buf, num, wire) # {}

\* The value a parser is left with: a repeated field overwrites the earlier one.
Get(buf, num, wire, default) ==
    LET hits == Matching(buf, num, wire)
    IN  IF hits = {} THEN default ELSE buf[CHOOSE i \in hits : \A j \in hits : j <= i].val

\* A copy into a character array of this size, which ends in a NUL.
Cut(text, size) == SubSeq(text, 1, IF Len(text) < size - 1 THEN Len(text) ELSE size - 1)

\* Coordinates are in 10^-7 degrees and are written with four decimals.
Degrees(e7) == (e7 + 500) \div 1000

format_position(p) ==
    IF Has(p, 1, "fixed32") /\ Has(p, 2, "fixed32")
    THEN <<"position", Degrees(Get(p, 1, "fixed32", 0)), Degrees(Get(p, 2, "fixed32", 0))>>
             \o (IF Has(p, 3, "varint") THEN <<"alt", Get(p, 3, "varint", 0)>> ELSE <<>>)
    ELSE <<>>

\* Device metrics with a battery level come before environment metrics.
format_telemetry(p) ==
    LET dev == Get(p, 2, "bytes", <<>>)
        env == Get(p, 3, "bytes", <<>>)
    IN  CASE Has(dev, 1, "varint") ->
               <<"battery", Get(dev, 1, "varint", 0)>>
                   \o (IF Has(dev, 3, "fixed32") THEN <<"ch", Get(dev, 3, "fixed32", 0)>>
                       ELSE <<>>)
          [] ~Has(dev, 1, "varint") /\ \E k \in 1 .. 3 : Has(env, k, "fixed32") ->
               <<"environment">> \o [k \in 1 .. 3 |-> Get(env, k, "fixed32", 0)]
          [] OTHER -> <<>>

\* The sender and the time are known also of a packet that is not bridged.
parse_from_radio(buf) ==
    LET packet == Get(buf, 2, "bytes", <<>>)
        data == Get(packet, 4, "bytes", <<>>)
        portnum == Get(data, 1, "varint", 0)
        payload == Get(data, 2, "bytes", <<>>)
        kind == CASE portnum = PORTNUM_TEXT_MESSAGE_APP -> "TEXT"
                  [] portnum = PORTNUM_POSITION_APP -> "POSITION"
                  [] portnum = PORTNUM_TELEMETRY_APP -> "TELEMETRY"
                  [] OTHER -> "NONE"
        text == IF payload = <<>> THEN <<>>
                ELSE CASE kind = "TEXT" -> Cut(payload, 256)
                       [] kind = "POSITION" -> format_position(payload)
                       [] kind = "TELEMETRY" -> format_telemetry(payload)
                       [] OTHER -> <<>>
    IN  [kind |-> IF text = <<>> THEN "NONE" ELSE kind,
         from |-> Get(packet, 1, "fixed32", 0),
         rx_time |-> Get(packet, 9, "fixed32", 0),
         text |-> text]

is_config_complete(buf, nonce) ==
    \E i \in decode_fields(buf) : buf[i] = Field(7, "varint", nonce)

\* The number in a MyNodeInfo; a FromRadio holds at most one.
my_node_num(buf, default) == Get(Get(buf, 3, "bytes", <<>>), 1, "fixed32", default)

\* User is read with its long name in field 1 and its short name in field 2.
parse_node_info(buf) ==
    LET info == Get(buf, 4, "bytes", <<>>)
        user == Get(info, 2, "bytes", <<>>)
        num == Get(info, 1, "fixed32", 0)
        long_name == Cut(Get(user, 1, "bytes", <<>>), 40)
        short_name == Cut(Get(user, 2, "bytes", <<>>), 5)
    IN  [valid |-> num # 0 /\ (long_name # <<>> \/ short_name # <<>>),
         node_num |-> num, long_name |-> long_name, short_name |-> short_name]
=============================================================================
