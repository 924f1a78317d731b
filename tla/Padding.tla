------------------------------ MODULE Padding ------------------------------
(***************************************************************************)
(* Block padding of BLE packets: BitchatBLE::_pad_packet and unpad_packet.  *)
(*                                                                          *)
(* Of a packet's bytes only the end matters here: a packet is its length,   *)
(* the value of its last byte and the number of bytes at its end that have  *)
(* this value.                                                              *)
(***************************************************************************)
EXTENDS Naturals, FiniteSets

CONSTANT Blocks     \* the block sizes, 256 to 2048

ASSUME BlocksAssumption ==
    /\ Blocks \subseteq Nat \ {0}
    /\ Blocks # {} /\ IsFiniteSet(Blocks)

ByteValues == 0 .. 255

IsBytes(p) ==
    /\ p.len \in Nat \ {0}
    /\ p.last \in ByteValues
    /\ p.run \in 1 .. p.len

\* The smallest block that holds n bytes, or the largest one.
Block(n) ==
    LET fits == {b \in Blocks : n <= b}
    IN  IF fits = {} THEN CHOOSE b \in Blocks : \A c \in Blocks : c <= b
        ELSE CHOOSE b \in fits : \A c \in fits : b <= c

\* Mutant of pad_packet: the padding is filled with zeros.
ZeroPad(p) ==
    IF Block(p.len) <= p.len THEN p
    ELSE [len |-> Block(p.len), last |-> 0, run |-> Block(p.len) - p.len]

\* Fill the block with bytes that hold the number of bytes added; the number is
\* cut to a byte.  A packet that fills its block gets none.
pad_packet(p) ==
    LET pad_len == Block(p.len) - p.len
        byte    == pad_len % 256
    IN  IF Block(p.len) <= p.len THEN p
        ELSE [len  |-> Block(p.len),
              last |-> byte,
              run  |-> pad_len + (IF p.last = byte THEN p.run ELSE 0)]

\* Take off as many bytes as the last byte says, if they all have its value.
unpad_packet(p) ==
    IF p.last = 0 \/ p.last > p.len \/ p.run < p.last THEN p.len
    ELSE p.len - p.last
=============================================================================
