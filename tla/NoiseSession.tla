---------------------------- MODULE NoiseSession ----------------------------
(***************************************************************************)
(* The Noise XX state machine of one peer (noise_handshake.cpp on the       *)
(* primitives of noise_state.h), as operators on a NoiseHandshakeState.     *)
(*                                                                          *)
(* Cryptography is symbolic.  A public key is a token; a shared secret is   *)
(* the unordered pair of the two keys; the symmetric state (ck, h, k, n) is *)
(* the sequence of everything mixed into it, of which ck, h and k are       *)
(* injective functions.  n is 0 at each use of k, as every EncryptAndHash   *)
(* of XX follows a MixKey.  A ciphertext carries the symmetric state it was *)
(* sealed under and opens only under an equal one.  Transport keys are the  *)
(* two halves of Split.                                                     *)
(***************************************************************************)
EXTENDS Naturals, Sequences

\* The i-th ephemeral key of a node, and its static key.
Ephemeral(node, i) == <<"e", node, i>>
Static(node) == <<"s", node>>

\* 32 bytes of a ciphertext, read as a key.
Garbled == <<"g", 0>>
NoKey   == <<"0", 0>>

\* noise_dh: both ends get the same secret.
noise_dh(a, b) == <<"dh", {a, b}>>

\* MixHash and MixKey append to the transcript; so does a ciphertext, which
\* the transcript and its plaintext determine.
Mix(ss, x) == Append(ss, x)

\* noise_encrypt_and_hash; the caller then mixes pt.
Seal(ss, pt) == [ad |-> ss, pt |-> pt]

NoCipherText == Seal(<<>>, NoKey)

\* noise_decrypt_and_hash succeeds.
Opens(ss, ct) == ct.ad = ss

NoCipher == [k |-> <<>>, n |-> 0]

\* noise_split: one half of its output.  The transcript is not read again, and
\* the model forgets it.
Half(i, ss) == [k |-> <<i, ss>>, n |-> 0]

\* A zeroed NoiseHandshakeState: phase IDLE, role INITIATOR.
ZeroHs == [phase |-> "IDLE", role |-> "INITIATOR", ss |-> <<>>, e |-> NoKey,
           rs |-> NoKey, send_cs |-> NoCipher, recv_cs |-> NoCipher]

noise_hs_init(role, e) == [ZeroHs EXCEPT !.role = role, !.e = e]

\* A step that returns an error after it has begun; what it leaves in the
\* other fields is never read again.
Fail(hs) == [hs EXCEPT !.phase = "FAILED"]

-----------------------------------------------------------------------------
(* Messages.  A payload keeps its kind only for its length and layout: the  *)
(* wire carries raw bytes and the reader takes what its own phase expects.  *)

Msg(kind, e, ct) == [kind |-> kind, e |-> e, ct |-> ct]

NoMsg == [kind |-> "none"]

MsgLen(m) == CASE m.kind = "msg1" -> 32
               [] m.kind = "msg2" -> 80
               [] m.kind = "msg3" -> 48

\* The first 32 bytes, taken as a public key.
LeadingKey(m) == IF m.kind = "msg3" THEN Garbled ELSE m.e

\* The first 48 bytes, taken as a ciphertext.
LeadingCipherText(m) == IF m.kind = "msg3" THEN m.ct ELSE NoCipherText

\* What a step leaves: the state and the message to send, or NoMsg.
Step(hs, out) == [hs |-> hs, out |-> out]

noise_hs_write_msg1(hs) ==
    Step([hs EXCEPT !.ss = Mix(@, hs.e), !.phase = "AWAIT_MSG2"],
         Msg("msg1", hs.e, NoCipherText))

noise_hs_read_msg1_write_msg2(hs, m, me) ==
    LET re == LeadingKey(m)
        ee == Mix(Mix(Mix(hs.ss, re), hs.e), noise_dh(hs.e, re))
        es == Mix(Mix(ee, Static(me)), noise_dh(Static(me), re))
    IN  IF MsgLen(m) < 32
        THEN Step(Fail(hs), NoMsg)
        ELSE Step([hs EXCEPT !.ss = es, !.phase = "AWAIT_MSG3"],
                  Msg("msg2", hs.e, Seal(ee, Static(me))))

noise_hs_read_msg2_write_msg3(hs, m, me) ==
    LET re == LeadingKey(m)
        ee == Mix(Mix(hs.ss, re), noise_dh(hs.e, re))
        rs == m.ct.pt
        es == Mix(Mix(ee, rs), noise_dh(hs.e, rs))
        se == Mix(Mix(es, Static(me)), noise_dh(Static(me), re))
    IN  IF MsgLen(m) < 80 \/ ~Opens(ee, m.ct)
        THEN Step(Fail(hs), NoMsg)
        ELSE Step([hs EXCEPT !.rs = rs, !.ss = <<>>,
                             !.send_cs = Half(1, se), !.recv_cs = Half(2, se),
                             !.phase = "TRANSPORT"],
                  Msg("msg3", NoKey, Seal(es, Static(me))))

\* Mutant of noise_hs_read_msg3: the halves are not swapped for the responder.
noise_hs_read_msg3_unswapped(hs, m) ==
    LET ct == LeadingCipherText(m)
        se == Mix(Mix(hs.ss, ct.pt), noise_dh(hs.e, ct.pt))
    IN  IF MsgLen(m) < 48 \/ ~Opens(hs.ss, ct)
        THEN Step(Fail(hs), NoMsg)
        ELSE Step([hs EXCEPT !.rs = ct.pt, !.ss = <<>>, !.phase = "TRANSPORT",
                             !.send_cs = Half(1, se), !.recv_cs = Half(2, se)],
                  NoMsg)

noise_hs_read_msg3(hs, m) ==
    LET ct == LeadingCipherText(m)
        se == Mix(Mix(hs.ss, ct.pt), noise_dh(hs.e, ct.pt))
    IN  IF MsgLen(m) < 48 \/ ~Opens(hs.ss, ct)
        THEN Step(Fail(hs), NoMsg)
        ELSE Step([hs EXCEPT !.rs = ct.pt, !.ss = <<>>, !.phase = "TRANSPORT",
                             !.recv_cs = Half(1, se), !.send_cs = Half(2, se)],
                  NoMsg)

-----------------------------------------------------------------------------
(* Transport                                                                *)

\* noise_cs_encrypt; the associated data is the header of the same packet, so
\* it agrees at the receiver.
CipherText(cs, pt) == [k |-> cs.k, n |-> cs.n, pt |-> pt]

\* Mutant of Decrypts: the result of the AEAD is ignored.
DecryptsAlways(cs, ct) == TRUE

\* noise_cs_decrypt succeeds.
Decrypts(cs, ct) == ct.k = cs.k /\ ct.n = cs.n

\* n++, by encryption and, before the tag is checked, by decryption.
NextNonce(cs) == [cs EXCEPT !.n = @ + 1]
=============================================================================
