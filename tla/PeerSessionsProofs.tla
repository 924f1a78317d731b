-------------------------- MODULE PeerSessionsProofs --------------------------
(***************************************************************************)
(* Proofs about the peer table and its sessions.  Everything rests on what  *)
(* a handshake mixes into its transcript, and where: the transcript of a    *)
(* session names both ephemeral keys and both static keys by position, and  *)
(* the session's keys are functions of it.                                  *)
(***************************************************************************)
EXTENDS PeerSessions, FiniteSetTheorems, NaturalsInduction, WellFoundedInduction, TLAPS

-----------------------------------------------------------------------------
(* Transcripts                                                              *)

\* A transcript of k entries.
Long(ss, k) == Len(ss) = k /\ \E S : ss \in Seq(S)

\* The transcript begins empty.
LEMMA EmptyTranscript == Long(<<>>, 0)
  <1>1. <<>> \in Seq({})
    OBVIOUS
  <1>. QED
    BY <1>1 DEF Long

\* Mix adds one entry at the end and keeps the others.
LEMMA MixAdds ==
    ASSUME NEW k \in Nat, NEW ss, Long(ss, k), NEW x
    PROVE  /\ Long(Mix(ss, x), k + 1)
           /\ Mix(ss, x)[k + 1] = x
           /\ \A i \in 1 .. k : Mix(ss, x)[i] = ss[i]
  <1>1. PICK S : ss \in Seq(S)
    BY DEF Long
  <1>2. ss \in Seq(S \cup {x}) /\ x \in S \cup {x} /\ Len(ss) = k
    BY <1>1 DEF Long
  <1>3. /\ Append(ss, x) \in Seq(S \cup {x}) /\ Len(Append(ss, x)) = k + 1
        /\ Append(ss, x)[k + 1] = x /\ \A i \in 1 .. k : Append(ss, x)[i] = ss[i]
    BY <1>2
  <1>. QED
    BY <1>3 DEF Mix, Long

-----------------------------------------------------------------------------
(* Handshake states                                                         *)

HsFields == {"phase", "role", "ss", "e", "rs", "send_cs", "recv_cs"}

IsHs(hs) ==
    /\ DOMAIN hs = HsFields
    /\ hs.phase \in Phases /\ hs.role \in {"INITIATOR", "RESPONDER"}
    /\ DOMAIN hs.send_cs = {"k", "n"} /\ DOMAIN hs.recv_cs = {"k", "n"}

\* The phases in which the ephemeral key is in use.
Live == {"AWAIT_MSG2", "AWAIT_MSG3", "TRANSPORT"}

\* A session with transcript t that node has initiated: its own ephemeral key is
\* the first entry, the two static keys are the fourth and the sixth.
Initiated(node, hs, t) ==
    /\ hs.send_cs.k = <<1, t>> /\ hs.recv_cs.k = <<2, t>>
    /\ t[1] = hs.e /\ t[4] = hs.rs /\ t[6] = Static(node)

\* One that it has answered.
Responded(node, hs, t) ==
    /\ hs.send_cs.k = <<2, t>> /\ hs.recv_cs.k = <<1, t>>
    /\ t[2] = hs.e /\ t[4] = Static(node) /\ t[6] = hs.rs

\* What a handshake of node has mixed into its transcript in each phase.
Shape(node, hs) ==
    /\ IsHs(hs)
    /\ hs.phase = "AWAIT_MSG2" => Long(hs.ss, 1) /\ hs.ss[1] = hs.e
    /\ hs.phase = "AWAIT_MSG3" =>
          Long(hs.ss, 5) /\ hs.ss[2] = hs.e /\ hs.ss[4] = Static(node)
    /\ hs.phase = "TRANSPORT" => \E t : Initiated(node, hs, t) \/ Responded(node, hs, t)

\* noise_hs_init clears everything but the role and the key.
LEMMA InitIs ==
    ASSUME NEW role \in {"INITIATOR", "RESPONDER"}, NEW e
    PROVE  /\ IsHs(noise_hs_init(role, e)) /\ noise_hs_init(role, e).phase = "IDLE"
           /\ noise_hs_init(role, e).e = e /\ noise_hs_init(role, e).ss = <<>>
  BY DEF noise_hs_init, ZeroHs, IsHs, HsFields, Phases, NoCipher

\* A zeroed state.
LEMMA ZeroShape == ASSUME NEW node PROVE Shape(node, ZeroHs) /\ ZeroHs.phase = "IDLE"
  BY DEF ZeroHs, IsHs, HsFields, Phases, NoCipher, Shape

\* The same, as a shape.
LEMMA InitShape ==
    ASSUME NEW node, NEW role \in {"INITIATOR", "RESPONDER"}, NEW e
    PROVE  Shape(node, noise_hs_init(role, e)) /\ noise_hs_init(role, e).phase = "IDLE"
  BY InitIs DEF Shape

\* A failed handshake promises nothing.
LEMMA FailShape ==
    ASSUME NEW node, NEW hs, IsHs(hs)
    PROVE  Shape(node, Fail(hs)) /\ Fail(hs).phase = "FAILED"
  BY DEF Fail, Shape, IsHs, HsFields, Phases

\* noise_hs_write_msg1 starts the transcript with the ephemeral key.
LEMMA Msg1Shape ==
    ASSUME NEW node, NEW e
    PROVE  LET hs == noise_hs_write_msg1(noise_hs_init("INITIATOR", e)).hs
           IN  Shape(node, hs) /\ hs.phase = "AWAIT_MSG2" /\ hs.e = e
  <1>. DEFINE i == noise_hs_init("INITIATOR", e)
              ss == Mix(<<>>, e)
              hs == [i EXCEPT !.ss = ss, !.phase = "AWAIT_MSG2"]
  <1>1. IsHs(i) /\ i.e = e /\ i.ss = <<>>
    BY InitIs
  <1>2. Long(ss, 1) /\ ss[1] = e
    <2>1. Long(ss, 0 + 1) /\ ss[0 + 1] = e
      BY EmptyTranscript, MixAdds
    <2>. QED
      BY <2>1
  <1>. HIDE DEF i, ss
  <1>3. IsHs(hs) /\ hs.phase = "AWAIT_MSG2" /\ hs.e = e /\ hs.ss = ss
    BY <1>1 DEF IsHs, HsFields, Phases
  <1>4. noise_hs_write_msg1(i).hs = hs
    BY <1>1 DEF noise_hs_write_msg1, Step, ss
  <1>. HIDE DEF hs
  <1>. QED
    BY <1>2, <1>3, <1>4 DEF Shape, i

\* noise_hs_read_msg1_write_msg2: the key it was sent, its own, and in the fourth
\* place its static key.
LEMMA Msg2Shape ==
    ASSUME NEW node, NEW e, NEW m
    PROVE  LET hs == noise_hs_read_msg1_write_msg2(noise_hs_init("RESPONDER", e), m, node).hs
           IN  Shape(node, hs) /\ hs.phase \in {"AWAIT_MSG3", "FAILED"} /\ hs.e = e
  <1>. DEFINE i == noise_hs_init("RESPONDER", e)
              re == LeadingKey(m)
              s1 == Mix(<<>>, re)
              s2 == Mix(s1, e)
              s3 == Mix(s2, noise_dh(e, re))
              s4 == Mix(s3, Static(node))
              s5 == Mix(s4, noise_dh(Static(node), re))
              hs == [i EXCEPT !.ss = s5, !.phase = "AWAIT_MSG3"]
  <1>1. IsHs(i) /\ i.e = e /\ i.ss = <<>>
    BY InitIs
  <1>2. Long(s1, 1)
    BY EmptyTranscript, MixAdds, 0 + 1 = 1
  <1>. HIDE DEF s1
  <1>3. Long(s2, 2) /\ s2[2] = e
    BY <1>2, MixAdds, 1 + 1 = 2
  <1>. HIDE DEF s2
  <1>4. Long(s3, 3) /\ s3[2] = e
    BY <1>3, MixAdds, 2 + 1 = 3
  <1>. HIDE DEF s3
  <1>5. Long(s4, 4) /\ s4[2] = e /\ s4[4] = Static(node)
    BY <1>4, MixAdds, 3 + 1 = 4
  <1>. HIDE DEF s4
  <1>6. Long(s5, 5) /\ s5[2] = e /\ s5[4] = Static(node)
    BY <1>5, MixAdds, 4 + 1 = 5
  <1>. HIDE DEF s5, i
  <1>7. IsHs(hs) /\ hs.phase = "AWAIT_MSG3" /\ hs.e = e /\ hs.ss = s5
    BY <1>1 DEF IsHs, HsFields, Phases
  <1>8. Shape(node, hs)
    BY <1>6, <1>7 DEF Shape
  <1>9. Shape(node, Fail(i)) /\ Fail(i).phase = "FAILED" /\ Fail(i).e = e
    BY <1>1, FailShape DEF Fail, IsHs, HsFields
  <1>10. noise_hs_read_msg1_write_msg2(i, m, node).hs \in {Fail(i), hs}
    BY <1>1 DEF noise_hs_read_msg1_write_msg2, Step, s1, s2, s3, s4, s5
  <1>. HIDE DEF hs
  <1>. QED
    BY <1>7, <1>8, <1>9, <1>10 DEF i

\* noise_hs_read_msg2_write_msg3: the transcript of an initiated session.
LEMMA Msg3Shape ==
    ASSUME NEW node, NEW hs, NEW m, Shape(node, hs), hs.phase = "AWAIT_MSG2"
    PROVE  LET new == noise_hs_read_msg2_write_msg3(hs, m, node).hs
           IN  Shape(node, new) /\ new.phase \in {"TRANSPORT", "FAILED"} /\ new.e = hs.e
  <1>. DEFINE e == hs.e
              re == LeadingKey(m)
              rs == m.ct.pt
              s2 == Mix(hs.ss, re)
              s3 == Mix(s2, noise_dh(e, re))
              s4 == Mix(s3, rs)
              s5 == Mix(s4, noise_dh(e, rs))
              s6 == Mix(s5, Static(node))
              s7 == Mix(s6, noise_dh(Static(node), re))
              new == [hs EXCEPT !.rs = rs, !.ss = <<>>, !.send_cs = Half(1, s7),
                                !.recv_cs = Half(2, s7), !.phase = "TRANSPORT"]
  <1>1. IsHs(hs) /\ Long(hs.ss, 1) /\ hs.ss[1] = e
    BY DEF Shape
  <1>2. Long(s2, 2) /\ s2[1] = e
    BY <1>1, MixAdds, 1 + 1 = 2
  <1>. HIDE DEF s2
  <1>3. Long(s3, 3) /\ s3[1] = e
    BY <1>2, MixAdds, 2 + 1 = 3
  <1>. HIDE DEF s3
  <1>4. Long(s4, 4) /\ s4[1] = e /\ s4[4] = rs
    BY <1>3, MixAdds, 3 + 1 = 4
  <1>. HIDE DEF s4
  <1>5. Long(s5, 5) /\ s5[1] = e /\ s5[4] = rs
    BY <1>4, MixAdds, 4 + 1 = 5
  <1>. HIDE DEF s5
  <1>6. Long(s6, 6) /\ s6[1] = e /\ s6[4] = rs /\ s6[6] = Static(node)
    BY <1>5, MixAdds, 5 + 1 = 6
  <1>. HIDE DEF s6
  <1>7. s7[1] = e /\ s7[4] = rs /\ s7[6] = Static(node)
    BY <1>6, MixAdds
  <1>. HIDE DEF s7, rs
  <1>8. /\ IsHs(new) /\ new.phase = "TRANSPORT" /\ new.e = e /\ new.rs = rs
        /\ new.send_cs.k = <<1, s7>> /\ new.recv_cs.k = <<2, s7>>
    BY <1>1 DEF IsHs, HsFields, Phases, Half
  <1>. HIDE DEF new
  <1>9. Shape(node, new)
    <2>1. Initiated(node, new, s7)
      BY <1>7, <1>8 DEF Initiated
    <2>. QED
      BY <1>8, <2>1 DEF Shape
  <1>10. Shape(node, Fail(hs)) /\ Fail(hs).phase = "FAILED" /\ Fail(hs).e = e
    BY <1>1, FailShape DEF Fail, IsHs, HsFields
  <1>11. noise_hs_read_msg2_write_msg3(hs, m, node).hs \in {Fail(hs), new}
    BY <1>1 DEF noise_hs_read_msg2_write_msg3, Step, s2, s3, s4, s5, s6, s7, new, rs
  <1>. QED
    BY <1>8, <1>9, <1>10, <1>11

\* noise_hs_read_msg3: that of an answered one.
LEMMA ReadMsg3Shape ==
    ASSUME NEW node, NEW hs, NEW m, Shape(node, hs), hs.phase = "AWAIT_MSG3"
    PROVE  LET new == noise_hs_read_msg3(hs, m).hs
           IN  Shape(node, new) /\ new.phase \in {"TRANSPORT", "FAILED"} /\ new.e = hs.e
  <1>. DEFINE e == hs.e
              rs == LeadingCipherText(m).pt
              s6 == Mix(hs.ss, rs)
              s7 == Mix(s6, noise_dh(e, rs))
              new == [hs EXCEPT !.rs = rs, !.ss = <<>>, !.phase = "TRANSPORT",
                                !.recv_cs = Half(1, s7), !.send_cs = Half(2, s7)]
  <1>1. IsHs(hs) /\ Long(hs.ss, 5) /\ hs.ss[2] = e /\ hs.ss[4] = Static(node)
    BY DEF Shape
  <1>2. Long(s6, 6) /\ s6[2] = e /\ s6[4] = Static(node) /\ s6[6] = rs
    BY <1>1, MixAdds, 5 + 1 = 6
  <1>. HIDE DEF s6
  <1>3. s7[2] = e /\ s7[4] = Static(node) /\ s7[6] = rs
    BY <1>2, MixAdds
  <1>. HIDE DEF s7, rs
  <1>4. /\ IsHs(new) /\ new.phase = "TRANSPORT" /\ new.e = e /\ new.rs = rs
        /\ new.send_cs.k = <<2, s7>> /\ new.recv_cs.k = <<1, s7>>
    BY <1>1 DEF IsHs, HsFields, Phases, Half
  <1>. HIDE DEF new
  <1>5. Shape(node, new)
    <2>1. Responded(node, new, s7)
      BY <1>3, <1>4 DEF Responded
    <2>. QED
      BY <1>4, <2>1 DEF Shape
  <1>6. Shape(node, Fail(hs)) /\ Fail(hs).phase = "FAILED" /\ Fail(hs).e = e
    BY <1>1, FailShape DEF Fail, IsHs, HsFields
  <1>7. noise_hs_read_msg3(hs, m).hs \in {Fail(hs), new}
    BY <1>1 DEF noise_hs_read_msg3, Step, s6, s7, new, rs
  <1>. QED
    BY <1>4, <1>5, <1>6, <1>7

\* Encryption and decryption advance a nonce and leave the rest.
LEMMA NonceShape ==
    ASSUME NEW node, NEW hs, Shape(node, hs)
    PROVE  LET sent == [hs EXCEPT !.send_cs = NextNonce(@)]
               read == [hs EXCEPT !.recv_cs = NextNonce(@)]
           IN  /\ Shape(node, sent) /\ sent.phase = hs.phase /\ sent.e = hs.e
               /\ Shape(node, read) /\ read.phase = hs.phase /\ read.e = hs.e
               /\ read.send_cs = hs.send_cs /\ read.rs = hs.rs
  <1>. DEFINE sent == [hs EXCEPT !.send_cs = NextNonce(@)]
              read == [hs EXCEPT !.recv_cs = NextNonce(@)]
  <1>1. IsHs(hs)
    BY DEF Shape
  <1>2. /\ DOMAIN NextNonce(hs.send_cs) = {"k", "n"} /\ NextNonce(hs.send_cs).k = hs.send_cs.k
        /\ DOMAIN NextNonce(hs.recv_cs) = {"k", "n"} /\ NextNonce(hs.recv_cs).k = hs.recv_cs.k
    BY <1>1 DEF IsHs, NextNonce
  <1>3. /\ IsHs(sent) /\ sent.phase = hs.phase /\ sent.e = hs.e /\ sent.ss = hs.ss
        /\ sent.rs = hs.rs /\ sent.send_cs.k = hs.send_cs.k /\ sent.recv_cs = hs.recv_cs
    BY <1>1, <1>2 DEF IsHs, HsFields
  <1>4. /\ IsHs(read) /\ read.phase = hs.phase /\ read.e = hs.e /\ read.ss = hs.ss
        /\ read.rs = hs.rs /\ read.recv_cs.k = hs.recv_cs.k /\ read.send_cs = hs.send_cs
    BY <1>1, <1>2 DEF IsHs, HsFields
  <1>. HIDE DEF sent, read
  <1>5. Shape(node, sent)
    BY <1>3 DEF Shape, Initiated, Responded
  <1>6. Shape(node, read)
    BY <1>4 DEF Shape, Initiated, Responded
  <1>. QED
    BY <1>3, <1>4, <1>5, <1>6 DEF sent, read
-----------------------------------------------------------------------------
(* Positions in order                                                       *)

\* Every non-empty set of numbers has a least element.
LEMMA LeastElement ==
    ASSUME NEW I \in SUBSET Nat, I # {}
    PROVE  \E i \in I : \A j \in I : i <= j
  <1>. DEFINE R == OpToRel(<, Nat)
  <1>1. IsWellFoundedOn(R, Nat)
    BY NatLessThanWellFounded
  <1>. HIDE DEF R
  <1>2. PICK x \in I : \A y \in I : ~ (<<y, x>> \in R)
    BY <1>1, WFMin, Zenon
  <1>3. \A y \in I : ~ (y < x)
    BY <1>2 DEF OpToRel, R
  <1>. QED
    BY <1>3

\* f lists the positions in I, each once and in order.
Lists(f, I) ==
    /\ f \in [1 .. Cardinality(I) -> I]
    /\ \A i \in I : \E r \in DOMAIN f : f[r] = i
    /\ \A r, q \in DOMAIN f : r < q => f[r] < f[q]

\* A list of positions below n, and n after it.
LEMMA ListExtended ==
    ASSUME NEW n \in Nat, NEW I, I \subseteq 1 .. n, n + 1 \notin I, IsFiniteSet(I),
           NEW f, Lists(f, I)
    PROVE  \E g : Lists(g, I \cup {n + 1})
  <1>. DEFINE J == I \cup {n + 1}
              c == Cardinality(I)
              g == [r \in 1 .. c + 1 |-> IF r = c + 1 THEN n + 1 ELSE f[r]]
  <1>1. c \in Nat /\ Cardinality(J) = c + 1
    BY FS_AddElement, FS_CardinalityType
  <1>2. f \in [1 .. c -> I]
    BY DEF Lists
  <1>. HIDE DEF c
  <1>3. DOMAIN g = 1 .. c + 1 /\ g[c + 1] = n + 1 /\ \A r \in 1 .. c : g[r] = f[r] /\ f[r] \in I
    BY <1>1, <1>2
  <1>4. \A r \in 1 .. c + 1 : r = c + 1 \/ r \in 1 .. c
    BY <1>1
  <1>5. g \in [1 .. c + 1 -> J]
    BY <1>3, <1>4
  <1>. HIDE DEF g
  <1>6. \A i \in J : \E r \in DOMAIN g : g[r] = i
    <2>1. \A i \in I : \E r \in 1 .. c : f[r] = i
      BY <1>2 DEF Lists
    <2>2. c + 1 \in DOMAIN g /\ 1 .. c \subseteq DOMAIN g
      BY <1>1, <1>3
    <2>. QED
      BY <1>3, <2>1, <2>2
  <1>7. ASSUME NEW r \in DOMAIN g, NEW q \in DOMAIN g, r < q PROVE g[r] < g[q]
    <2>1. r \in 1 .. c
      BY <1>1, <1>3, <1>7
    <2>2. CASE q = c + 1
      <3>1. g[r] \in 1 .. n
        BY <1>3, <2>1
      <3>. QED
        BY <1>3, <2>2, <3>1
    <2>3. CASE q \in 1 .. c
      <3>1. f[r] < f[q]
        BY <1>2, <1>7, <2>1, <2>3 DEF Lists
      <3>. QED
        BY <1>3, <2>1, <2>3, <3>1
    <2>. QED
      BY <1>3, <1>4, <2>2, <2>3
  <1>. QED
    BY <1>1, <1>5, <1>6, <1>7 DEF Lists

\* The positions of a vector can be listed in order.
LEMMA ListExists ==
    ASSUME NEW n \in Nat, NEW I, I \subseteq 1 .. n
    PROVE  \E f : Lists(f, I)
  <1>. DEFINE Bad == {m \in Nat : \E K : K \subseteq 1 .. m /\ ~ \E f : Lists(f, K)}
  <1>1. CASE Bad = {}
    BY <1>1
  <1>2. CASE Bad # {}
    <2>1. PICK m \in Bad : \A k \in Bad : m <= k
      BY <1>2, LeastElement
    <2>2. PICK K : K \subseteq 1 .. m /\ ~ \E f : Lists(f, K)
      BY <2>1
    <2>3. m \in Nat
      BY <2>1
    <2>4. m # 0
      <3>. SUFFICES ASSUME m = 0 PROVE FALSE
        OBVIOUS
      <3>1. K = {}
        BY <2>2
      <3>2. Cardinality(K) = 0
        BY <3>1, FS_EmptySet
      <3>. DEFINE e == [r \in 1 .. 0 |-> 0]
      <3>3. Lists(e, K)
        BY <3>1, <3>2 DEF Lists
      <3>. QED
        BY <2>2, <3>3
    <2>. DEFINE l == m - 1
                L == K \cap (1 .. l)
    <2>5. l \in Nat /\ l + 1 = m /\ l \notin Bad
      <3>1. l \in Nat /\ l + 1 = m /\ ~ (m <= l)
        BY <2>3, <2>4
      <3>. HIDE DEF l, Bad
      <3>. QED
        BY <2>1, <3>1
    <2>6. L \subseteq 1 .. l
      OBVIOUS
    <2>. HIDE DEF L
    <2>7. PICK f : Lists(f, L)
      BY <2>5, <2>6
    <2>8. CASE m \notin K
      <3>1. \A i \in 1 .. m : i # m => i \in 1 .. l
        BY <2>3
      <3>2. K = L
        BY <2>2, <2>8, <3>1 DEF L
      <3>. QED
        BY <2>2, <2>7, <3>2
    <2>9. CASE m \in K
      <3>1. K = L \cup {l + 1} /\ l + 1 \notin L
        <4>1. \A i \in 1 .. m : i = m \/ i \in 1 .. l
          BY <2>3
        <4>2. l + 1 \notin 1 .. l /\ l + 1 = m
          BY <2>5
        <4>. HIDE DEF l
        <4>. QED
          BY <2>2, <2>9, <4>1, <4>2 DEF L
      <3>2. IsFiniteSet(L)
        <4>1. IsFiniteSet(1 .. l)
          BY <2>5, FS_Interval
        <4>. QED
          BY <2>6, <4>1, FS_Subset
      <3>. HIDE DEF l
      <3>3. \E g : Lists(g, L \cup {l + 1})
        BY <2>5, <2>6, <2>7, <3>1, <3>2, ListExtended
      <3>. QED
        BY <2>2, <3>1, <3>3
    <2>. QED
      BY <2>8, <2>9
  <1>. QED
    BY <1>1, <1>2

\* Ascending lists positions of a vector that are in the set.
LEMMA AscendingLists ==
    ASSUME NEW n \in Nat, NEW I, I \subseteq 1 .. n
    PROVE  Cardinality(I) \in Nat /\ Ascending(I) \in [1 .. Cardinality(I) -> I]
  <1>1. \E f : Lists(f, I)
    BY ListExists
  <1>2. Lists(Ascending(I), I)
    BY <1>1 DEF Lists, Ascending
  <1>3. IsFiniteSet(I)
    <2>1. IsFiniteSet(1 .. n)
      BY FS_Interval
    <2>. QED
      BY <2>1, FS_Subset
  <1>. QED
    BY <1>2, <1>3, FS_CardinalityType DEF Lists

\* A function on 1..k is a sequence.
LEMMA ListIsSeq ==
    ASSUME NEW k \in Nat, NEW f, DOMAIN f = 1 .. k, NEW S, f \in [1 .. k -> S]
    PROVE  f \in Seq(S) /\ Len(f) = k
  OBVIOUS

-----------------------------------------------------------------------------
(* The peer table                                                           *)

PeerFields == {"active", "handle", "addr", "id", "we_are_central", "client",
               "announce_sent", "sign", "hs"}

\* A slot of node.  Only a central has slots in which it is the central, and
\* clients.
IsPeer(node, p) ==
    /\ DOMAIN p = PeerFields
    /\ p.active \in BOOLEAN /\ p.handle \in Handles
    /\ p.addr \in Nodes \cup {Nobody}
    /\ p.id \in Nodes \cup {Virtual, Nobody} /\ p.sign \in Nodes \cup {Virtual, Nobody}
    /\ p.we_are_central \in BOOLEAN /\ (p.we_are_central => node \in Centrals)
    /\ p.client \in BOOLEAN /\ (p.client => node \in Centrals)
    /\ Shape(node, p.hs)

IsTable(node, table) ==
    DOMAIN table = Slots /\ \A s \in Slots : IsPeer(node, table[s])

\* A key in use was in use before.
KeepsKey(new, old) == new.phase \in Live => old.phase \in Live /\ new.e = old.e

Tame(new, old) == \A s \in Slots : KeepsKey(new[s].hs, old[s].hs)

LEMMA SlotsAreNat == Slots \subseteq Nat /\ NoSlot \notin Slots
  BY PeerAssumption DEF Slots, NoSlot

\* There is a handle 0.
LEMMA ZeroHandle == 0 \in Handles
  <1>1. Cardinality(Centrals) \in Nat /\ Cardinality(Centrals) # 0
    BY PeerAssumption, FS_CardinalityType, FS_EmptySet
  <1>. QED
    BY <1>1 DEF Handles

\* First gives an element, if there is one.
LEMMA FirstIs ==
    ASSUME NEW I, I \subseteq Slots
    PROVE  (First(I) = NoSlot /\ I = {}) \/ (First(I) \in I /\ First(I) # NoSlot)
  <1>1. CASE I = {}
    BY <1>1 DEF First
  <1>2. CASE I # {}
    <2>1. \E i \in I : \A j \in I : i <= j
      BY <1>2, SlotsAreNat, LeastElement
    <2>2. First(I) \in I
      BY <1>2, <2>1 DEF First
    <2>. QED
      BY <2>2, SlotsAreNat
  <1>. QED
    BY <1>1, <1>2

LEMMA FindIs ==
    ASSUME NEW table, NEW h
    PROVE  FindPeer(table, h) = NoSlot \/ FindPeer(table, h) \in Slots
  BY FirstIs DEF FindPeer

\* A cleared slot.
LEMMA FreeSlotIs ==
    ASSUME NEW node
    PROVE  IsPeer(node, FreeSlot) /\ FreeSlot.hs.phase = "IDLE"
  BY ZeroHandle, ZeroShape DEF FreeSlot, IsPeer, PeerFields

\* One slot of a table is replaced.
LEMMA SlotReplaced ==
    ASSUME NEW node, NEW table, IsTable(node, table), NEW s \in Slots, NEW p, IsPeer(node, p)
    PROVE  /\ IsTable(node, [table EXCEPT ![s] = p])
           /\ \A t \in Slots : [table EXCEPT ![s] = p][t] = IF t = s THEN p ELSE table[t]
           /\ KeepsKey(p.hs, table[s].hs) => Tame([table EXCEPT ![s] = p], table)
  <1>. DEFINE new == [table EXCEPT ![s] = p]
  <1>1. DOMAIN new = Slots /\ \A t \in Slots : new[t] = IF t = s THEN p ELSE table[t]
    BY DEF IsTable
  <1>. HIDE DEF new
  <1>2. IsTable(node, new)
    BY <1>1 DEF IsTable
  <1>3. KeepsKey(p.hs, table[s].hs) => Tame(new, table)
    BY <1>1 DEF Tame, KeepsKey
  <1>. QED
    BY <1>1, <1>2, <1>3 DEF new

LEMMA AllocIs ==
    ASSUME NEW node, NEW table, IsTable(node, table), NEW h \in Handles,
           NEW addr \in Nodes \cup {Nobody}, NEW central \in BOOLEAN,
           central => node \in Centrals
    PROVE  /\ IsTable(node, AllocPeer(table, h, addr, central))
           /\ Tame(AllocPeer(table, h, addr, central), table)
  <1>. DEFINE s == First({t \in Slots : ~table[t].active})
              p == [FreeSlot EXCEPT !.active = TRUE, !.handle = h,
                                    !.addr = addr, !.we_are_central = central]
  <1>1. s = NoSlot \/ s \in Slots
    BY FirstIs
  <1>2. IsPeer(node, FreeSlot) /\ FreeSlot.hs.phase = "IDLE"
    BY FreeSlotIs
  <1>3. /\ DOMAIN p = PeerFields /\ p.active = TRUE /\ p.handle = h /\ p.addr = addr
        /\ p.we_are_central = central /\ p.client = FreeSlot.client /\ p.id = FreeSlot.id /\ p.sign = FreeSlot.sign
        /\ p.hs = FreeSlot.hs
    BY <1>2 DEF IsPeer, PeerFields
  <1>. HIDE DEF p
  <1>4. IsPeer(node, p) /\ p.hs.phase = "IDLE"
    BY <1>2, <1>3 DEF IsPeer
  <1>5. AllocPeer(table, h, addr, central) = IF s = NoSlot THEN table ELSE [table EXCEPT ![s] = p]
    BY DEF AllocPeer, p
  <1>. HIDE DEF s
  <1>6. CASE s = NoSlot
    BY <1>5, <1>6 DEF Tame, KeepsKey
  <1>7. CASE s # NoSlot
    <2>1. s \in Slots /\ KeepsKey(p.hs, table[s].hs)
      BY <1>1, <1>4, <1>7 DEF KeepsKey, Live
    <2>2. /\ IsTable(node, [table EXCEPT ![s] = p])
          /\ Tame([table EXCEPT ![s] = p], table)
      BY <1>4, <2>1, SlotReplaced, Zenon
    <2>. QED
      BY <1>5, <1>7, <2>2
  <1>. QED
    BY <1>6, <1>7

LEMMA FreeIs ==
    ASSUME NEW node, NEW table, IsTable(node, table), NEW h
    PROVE  IsTable(node, FreePeer(table, h)) /\ Tame(FreePeer(table, h), table)
  <1>. DEFINE s == FindPeer(table, h)
  <1>1. s = NoSlot \/ s \in Slots
    BY FindIs
  <1>2. IsPeer(node, FreeSlot) /\ FreeSlot.hs.phase = "IDLE"
    BY FreeSlotIs
  <1>3. FreePeer(table, h) = IF s = NoSlot THEN table ELSE [table EXCEPT ![s] = FreeSlot]
    BY DEF FreePeer
  <1>. HIDE DEF s
  <1>4. CASE s = NoSlot
    BY <1>3, <1>4 DEF Tame, KeepsKey
  <1>5. CASE s # NoSlot
    <2>1. s \in Slots /\ KeepsKey(FreeSlot.hs, table[s].hs)
      BY <1>1, <1>2, <1>5 DEF KeepsKey, Live
    <2>2. /\ IsTable(node, [table EXCEPT ![s] = FreeSlot])
          /\ Tame([table EXCEPT ![s] = FreeSlot], table)
      BY <1>2, <2>1, SlotReplaced, Zenon
    <2>. QED
      BY <1>3, <1>5, <2>2
  <1>. QED
    BY <1>4, <1>5

\* Changes that keep the keys can follow one another.
LEMMA TameTwice ==
    ASSUME NEW a, NEW b, NEW c, Tame(b, a), Tame(c, b)
    PROVE  Tame(c, a)
  BY DEF Tame, KeepsKey

-----------------------------------------------------------------------------
(* Packets on their way                                                     *)

PlainFields == {"kind", "id", "from", "to"}

\* A ciphertext was made with a key of its sender's session: the transcript in
\* the key has the static key of the sender where the sender's role puts it, and
\* that of the addressee in the other place.
Sealed(ct) ==
    /\ DOMAIN ct.pt = PlainFields
    /\ \E t : \/ ct.k = <<1, t>> /\ t[6] = Static(ct.pt.from) /\ t[4] = ct.pt.to
              \/ ct.k = <<2, t>> /\ t[4] = Static(ct.pt.from) /\ t[6] = ct.pt.to

PacketFields == {"type", "sender", "relayed", "dest", "body"}

IsPacket(pkt) ==
    /\ DOMAIN pkt = PacketFields
    /\ pkt.sender \in Nodes \cup {Virtual}
    /\ pkt.type = "ENCRYPTED" => Sealed(pkt.body)

IsSeq(s) == \E S : s \in Seq(S)

Entry(x) == x.handle \in Handles /\ IsPacket(x.pkt)

\* A ring within its size.
IsBox(box) == IsSeq(box) /\ Len(box) <= RX_ROOM /\ \A i \in DOMAIN box : Entry(box[i])

Boxes(b) == DOMAIN b = Nodes /\ \A m \in Nodes : IsBox(b[m])

\* What node may hand to SendToPeers.
Sendable(node, x) == IsPacket(x.pkt) /\ (x.peer.we_are_central => node \in Centrals)

Sends(node, seq) == IsSeq(seq) /\ \A i \in DOMAIN seq : Sendable(node, seq[i])

LinkType == [Centrals -> [stage : {"down", "linked", "subscribed"},
                          hub_handle : Handles, handle : Handles]]

LEMMA SeqIs ==
    ASSUME NEW s, IsSeq(s)
    PROVE  Len(s) \in Nat /\ DOMAIN s = 1 .. Len(s)
  <1>1. PICK S : s \in Seq(S)
    BY DEF IsSeq
  <1>. QED
    BY <1>1

\* The values of a function on 1..k.
LEMMA FunctionSeq ==
    ASSUME NEW k \in Nat, NEW f, f = [i \in 1 .. k |-> f[i]]
    PROVE  IsSeq(f) /\ Len(f) = k
  <1>. DEFINE S == {f[i] : i \in 1 .. k}
  <1>1. f \in [1 .. k -> S]
    <2>1. \A i \in 1 .. k : f[i] \in S
      OBVIOUS
    <2>. HIDE DEF S
    <2>. QED
      BY <2>1
  <1>. HIDE DEF S
  <1>2. f \in Seq(S) /\ Len(f) = k
    BY <1>1
  <1>. QED
    BY <1>2 DEF IsSeq

LEMMA ConcatSeq ==
    ASSUME NEW a, NEW b, IsSeq(a), IsSeq(b)
    PROVE  /\ IsSeq(a \o b) /\ Len(a \o b) = Len(a) + Len(b)
           /\ \A i \in 1 .. Len(a) : (a \o b)[i] = a[i]
           /\ \A i \in 1 .. Len(b) : (a \o b)[Len(a) + i] = b[i]
           /\ \A i \in DOMAIN (a \o b) :
                 \/ i \in DOMAIN a /\ (a \o b)[i] = a[i]
                 \/ i - Len(a) \in DOMAIN b /\ (a \o b)[i] = b[i - Len(a)]
  <1>1. PICK S : a \in Seq(S)
    BY DEF IsSeq
  <1>2. PICK T : b \in Seq(T)
    BY DEF IsSeq
  <1>3. a \in Seq(S \cup T) /\ b \in Seq(S \cup T)
    BY <1>1, <1>2
  <1>. DEFINE c == a \o b
  <1>4. /\ c \in Seq(S \cup T) /\ Len(c) = Len(a) + Len(b)
        /\ Len(a) \in Nat /\ Len(b) \in Nat /\ DOMAIN a = 1 .. Len(a) /\ DOMAIN b = 1 .. Len(b)
        /\ DOMAIN c = 1 .. Len(a) + Len(b)
    BY <1>3
  <1>5. \A i \in 1 .. Len(a) : c[i] = a[i]
    BY <1>3
  <1>6. \A i \in 1 .. Len(b) : c[Len(a) + i] = b[i]
    BY <1>3
  <1>7. IsSeq(c)
    BY <1>4 DEF IsSeq
  <1>. HIDE DEF c
  <1>8. ASSUME NEW i \in DOMAIN c
        PROVE  \/ i \in DOMAIN a /\ c[i] = a[i]
               \/ i - Len(a) \in DOMAIN b /\ c[i] = b[i - Len(a)]
    <2>1. i \in 1 .. Len(a) \/ i - Len(a) \in 1 .. Len(b)
      BY <1>4
    <2>2. i = Len(a) + (i - Len(a))
      BY <1>4
    <2>. QED
      BY <1>4, <1>5, <1>6, <2>1, <2>2
  <1>. QED
    BY <1>4, <1>5, <1>6, <1>7, <1>8 DEF c

\* What a full ring keeps.
LEMMA FitsIs ==
    ASSUME NEW s, IsSeq(s)
    PROVE  /\ IsSeq(Fits(s)) /\ Len(Fits(s)) <= RX_ROOM
           /\ \A i \in DOMAIN Fits(s) : i \in DOMAIN s /\ Fits(s)[i] = s[i]
  <1>. DEFINE k == IF Len(s) < RX_ROOM THEN Len(s) ELSE RX_ROOM
  <1>1. PICK S : s \in Seq(S)
    BY DEF IsSeq
  <1>2. k \in Nat /\ k <= Len(s) /\ k <= RX_ROOM /\ Len(s) \in Nat
    BY <1>1, PeerAssumption
  <1>3. Fits(s) = SubSeq(s, 1, k)
    BY DEF Fits
  <1>. HIDE DEF k
  <1>4. /\ SubSeq(s, 1, k) \in Seq(S) /\ Len(SubSeq(s, 1, k)) = k
        /\ DOMAIN SubSeq(s, 1, k) = 1 .. k
        /\ \A i \in 1 .. k : SubSeq(s, 1, k)[i] = s[i]
    BY <1>1, <1>2
  <1>5. \A i \in 1 .. k : i \in DOMAIN s
    BY <1>1, <1>2
  <1>. QED
    BY <1>2, <1>3, <1>4, <1>5 DEF IsSeq

\* The handle that a packet gets at a receiver.
LEMMA HandleIs ==
    ASSUME NEW lk \in LinkType, NEW n \in Nodes, NEW m \in Nodes, NEW peer,
           peer.we_are_central => n \in Centrals, m \in Receivers(lk, n, peer)
    PROVE  HandleOf(lk, n, m) \in Handles
  <1>1. \A c \in Centrals : lk[c].hub_handle \in Handles /\ lk[c].handle \in Handles
    BY DEF LinkType
  <1>2. CASE m = Hub
    <2>1. n \in Centrals
      BY <1>2, PeerAssumption DEF Receivers, Subscribers
    <2>. QED
      BY <1>1, <1>2, <2>1 DEF HandleOf
  <1>3. CASE m # Hub
    <2>1. m \in Centrals
      BY <1>3 DEF Nodes
    <2>. QED
      BY <1>1, <1>3, <2>1 DEF HandleOf
  <1>. QED
    BY <1>2, <1>3

\* One receiver's share.
Share(lk, n, seq, m) ==
    LET got == Only(seq, {i \in DOMAIN seq : m \in Receivers(lk, n, seq[i].peer)})
    IN  [i \in DOMAIN got |-> [handle |-> HandleOf(lk, n, m), pkt |-> got[i].pkt]]

LEMMA ShareIs ==
    ASSUME NEW lk \in LinkType, NEW n \in Nodes, NEW m \in Nodes, NEW seq, Sends(n, seq)
    PROVE  IsSeq(Share(lk, n, seq, m)) /\ \A i \in DOMAIN Share(lk, n, seq, m) :
                                              Entry(Share(lk, n, seq, m)[i])
  <1>. DEFINE I == {i \in DOMAIN seq : m \in Receivers(lk, n, seq[i].peer)}
              k == Cardinality(I)
              f == Ascending(I)
              share == Share(lk, n, seq, m)
  <1>1. Len(seq) \in Nat /\ DOMAIN seq = 1 .. Len(seq)
    BY SeqIs DEF Sends
  <1>2. I \subseteq 1 .. Len(seq) /\ \A i \in I : Sendable(n, seq[i]) /\ m \in Receivers(lk, n, seq[i].peer)
    BY <1>1 DEF Sends
  <1>. HIDE DEF I
  <1>3. k \in Nat /\ f \in [1 .. k -> I]
    BY <1>1, <1>2, AscendingLists
  <1>. HIDE DEF f, k
  <1>4. share = [i \in 1 .. k |-> [handle |-> HandleOf(lk, n, m), pkt |-> seq[f[i]].pkt]]
    <2>1. Only(seq, I) = [r \in 1 .. k |-> seq[f[r]]]
      BY <1>3 DEF Only, f
    <2>2. share = [i \in DOMAIN Only(seq, I) |-> [handle |-> HandleOf(lk, n, m), pkt |-> Only(seq, I)[i].pkt]]
      BY DEF Share, I
    <2>. HIDE DEF share
    <2>. QED
      BY <2>1, <2>2
  <1>. HIDE DEF share
  <1>5. IsSeq(share) /\ DOMAIN share = 1 .. k
    <2>1. share = [i \in 1 .. k |-> share[i]]
      BY <1>4
    <2>. QED
      BY <1>3, <2>1, FunctionSeq
  <1>6. ASSUME NEW i \in 1 .. k
        PROVE  Entry(share[i])
    <2>1. f[i] \in I
      BY <1>3
    <2>2. HandleOf(lk, n, m) \in Handles
      <3>1. seq[f[i]].peer.we_are_central => n \in Centrals
        BY <1>2, <2>1 DEF Sendable
      <3>2. m \in Receivers(lk, n, seq[f[i]].peer)
        BY <1>2, <2>1
      <3>. QED
        BY <3>1, <3>2, HandleIs
    <2>3. IsPacket(seq[f[i]].pkt)
      BY <1>2, <2>1 DEF Sendable
    <2>4. share[i].handle = HandleOf(lk, n, m) /\ share[i].pkt = seq[f[i]].pkt
      BY <1>4
    <2>. QED
      BY <2>2, <2>3, <2>4 DEF Entry
  <1>. QED
    BY <1>5, <1>6 DEF share

\* Sending keeps every ring a ring of packets, within its size.
LEMMA SendKeepsBoxes ==
    ASSUME NEW lk \in LinkType, NEW n \in Nodes, NEW seq, Sends(n, seq), NEW b, Boxes(b)
    PROVE  Boxes(SendToPeers(lk, n, seq, b))
  <1>1. SendToPeers(lk, n, seq, b) = [m \in Nodes |-> Fits(b[m] \o Share(lk, n, seq, m))]
    BY DEF SendToPeers, Share
  <1>2. ASSUME NEW m \in Nodes
        PROVE  IsBox(Fits(b[m] \o Share(lk, n, seq, m)))
    <2>. DEFINE share == Share(lk, n, seq, m)
                all == b[m] \o share
    <2>1. IsSeq(share) /\ \A i \in DOMAIN share : Entry(share[i])
      BY ShareIs
    <2>2. IsSeq(b[m]) /\ \A i \in DOMAIN b[m] : Entry(b[m][i])
      BY DEF Boxes, IsBox
    <2>. HIDE DEF share
    <2>3. /\ IsSeq(all)
          /\ \A i \in DOMAIN all : \/ i \in DOMAIN b[m] /\ all[i] = b[m][i]
                                   \/ i - Len(b[m]) \in DOMAIN share /\ all[i] = share[i - Len(b[m])]
      BY <2>1, <2>2, ConcatSeq
    <2>. HIDE DEF all
    <2>4. \A i \in DOMAIN all : Entry(all[i])
      BY <2>1, <2>2, <2>3
    <2>5. IsBox(Fits(all))
      BY <2>3, <2>4, FitsIs DEF IsBox
    <2>. QED
      BY <2>5 DEF all, share
  <1>. QED
    BY <1>1, <1>2 DEF Boxes
-----------------------------------------------------------------------------
(* What is sent                                                             *)

LEMMA PacketIs ==
    ASSUME NEW type, type # "ENCRYPTED", NEW sender \in Nodes \cup {Virtual}
    PROVE  IsPacket(Packet(type, sender))
  BY DEF Packet, IsPacket, PacketFields

LEMMA HandshakeIs ==
    ASSUME NEW node \in Nodes, NEW dest, NEW m
    PROVE  IsPacket(Handshake(node, dest, m))
  BY DEF Handshake, Packet, IsPacket, PacketFields

LEMMA EncryptedIs ==
    ASSUME NEW node \in Nodes, NEW ct, Sealed(ct)
    PROVE  IsPacket(Encrypted(node, ct))
  <1>1. /\ DOMAIN Encrypted(node, ct) = PacketFields
        /\ Encrypted(node, ct).sender = node /\ Encrypted(node, ct).body = ct
    BY DEF Encrypted, Packet, PacketFields
  <1>. QED
    BY <1>1 DEF IsPacket

LEMMA RelayedIs ==
    ASSUME NEW pkt, IsPacket(pkt)
    PROVE  IsPacket([pkt EXCEPT !.relayed = TRUE])
  <1>. DEFINE new == [pkt EXCEPT !.relayed = TRUE]
  <1>1. /\ DOMAIN new = PacketFields /\ new.sender = pkt.sender
        /\ new.type = pkt.type /\ new.body = pkt.body
    BY DEF IsPacket, PacketFields
  <1>. HIDE DEF new
  <1>2. IsPacket(new)
    BY <1>1 DEF IsPacket
  <1>. QED
    BY <1>2 DEF new

\* A session's ciphertext for the key it has authenticated.
LEMMA SessionSeals ==
    ASSUME NEW node, NEW hs, Shape(node, hs), hs.phase = "TRANSPORT",
           NEW pt, DOMAIN pt = PlainFields, pt.from = node, pt.to = hs.rs
    PROVE  Sealed(CipherText(hs.send_cs, pt))
  <1>. DEFINE ct == CipherText(hs.send_cs, pt)
  <1>1. ct.k = hs.send_cs.k /\ ct.pt = pt
    BY DEF CipherText
  <1>. HIDE DEF ct
  <1>2. PICK t : Initiated(node, hs, t) \/ Responded(node, hs, t)
    BY DEF Shape
  <1>3. \/ ct.k = <<1, t>> /\ t[6] = Static(pt.from) /\ t[4] = pt.to
        \/ ct.k = <<2, t>> /\ t[4] = Static(pt.from) /\ t[6] = pt.to
    BY <1>1, <1>2 DEF Initiated, Responded
  <1>4. Sealed(ct)
    BY <1>1, <1>3 DEF Sealed
  <1>. QED
    BY <1>4 DEF ct

LEMMA WhenSends ==
    ASSUME NEW node, NEW cond \in BOOLEAN, NEW x, cond => Sendable(node, x)
    PROVE  Sends(node, When(cond, x))
  <1>1. CASE cond
    <2>1. When(cond, x) = <<x>> /\ <<x>> \in Seq({x})
      BY <1>1 DEF When
    <2>2. \A i \in DOMAIN <<x>> : <<x>>[i] = x
      OBVIOUS
    <2>. QED
      BY <1>1, <2>1, <2>2 DEF Sends, IsSeq
  <1>2. CASE ~cond
    <2>1. When(cond, x) = <<>> /\ <<>> \in Seq({})
      BY <1>2 DEF When
    <2>. QED
      BY <2>1 DEF Sends, IsSeq
  <1>. QED
    BY <1>1, <1>2

LEMMA OneSends ==
    ASSUME NEW node, NEW x, Sendable(node, x)
    PROVE  Sends(node, <<x>>)
  <1>1. Sends(node, When(TRUE, x))
    BY WhenSends
  <1>. QED
    BY <1>1 DEF When

LEMMA ConcatSends ==
    ASSUME NEW node, NEW a, NEW b, Sends(node, a), Sends(node, b)
    PROVE  Sends(node, a \o b)
  <1>1. IsSeq(a) /\ IsSeq(b)
    BY DEF Sends
  <1>2. /\ IsSeq(a \o b)
        /\ \A i \in DOMAIN (a \o b) :
              \/ i \in DOMAIN a /\ (a \o b)[i] = a[i]
              \/ i - Len(a) \in DOMAIN b /\ (a \o b)[i] = b[i - Len(a)]
    BY <1>1, ConcatSeq
  <1>. DEFINE c == a \o b
  <1>. HIDE DEF c
  <1>3. Sends(node, c)
    BY <1>2 DEF Sends, c
  <1>. QED
    BY <1>3 DEF c

LEMMA ToEachSends ==
    ASSUME NEW node, NEW table, IsTable(node, table), NEW slots, slots \subseteq Slots,
           NEW pkts, \A s \in slots : IsPacket(pkts[s])
    PROVE  Sends(node, ToEach(table, slots, pkts))
  <1>. DEFINE f == Ascending(slots)
              k == Cardinality(slots)
              seq == ToEach(table, slots, pkts)
  <1>1. k \in Nat /\ f \in [1 .. k -> slots]
    BY PeerAssumption, AscendingLists DEF Slots
  <1>. HIDE DEF k, f
  <1>2. seq = [i \in 1 .. k |-> To(table[f[i]], pkts[f[i]])]
    BY <1>1 DEF ToEach, f
  <1>. HIDE DEF seq
  <1>3. IsSeq(seq) /\ DOMAIN seq = 1 .. k
    <2>1. seq = [i \in 1 .. k |-> seq[i]]
      BY <1>2
    <2>. QED
      BY <1>1, <2>1, FunctionSeq
  <1>4. ASSUME NEW i \in 1 .. k
        PROVE  Sendable(node, seq[i])
    <2>1. f[i] \in slots
      BY <1>1
    <2>2. seq[i].peer = table[f[i]] /\ seq[i].pkt = pkts[f[i]]
      BY <1>2 DEF To
    <2>3. table[f[i]].we_are_central => node \in Centrals
      BY <2>1 DEF IsTable, IsPeer
    <2>. QED
      BY <2>1, <2>2, <2>3 DEF Sendable
  <1>5. Sends(node, seq)
    BY <1>3, <1>4 DEF Sends
  <1>. QED
    BY <1>5 DEF seq

LEMMA ToAllSends ==
    ASSUME NEW node, NEW table, IsTable(node, table), NEW slots, slots \subseteq Slots,
           NEW pkt, IsPacket(pkt)
    PROVE  Sends(node, ToAll(table, slots, pkt))
  <1>. DEFINE pkts == [s \in Slots |-> pkt]
  <1>1. \A s \in slots : IsPacket(pkts[s])
    OBVIOUS
  <1>. HIDE DEF pkts
  <1>2. Sends(node, ToEach(table, slots, pkts))
    BY <1>1, ToEachSends
  <1>. QED
    BY <1>2 DEF ToAll, pkts

\* A packet to the peer in a slot.
LEMMA ToSlot ==
    ASSUME NEW node, NEW p, IsPeer(node, p), NEW pkt, IsPacket(pkt)
    PROVE  Sendable(node, To(p, pkt))
  BY DEF IsPeer, Sendable, To

-----------------------------------------------------------------------------
(* The inductive invariant                                                  *)

Tables(P) == DOMAIN P = Nodes /\ \A n \in Nodes : IsTable(n, P[n])

\* Keys in use were generated, each for one slot.
KeysFresh(P, K) ==
    \A n \in Nodes : \A s \in Slots :
        P[n][s].hs.phase \in Live =>
            \E i \in Nat : i < K[n] /\ P[n][s].hs.e = Ephemeral(n, i)

KeysDistinct(P) ==
    \A n \in Nodes : \A s, t \in Slots :
        /\ P[n][s].hs.phase \in Live /\ P[n][t].hs.phase \in Live
        /\ P[n][s].hs.e = P[n][t].hs.e
        => s = t

Keys(P, K) == KeysFresh(P, K) /\ KeysDistinct(P)

IsDelivered(n, x) == x.pt.to = Static(n) /\ x.rs = Static(x.pt.from)

Deliveries(d) ==
    DOMAIN d = Nodes /\ \A n \in Nodes : IsSeq(d[n]) /\ \A i \in DOMAIN d[n] : IsDelivered(n, d[n][i])

IInv ==
    /\ Tables(peers) /\ Boxes(inbox) /\ link \in LinkType
    /\ nextKey \in [Nodes -> Nat] /\ Keys(peers, nextKey)
    /\ Deliveries(delivered)

\* One node's table changes and no key is new.
LEMMA TableChanged ==
    ASSUME NEW P, NEW K, Tables(P), Keys(P, K), NEW n \in Nodes,
           NEW table, IsTable(n, table), Tame(table, P[n])
    PROVE  Tables([P EXCEPT ![n] = table]) /\ Keys([P EXCEPT ![n] = table], K)
  <1>. DEFINE Q == [P EXCEPT ![n] = table]
  <1>1. DOMAIN Q = Nodes /\ \A m \in Nodes : Q[m] = IF m = n THEN table ELSE P[m]
    BY DEF Tables
  <1>. HIDE DEF Q
  <1>2. Tables(Q)
    BY <1>1 DEF Tables
  <1>3. \A m \in Nodes : \A s \in Slots : KeepsKey(Q[m][s].hs, P[m][s].hs)
    BY <1>1 DEF Tame, KeepsKey
  <1>4. KeysFresh(Q, K)
    BY <1>3 DEF Keys, KeysFresh, KeepsKey
  <1>5. KeysDistinct(Q)
    BY <1>3 DEF Keys, KeysDistinct, KeepsKey
  <1>. QED
    BY <1>2, <1>4, <1>5 DEF Q, Keys

\* One slot may take the key that node n generates next.
LEMMA KeyTaken ==
    ASSUME NEW P, NEW K, K \in [Nodes -> Nat], Tables(P), Keys(P, K), NEW n \in Nodes,
           NEW table, IsTable(n, table), NEW s \in Slots,
           \A t \in Slots \ {s} : KeepsKey(table[t].hs, P[n][t].hs),
           table[s].hs.phase \in Live => table[s].hs.e = Ephemeral(n, K[n])
    PROVE  /\ Tables([P EXCEPT ![n] = table])
           /\ Keys([P EXCEPT ![n] = table], [K EXCEPT ![n] = @ + 1])
           /\ [K EXCEPT ![n] = @ + 1] \in [Nodes -> Nat]
  <1>. DEFINE Q == [P EXCEPT ![n] = table]
              L == [K EXCEPT ![n] = @ + 1]
  <1>1. DOMAIN Q = Nodes /\ \A m \in Nodes : Q[m] = IF m = n THEN table ELSE P[m]
    BY DEF Tables
  <1>2. L \in [Nodes -> Nat] /\ L[n] = K[n] + 1 /\ K[n] \in Nat /\ \A m \in Nodes : m # n => L[m] = K[m]
    OBVIOUS
  <1>. HIDE DEF Q, L
  <1>3. Tables(Q)
    BY <1>1 DEF Tables
  <1>4. \A m \in Nodes : \A t \in Slots :
           (m = n /\ t = s) \/ KeepsKey(Q[m][t].hs, P[m][t].hs)
    BY <1>1 DEF KeepsKey
  <1>5. Q[n][s].hs.phase \in Live => Q[n][s].hs.e = Ephemeral(n, K[n])
    BY <1>1
  <1>6. KeysFresh(Q, L)
    <2>. SUFFICES ASSUME NEW m \in Nodes, NEW t \in Slots, Q[m][t].hs.phase \in Live
                  PROVE  \E i \in Nat : i < L[m] /\ Q[m][t].hs.e = Ephemeral(m, i)
      BY DEF KeysFresh
    <2>1. CASE m = n /\ t = s
      <3>1. K[n] \in Nat /\ K[n] < L[n]
        BY <1>2
      <3>. QED
        BY <1>5, <2>1, <3>1
    <2>2. CASE ~ (m = n /\ t = s)
      <3>1. P[m][t].hs.phase \in Live /\ Q[m][t].hs.e = P[m][t].hs.e
        BY <1>4, <2>2 DEF KeepsKey
      <3>2. PICK i \in Nat : i < K[m] /\ P[m][t].hs.e = Ephemeral(m, i)
        BY <3>1 DEF Keys, KeysFresh
      <3>3. i < L[m]
        BY <1>2, <3>2
      <3>. QED
        BY <3>1, <3>2, <3>3
    <2>. QED
      BY <2>1, <2>2
  <1>7. ASSUME NEW t \in Slots, t # s, Q[n][t].hs.phase \in Live, Q[n][s].hs.phase \in Live
        PROVE  Q[n][t].hs.e # Q[n][s].hs.e
    <2>1. P[n][t].hs.phase \in Live /\ Q[n][t].hs.e = P[n][t].hs.e
      BY <1>4, <1>7 DEF KeepsKey
    <2>2. PICK i \in Nat : i < K[n] /\ P[n][t].hs.e = Ephemeral(n, i)
      BY <2>1 DEF Keys, KeysFresh
    <2>3. i # K[n]
      BY <1>2, <2>2
    <2>. QED
      BY <1>5, <1>7, <2>1, <2>2, <2>3 DEF Ephemeral
  <1>8. KeysDistinct(Q)
    <2>. SUFFICES ASSUME NEW m \in Nodes, NEW t \in Slots, NEW u \in Slots,
                         Q[m][t].hs.phase \in Live, Q[m][u].hs.phase \in Live,
                         Q[m][t].hs.e = Q[m][u].hs.e
                  PROVE  t = u
      BY DEF KeysDistinct
    <2>1. CASE m = n /\ (t = s \/ u = s)
      BY <1>7, <2>1
    <2>2. CASE ~ (m = n /\ (t = s \/ u = s))
      <3>1. KeepsKey(Q[m][t].hs, P[m][t].hs) /\ KeepsKey(Q[m][u].hs, P[m][u].hs)
        BY <1>4, <2>2
      <3>. QED
        BY <3>1 DEF KeepsKey, Keys, KeysDistinct
    <2>. QED
      BY <2>1, <2>2
  <1>. QED
    BY <1>2, <1>3, <1>6, <1>8 DEF Q, L, Keys
-----------------------------------------------------------------------------
(* The first packet of a ring                                               *)

LEMMA HubIsNode == Hub \in Nodes /\ Centrals \subseteq Nodes
  BY DEF Nodes

\* The first packet, and the ring without it.
LEMMA HeadIs ==
    ASSUME IInv, NEW n \in Nodes, inbox[n] # <<>>
    PROVE  Entry(Head(inbox[n])) /\ Boxes(Rest(n))
  <1>. DEFINE box == inbox[n]
              tail == Tail(box)
  <1>1. IsBox(box)
    BY DEF IInv, Boxes
  <1>2. PICK S : box \in Seq(S)
    BY <1>1 DEF IsBox, IsSeq
  <1>3. Len(box) \in Nat /\ Len(box) <= RX_ROOM /\ DOMAIN box = 1 .. Len(box)
    BY <1>1, <1>2 DEF IsBox
  <1>4. Head(box) = box[1] /\ 1 \in DOMAIN box
    BY <1>2, <1>3
  <1>5. /\ tail \in Seq(S) /\ Len(tail) = Len(box) - 1 /\ DOMAIN tail = 1 .. Len(box) - 1
        /\ \A i \in 1 .. Len(box) - 1 : tail[i] = box[i + 1]
    BY <1>2
  <1>6. \A i \in 1 .. Len(box) - 1 : i + 1 \in DOMAIN box
    BY <1>3
  <1>. HIDE DEF tail
  <1>7. IsBox(tail)
    <2>1. Len(tail) <= RX_ROOM
      BY <1>3, <1>5, PeerAssumption
    <2>. QED
      BY <1>1, <1>5, <1>6, <2>1 DEF IsBox, IsSeq
  <1>8. Rest(n) = [inbox EXCEPT ![n] = tail]
    BY DEF Rest, tail
  <1>9. Boxes(Rest(n))
    BY <1>7, <1>8 DEF IInv, Boxes
  <1>. QED
    BY <1>1, <1>4, <1>9 DEF IsBox

\* A table with one field of one slot changed.
LEMMA IdSet ==
    ASSUME NEW node, NEW table, IsTable(node, table), NEW s \in Slots,
           NEW id \in Nodes \cup {Virtual}
    PROVE  /\ IsTable(node, [table EXCEPT ![s].id = id])
           /\ Tame([table EXCEPT ![s].id = id], table)
  <1>. DEFINE p == [table[s] EXCEPT !.id = id]
  <1>1. IsPeer(node, table[s])
    BY DEF IsTable
  <1>2. /\ DOMAIN p = PeerFields /\ p.id = id /\ p.hs = table[s].hs /\ p.active = table[s].active
        /\ p.handle = table[s].handle /\ p.addr = table[s].addr /\ p.sign = table[s].sign
        /\ p.we_are_central = table[s].we_are_central
        /\ p.client = table[s].client
    BY <1>1 DEF IsPeer, PeerFields
  <1>3. [table EXCEPT ![s].id = id] = [table EXCEPT ![s] = p]
    BY DEF IsTable
  <1>. HIDE DEF p
  <1>4. IsPeer(node, p) /\ KeepsKey(p.hs, table[s].hs)
    BY <1>1, <1>2 DEF IsPeer, KeepsKey
  <1>5. IsTable(node, [table EXCEPT ![s] = p]) /\ Tame([table EXCEPT ![s] = p], table)
    BY <1>4, SlotReplaced, Zenon
  <1>. QED
    BY <1>3, <1>5

LEMMA AnnouncedSet ==
    ASSUME NEW node, NEW table, IsTable(node, table), NEW s \in Slots
    PROVE  /\ IsTable(node, [table EXCEPT ![s].announce_sent = TRUE])
           /\ Tame([table EXCEPT ![s].announce_sent = TRUE], table)
  <1>. DEFINE p == [table[s] EXCEPT !.announce_sent = TRUE]
  <1>1. IsPeer(node, table[s])
    BY DEF IsTable
  <1>2. /\ DOMAIN p = PeerFields /\ p.id = table[s].id /\ p.hs = table[s].hs
        /\ p.active = table[s].active /\ p.handle = table[s].handle /\ p.addr = table[s].addr
        /\ p.sign = table[s].sign /\ p.we_are_central = table[s].we_are_central
        /\ p.client = table[s].client
    BY <1>1 DEF IsPeer, PeerFields
  <1>3. [table EXCEPT ![s].announce_sent = TRUE] = [table EXCEPT ![s] = p]
    BY DEF IsTable
  <1>. HIDE DEF p
  <1>4. IsPeer(node, p) /\ KeepsKey(p.hs, table[s].hs)
    BY <1>1, <1>2 DEF IsPeer, KeepsKey
  <1>5. IsTable(node, [table EXCEPT ![s] = p]) /\ Tame([table EXCEPT ![s] = p], table)
    BY <1>4, SlotReplaced, Zenon
  <1>. QED
    BY <1>3, <1>5

LEMMA ClientSet ==
    ASSUME NEW node, NEW table, IsTable(node, table), NEW s \in Slots, node \in Centrals
    PROVE  /\ IsTable(node, [table EXCEPT ![s].client = TRUE])
           /\ Tame([table EXCEPT ![s].client = TRUE], table)
  <1>. DEFINE p == [table[s] EXCEPT !.client = TRUE]
  <1>1. IsPeer(node, table[s])
    BY DEF IsTable
  <1>2. /\ DOMAIN p = PeerFields /\ p.id = table[s].id /\ p.hs = table[s].hs
        /\ p.active = table[s].active /\ p.handle = table[s].handle /\ p.addr = table[s].addr
        /\ p.sign = table[s].sign /\ p.we_are_central = table[s].we_are_central
        /\ p.client = TRUE
    BY <1>1 DEF IsPeer, PeerFields
  <1>3. [table EXCEPT ![s].client = TRUE] = [table EXCEPT ![s] = p]
    BY DEF IsTable
  <1>. HIDE DEF p
  <1>4. IsPeer(node, p) /\ KeepsKey(p.hs, table[s].hs)
    BY <1>1, <1>2 DEF IsPeer, KeepsKey
  <1>5. IsTable(node, [table EXCEPT ![s] = p]) /\ Tame([table EXCEPT ![s] = p], table)
    BY <1>4, SlotReplaced, Zenon
  <1>. QED
    BY <1>3, <1>5

\* A slot with another handshake state.
LEMMA HsSet ==
    ASSUME NEW node, NEW p, IsPeer(node, p), NEW hs, Shape(node, hs)
    PROVE  IsPeer(node, [p EXCEPT !.hs = hs]) /\ [p EXCEPT !.hs = hs].hs = hs
  <1>. DEFINE q == [p EXCEPT !.hs = hs]
  <1>1. /\ DOMAIN q = PeerFields /\ q.id = p.id /\ q.hs = hs /\ q.active = p.active
        /\ q.handle = p.handle /\ q.addr = p.addr /\ q.sign = p.sign
        /\ q.we_are_central = p.we_are_central /\ q.client = p.client
    BY DEF IsPeer, PeerFields
  <1>. HIDE DEF q
  <1>2. IsPeer(node, q)
    BY <1>1 DEF IsPeer
  <1>. QED
    BY <1>1, <1>2 DEF q

\* The table in which a packet is handled.
LEMMA AdmittedIs ==
    ASSUME IInv, NEW n \in Nodes, inbox[n] # <<>>
    PROVE  IsTable(n, Admitted(n)) /\ Tame(Admitted(n), peers[n])
  <1>. DEFINE h == Head(inbox[n]).handle
              id == Pkt(n).sender
              t1 == IF FindPeer(peers[n], h) # NoSlot THEN peers[n]
                    ELSE AllocPeer(peers[n], h, Nobody, FALSE)
              s == FindPeer(t1, h)
  <1>1. h \in Handles /\ id \in Nodes \cup {Virtual}
    BY HeadIs DEF Entry, IsPacket, Pkt
  <1>2. IsTable(n, peers[n]) /\ Tame(peers[n], peers[n])
    BY DEF IInv, Tables, Tame, KeepsKey
  <1>. HIDE DEF h
  <1>3. /\ IsTable(n, AllocPeer(peers[n], h, Nobody, FALSE))
        /\ Tame(AllocPeer(peers[n], h, Nobody, FALSE), peers[n])
    BY <1>1, <1>2, AllocIs
  <1>4. IsTable(n, t1) /\ Tame(t1, peers[n])
    BY <1>2, <1>3
  <1>5. Admitted(n) = IF s # NoSlot /\ t1[s].id = Nobody THEN [t1 EXCEPT ![s].id = id] ELSE t1
    BY DEF Admitted, h
  <1>. HIDE DEF t1, id
  <1>6. s = NoSlot \/ s \in Slots
    BY FindIs
  <1>. HIDE DEF s
  <1>7. CASE s # NoSlot /\ t1[s].id = Nobody
    <2>1. /\ IsTable(n, [t1 EXCEPT ![s].id = id]) /\ Tame([t1 EXCEPT ![s].id = id], t1)
      BY <1>1, <1>4, <1>6, <1>7, IdSet
    <2>2. Tame([t1 EXCEPT ![s].id = id], peers[n])
      BY <1>4, <2>1, TameTwice
    <2>. QED
      BY <1>5, <1>7, <2>1, <2>2
  <1>8. CASE ~ (s # NoSlot /\ t1[s].id = Nobody)
    BY <1>4, <1>5, <1>8
  <1>. QED
    BY <1>7, <1>8

LEMMA RelaysSend ==
    ASSUME IInv, NEW n \in Nodes, inbox[n] # <<>>, NEW table, IsTable(n, table)
    PROVE  Sends(n, Relays(n, table))
  <1>. DEFINE relayed == [Pkt(n) EXCEPT !.relayed = TRUE]
              slots == {s \in Active(table) : table[s].handle # Head(inbox[n]).handle}
  <1>1. IsPacket(relayed)
    BY HeadIs, RelayedIs DEF Entry, Pkt
  <1>2. slots \subseteq Slots
    BY DEF Active
  <1>3. Relays(n, table) = IF Pkt(n).relayed THEN <<>> ELSE ToAll(table, slots, relayed)
    BY DEF Relays
  <1>. HIDE DEF relayed, slots
  <1>4. Sends(n, ToAll(table, slots, relayed))
    BY <1>1, <1>2, ToAllSends
  <1>5. Sends(n, <<>>)
    <2>1. <<>> \in Seq({})
      OBVIOUS
    <2>. QED
      BY <2>1 DEF Sends, IsSeq
  <1>. QED
    BY <1>3, <1>4, <1>5

\* What a step has to show about the tables when it makes no key.
LEMMA Kept ==
    ASSUME IInv, NEW n \in Nodes, NEW table, IsTable(n, table), Tame(table, peers[n]),
           peers' = [peers EXCEPT ![n] = table], nextKey' = nextKey
    PROVE  Tables(peers') /\ nextKey' \in [Nodes -> Nat] /\ Keys(peers', nextKey')
  <1>1. /\ Tables([peers EXCEPT ![n] = table])
        /\ Keys([peers EXCEPT ![n] = table], nextKey)
    BY TableChanged DEF IInv
  <1>. QED
    BY <1>1 DEF IInv
-----------------------------------------------------------------------------
(* The handlers                                                             *)

LEMMA DiscardKeeps ==
    ASSUME IInv, NEW n \in Nodes, inbox[n] # <<>>, NEW table, NEW s,
           IsTable(n, table), Tame(table, peers[n]), Discard(n, table, s)
    PROVE  IInv'
  <1>1. /\ peers' = [peers EXCEPT ![n] = table] /\ inbox' = Rest(n)
        /\ link' = link /\ nextKey' = nextKey /\ delivered' = delivered
    BY DEF Discard
  <1>2. Tables(peers') /\ nextKey' \in [Nodes -> Nat] /\ Keys(peers', nextKey')
    BY <1>1, Kept
  <1>3. Boxes(inbox')
    BY <1>1, HeadIs
  <1>. QED
    BY <1>1, <1>2, <1>3 DEF IInv

LEMMA MessageKeeps ==
    ASSUME IInv, NEW n \in Nodes, inbox[n] # <<>>, NEW table, NEW s,
           IsTable(n, table), Tame(table, peers[n]), HandleMessage(n, table, s)
    PROVE  IInv'
  <1>1. /\ peers' = [peers EXCEPT ![n] = table]
        /\ inbox' = SendToPeers(link, n, Relays(n, table), Rest(n))
        /\ link' = link /\ nextKey' = nextKey /\ delivered' = delivered
    BY DEF HandleMessage
  <1>2. Tables(peers') /\ nextKey' \in [Nodes -> Nat] /\ Keys(peers', nextKey')
    BY <1>1, Kept
  <1>3. Boxes(inbox')
    <2>1. Boxes(Rest(n)) /\ Sends(n, Relays(n, table)) /\ link \in LinkType
      BY HeadIs, RelaysSend DEF IInv
    <2>. QED
      BY <1>1, <2>1, SendKeepsBoxes
  <1>. QED
    BY <1>1, <1>2, <1>3 DEF IInv

LEMMA SyncKeeps ==
    ASSUME IInv, NEW n \in Nodes, inbox[n] # <<>>, NEW table, NEW s, s = NoSlot \/ s \in Slots,
           IsTable(n, table), Tame(table, peers[n]), HandleRequestSync(n, table, s)
    PROVE  IInv'
  <1>. DEFINE new == [table EXCEPT ![s].announce_sent = TRUE]
  <1>1. /\ peers' = [peers EXCEPT ![n] = new] /\ s \in Slots
        /\ inbox' = SendToPeers(link, n, <<To(table[s], Announce(n))>>, Rest(n))
        /\ link' = link /\ nextKey' = nextKey /\ delivered' = delivered
    BY DEF HandleRequestSync, Accepts
  <1>2. IsTable(n, new) /\ Tame(new, table)
    BY <1>1, AnnouncedSet
  <1>. HIDE DEF new
  <1>3. Tame(new, peers[n])
    BY <1>2, TameTwice
  <1>4. Tables(peers') /\ nextKey' \in [Nodes -> Nat] /\ Keys(peers', nextKey')
    BY <1>1, <1>2, <1>3, Kept
  <1>5. Boxes(inbox')
    <2>1. IsPacket(Announce(n)) /\ IsPeer(n, table[s])
      BY <1>1, PacketIs DEF Announce, IsTable
    <2>2. Sends(n, <<To(table[s], Announce(n))>>)
      BY <2>1, ToSlot, OneSends
    <2>3. Boxes(Rest(n)) /\ link \in LinkType
      BY HeadIs DEF IInv
    <2>. QED
      BY <1>1, <2>2, <2>3, SendKeepsBoxes
  <1>. QED
    BY <1>1, <1>4, <1>5 DEF IInv

\* A ciphertext that a session opens is for its node, from the device whose key
\* the session has authenticated.
LEMMA OpenedIsDelivered ==
    ASSUME NEW n, NEW hs, Shape(n, hs), hs.phase = "TRANSPORT", NEW ct, Sealed(ct),
           ct.k = hs.recv_cs.k
    PROVE  ct.pt.to = Static(n) /\ hs.rs = Static(ct.pt.from)
  <1>1. PICK t : Initiated(n, hs, t) \/ Responded(n, hs, t)
    BY DEF Shape
  <1>2. PICK u : \/ ct.k = <<1, u>> /\ u[6] = Static(ct.pt.from) /\ u[4] = ct.pt.to
                 \/ ct.k = <<2, u>> /\ u[4] = Static(ct.pt.from) /\ u[6] = ct.pt.to
    BY DEF Sealed
  <1>3. CASE Initiated(n, hs, t)
    <2>1. ct.k = <<2, t>>
      BY <1>3 DEF Initiated
    <2>2. t = u /\ u[4] = Static(ct.pt.from) /\ u[6] = ct.pt.to
      BY <1>2, <2>1
    <2>. QED
      BY <1>3, <2>2 DEF Initiated
  <1>4. CASE Responded(n, hs, t)
    <2>1. ct.k = <<1, t>>
      BY <1>4 DEF Responded
    <2>2. t = u /\ u[6] = Static(ct.pt.from) /\ u[4] = ct.pt.to
      BY <1>2, <2>1
    <2>. QED
      BY <1>4, <2>2 DEF Responded
  <1>. QED
    BY <1>1, <1>3, <1>4

\* The slot after a nonce has advanced.
LEMMA AdvancedIs ==
    ASSUME NEW node, NEW p, IsPeer(node, p)
    PROVE  /\ IsPeer(node, Advanced(p)) /\ KeepsKey(Advanced(p).hs, p.hs)
           /\ IsPeer(node, [p EXCEPT !.hs.recv_cs = NextNonce(@)])
           /\ KeepsKey([p EXCEPT !.hs.recv_cs = NextNonce(@)].hs, p.hs)
  <1>. DEFINE sent == [p.hs EXCEPT !.send_cs = NextNonce(@)]
              read == [p.hs EXCEPT !.recv_cs = NextNonce(@)]
  <1>1. Shape(node, p.hs) /\ DOMAIN p = PeerFields
    BY DEF IsPeer
  <1>2. /\ Shape(node, sent) /\ sent.phase = p.hs.phase /\ sent.e = p.hs.e
        /\ Shape(node, read) /\ read.phase = p.hs.phase /\ read.e = p.hs.e
    BY <1>1, NonceShape
  <1>3. Advanced(p) = [p EXCEPT !.hs = sent]
    BY DEF Advanced
  <1>4. [p EXCEPT !.hs.recv_cs = NextNonce(@)] = [p EXCEPT !.hs = read]
    OBVIOUS
  <1>. HIDE DEF sent, read
  <1>5. IsPeer(node, [p EXCEPT !.hs = sent]) /\ [p EXCEPT !.hs = sent].hs = sent
    BY <1>2, HsSet
  <1>6. IsPeer(node, [p EXCEPT !.hs = read]) /\ [p EXCEPT !.hs = read].hs = read
    BY <1>2, HsSet
  <1>7. KeepsKey(sent, p.hs) /\ KeepsKey(read, p.hs)
    BY <1>2 DEF KeepsKey
  <1>. QED
    BY <1>3, <1>4, <1>5, <1>6, <1>7
-----------------------------------------------------------------------------
(* Handlers that read or change a handshake                                 *)

LEMMA EncryptedKeeps ==
    ASSUME IInv, NEW n \in Nodes, inbox[n] # <<>>, NEW table, NEW s, s = NoSlot \/ s \in Slots,
           IsTable(n, table), Tame(table, peers[n]), HandleEncrypted(n, table, s)
    PROVE  IInv'
  <1>. DEFINE p == table[s]
              ct == Pkt(n).body
              session == p.hs.phase = "TRANSPORT"
              opens == session /\ Decrypts(p.hs.recv_cs, ct)
              private == opens /\ ct.pt.kind = "PRIVATE_MSG"
              read == [p EXCEPT !.hs.recv_cs = NextNonce(@)]
              receipt == [ct.pt EXCEPT !.kind = "DELIVERED", !.from = n, !.to = p.hs.rs]
              q == CASE private -> Advanced(read)
                     [] session /\ ~private -> read
                     [] OTHER -> p
              answer == When(private, To(p, Encrypted(n, CipherText(p.hs.send_cs, receipt))))
              told == When(private, [pt |-> ct.pt, rs |-> p.hs.rs])
  <1>1. /\ Pkt(n).type = "ENCRYPTED" /\ s \in Slots
        /\ peers' = [peers EXCEPT ![n] = [table EXCEPT ![s] = q]]
        /\ inbox' = SendToPeers(link, n, answer, Rest(n))
        /\ delivered' = [delivered EXCEPT ![n] = @ \o told]
        /\ link' = link /\ nextKey' = nextKey
    BY DEF HandleEncrypted, Accepts
  <1>2. IsPeer(n, p) /\ Shape(n, p.hs)
    BY <1>1 DEF IsTable, IsPeer
  <1>3. Sealed(ct) /\ Boxes(Rest(n))
    BY <1>1, HeadIs DEF Entry, IsPacket, Pkt
  <1>. HIDE DEF p, ct
  <1>4. private \in BOOLEAN
    OBVIOUS
  <1>5. IsPeer(n, q) /\ KeepsKey(q.hs, p.hs)
    <2>1. IsPeer(n, read) /\ KeepsKey(read.hs, p.hs)
      BY <1>2, AdvancedIs
    <2>. HIDE DEF read
    <2>2. IsPeer(n, Advanced(read)) /\ KeepsKey(Advanced(read).hs, read.hs)
      BY <2>1, AdvancedIs
    <2>3. KeepsKey(Advanced(read).hs, p.hs) /\ KeepsKey(p.hs, p.hs)
      BY <2>1, <2>2 DEF KeepsKey
    <2>4. q \in {Advanced(read), read, p}
      <3>. HIDE DEF private, session
      <3>. QED
        OBVIOUS
    <2>. HIDE DEF q
    <2>. QED
      BY <1>2, <2>1, <2>2, <2>3, <2>4
  <1>. HIDE DEF q
  <1>6. Tables(peers') /\ nextKey' \in [Nodes -> Nat] /\ Keys(peers', nextKey')
    <2>. DEFINE new == [table EXCEPT ![s] = q]
    <2>1. IsTable(n, new) /\ Tame(new, table)
      BY <1>1, <1>5, SlotReplaced, Zenon DEF p
    <2>2. Tame(new, peers[n])
      BY <2>1, TameTwice
    <2>. HIDE DEF new
    <2>3. peers' = [peers EXCEPT ![n] = new]
      BY <1>1 DEF new
    <2>. QED
      BY <1>1, <2>1, <2>2, <2>3, Kept
  <1>7. Boxes(inbox')
    <2>1. private => Sendable(n, To(p, Encrypted(n, CipherText(p.hs.send_cs, receipt))))
      <3>. SUFFICES ASSUME private PROVE Sendable(n, To(p, Encrypted(n, CipherText(p.hs.send_cs, receipt))))
        OBVIOUS
      <3>1. DOMAIN ct.pt = PlainFields
        BY <1>3 DEF Sealed
      <3>2. DOMAIN receipt = PlainFields /\ receipt.from = n /\ receipt.to = p.hs.rs
        BY <3>1 DEF PlainFields
      <3>. HIDE DEF receipt
      <3>3. Sealed(CipherText(p.hs.send_cs, receipt))
        BY <1>2, <3>2, SessionSeals
      <3>4. IsPacket(Encrypted(n, CipherText(p.hs.send_cs, receipt)))
        BY <3>3, EncryptedIs
      <3>. QED
        BY <1>2, <3>4, ToSlot
    <2>. HIDE DEF private, receipt
    <2>2. Sends(n, answer)
      BY <1>4, <2>1, WhenSends
    <2>. HIDE DEF answer
    <2>. QED
      BY <1>1, <1>3, <2>2, SendKeepsBoxes DEF IInv
  <1>8. Deliveries(delivered')
    <2>1. /\ IsSeq(told) /\ \A i \in DOMAIN told : IsDelivered(n, told[i])
      <3>. DEFINE x == [pt |-> ct.pt, rs |-> p.hs.rs]
      <3>1. CASE private
        <4>1. told = <<x>> /\ <<x>> \in Seq({x})
          BY <3>1 DEF When
        <4>2. IsDelivered(n, x)
          BY <1>2, <1>3, <3>1, OpenedIsDelivered DEF Decrypts, IsDelivered
        <4>. HIDE DEF x
        <4>3. \A i \in DOMAIN <<x>> : <<x>>[i] = x
          OBVIOUS
        <4>. HIDE DEF told
        <4>. QED
          BY <4>1, <4>2, <4>3 DEF IsSeq
      <3>2. CASE ~private
        <4>1. told = <<>> /\ <<>> \in Seq({})
          BY <3>2 DEF When
        <4>. HIDE DEF told
        <4>. QED
          BY <4>1 DEF IsSeq
      <3>. QED
        BY <3>1, <3>2
    <2>. HIDE DEF told
    <2>. DEFINE old == delivered[n]
                all == old \o told
    <2>2. IsSeq(old) /\ \A i \in DOMAIN old : IsDelivered(n, old[i])
      BY DEF IInv, Deliveries
    <2>. HIDE DEF old
    <2>3. /\ IsSeq(all)
          /\ \A i \in DOMAIN all : \/ i \in DOMAIN old /\ all[i] = old[i]
                                   \/ i - Len(old) \in DOMAIN told /\ all[i] = told[i - Len(old)]
      BY <2>1, <2>2, ConcatSeq
    <2>. HIDE DEF all
    <2>4. \A i \in DOMAIN all : IsDelivered(n, all[i])
      BY <2>1, <2>2, <2>3
    <2>5. delivered' = [delivered EXCEPT ![n] = all]
      BY <1>1 DEF all, old
    <2>. QED
      BY <2>3, <2>4, <2>5 DEF IInv, Deliveries
  <1>. QED
    BY <1>1, <1>6, <1>7, <1>8 DEF IInv

\* The slot after an announce.
AfterAnnounce(p, key, hs) == [p EXCEPT !.sign = key, !.announce_sent = TRUE, !.hs = hs]

LEMMA AnnouncedSlot ==
    ASSUME NEW node, NEW p, IsPeer(node, p), NEW key \in Nodes \cup {Virtual},
           NEW hs, Shape(node, hs)
    PROVE  IsPeer(node, AfterAnnounce(p, key, hs)) /\ AfterAnnounce(p, key, hs).hs = hs
  <1>. DEFINE q == AfterAnnounce(p, key, hs)
  <1>1. /\ DOMAIN q = PeerFields /\ q.id = p.id /\ q.hs = hs /\ q.active = p.active
        /\ q.handle = p.handle /\ q.addr = p.addr /\ q.sign = key
        /\ q.we_are_central = p.we_are_central /\ q.client = p.client
    BY DEF AfterAnnounce, IsPeer, PeerFields
  <1>. HIDE DEF q
  <1>2. IsPeer(node, q)
    BY <1>1 DEF IsPeer
  <1>. QED
    BY <1>1, <1>2 DEF q

\* A step that may give slot s of node n the next key.
LEMMA KeyStep ==
    ASSUME IInv, NEW n \in Nodes, NEW table, IsTable(n, table), Tame(table, peers[n]),
           NEW s \in Slots, NEW q, IsPeer(n, q),
           peers' = [peers EXCEPT ![n] = [table EXCEPT ![s] = q]],
           \/ nextKey' = nextKey /\ KeepsKey(q.hs, table[s].hs)
           \/ nextKey' = NextKey(n) /\ (q.hs.phase \in Live => q.hs.e = Ephemeral(n, nextKey[n]))
    PROVE  Tables(peers') /\ nextKey' \in [Nodes -> Nat] /\ Keys(peers', nextKey')
  <1>. DEFINE new == [table EXCEPT ![s] = q]
  <1>1. /\ IsTable(n, new)
        /\ \A t \in Slots : new[t] = IF t = s THEN q ELSE table[t]
        /\ KeepsKey(q.hs, table[s].hs) => Tame(new, table)
    BY SlotReplaced, Zenon
  <1>2. peers' = [peers EXCEPT ![n] = new]
    OBVIOUS
  <1>. HIDE DEF new
  <1>3. CASE nextKey' = nextKey /\ KeepsKey(q.hs, table[s].hs)
    <2>1. Tame(new, peers[n])
      BY <1>1, <1>3, TameTwice
    <2>. QED
      BY <1>1, <1>2, <1>3, <2>1, Kept
  <1>4. CASE nextKey' = NextKey(n) /\ (q.hs.phase \in Live => q.hs.e = Ephemeral(n, nextKey[n]))
    <2>1. \A t \in Slots \ {s} : KeepsKey(new[t].hs, peers[n][t].hs)
      BY <1>1 DEF Tame
    <2>2. new[s].hs.phase \in Live => new[s].hs.e = Ephemeral(n, nextKey[n])
      BY <1>1, <1>4
    <2>3. /\ Tables([peers EXCEPT ![n] = new])
          /\ Keys([peers EXCEPT ![n] = new], [nextKey EXCEPT ![n] = @ + 1])
          /\ [nextKey EXCEPT ![n] = @ + 1] \in [Nodes -> Nat]
      BY <1>1, <2>1, <2>2, KeyTaken DEF IInv
    <2>. QED
      BY <1>2, <1>4, <2>3 DEF NextKey
  <1>. QED
    BY <1>3, <1>4
-----------------------------------------------------------------------------
(* Announces and handshake packets                                          *)

LEMMA AnnounceKeeps ==
    ASSUME IInv, NEW n \in Nodes, inbox[n] # <<>>, NEW table, NEW s, s = NoSlot \/ s \in Slots,
           IsTable(n, table), Tame(table, peers[n]), NEW ok \in BOOLEAN,
           HandleAnnounce(n, table, s, ok)
    PROVE  IInv'
  <1>. DEFINE p == table[s]
              tries == p.we_are_central /\ p.hs.phase = "IDLE"
              starts == tries /\ ok
              key == Ephemeral(n, nextKey[n])
              begun == noise_hs_write_msg1(noise_hs_init("INITIATOR", key))
              failed == noise_hs_init("INITIATOR", NoKey)
              hs == CASE starts -> begun.hs
                      [] tries /\ ~ok -> failed
                      [] OTHER -> p.hs
              from == Pkt(n).sender
              q == AfterAnnounce(p, from, hs)
              after == [table EXCEPT ![s] = q]
              own == When(~p.announce_sent, To(p, Announce(n)))
              first == When(starts, To(p, Handshake(n, p.addr, begun.out)))
  <1>1. /\ s \in Slots
        /\ peers' = [peers EXCEPT ![n] = after]
        /\ inbox' = SendToPeers(link, n, own \o first \o Relays(n, after), Rest(n))
        /\ nextKey' = IF starts THEN NextKey(n) ELSE nextKey
        /\ link' = link /\ delivered' = delivered
    BY DEF HandleAnnounce, Accepts, AfterAnnounce
  <1>2. IsPeer(n, p) /\ Shape(n, p.hs)
    BY <1>1 DEF IsTable, IsPeer
  <1>3. from \in Nodes \cup {Virtual} /\ Boxes(Rest(n))
    BY HeadIs DEF Entry, IsPacket, Pkt
  <1>4. Shape(n, begun.hs) /\ begun.hs.phase = "AWAIT_MSG2" /\ begun.hs.e = key
    BY Msg1Shape
  <1>5. Shape(n, failed) /\ failed.phase = "IDLE"
    BY InitShape
  <1>. HIDE DEF p, begun, failed, key
  <1>6. /\ starts \in BOOLEAN
        /\ starts => hs = begun.hs
        /\ ~starts => hs \in {failed, p.hs}
    OBVIOUS
  <1>. HIDE DEF starts, hs, from
  <1>7. Shape(n, hs)
    BY <1>2, <1>4, <1>5, <1>6
  <1>8. IsPeer(n, q) /\ q.hs = hs
    BY <1>2, <1>3, <1>7, AnnouncedSlot
  <1>9. \/ nextKey' = nextKey /\ KeepsKey(q.hs, p.hs)
        \/ nextKey' = NextKey(n) /\ (q.hs.phase \in Live => q.hs.e = Ephemeral(n, nextKey[n]))
    <2>. HIDE DEF q
    <2>1. CASE starts
      BY <1>1, <1>4, <1>6, <1>8, <2>1 DEF key
    <2>2. CASE ~starts
      BY <1>1, <1>5, <1>6, <1>8, <2>2 DEF KeepsKey, Live
    <2>. QED
      BY <2>1, <2>2
  <1>. HIDE DEF q
  <1>10. Tables(peers') /\ nextKey' \in [Nodes -> Nat] /\ Keys(peers', nextKey')
    BY <1>1, <1>8, <1>9, KeyStep DEF p
  <1>11. IsTable(n, after)
    BY <1>1, <1>8, SlotReplaced, Zenon
  <1>. HIDE DEF after
  <1>12. Boxes(inbox')
    <2>1. IsPacket(Announce(n)) /\ IsPacket(Handshake(n, p.addr, begun.out))
      BY PacketIs, HandshakeIs DEF Announce
    <2>2. Sends(n, own)
      <3>1. Sendable(n, To(p, Announce(n)))
        BY <1>2, <2>1, ToSlot
      <3>2. (~p.announce_sent) \in BOOLEAN
        OBVIOUS
      <3>. QED
        BY <3>1, <3>2, WhenSends
    <2>3. Sends(n, first)
      <3>1. Sendable(n, To(p, Handshake(n, p.addr, begun.out)))
        BY <1>2, <2>1, ToSlot
      <3>. QED
        BY <1>6, <3>1, WhenSends
    <2>. HIDE DEF own, first
    <2>4. Sends(n, Relays(n, after))
      BY <1>11, RelaysSend
    <2>5. Sends(n, own \o first)
      BY <2>2, <2>3, ConcatSends
    <2>6. Sends(n, (own \o first) \o Relays(n, after))
      BY <2>4, <2>5, ConcatSends
    <2>7. link \in LinkType
      BY DEF IInv
    <2>. DEFINE seq == (own \o first) \o Relays(n, after)
    <2>8. inbox' = SendToPeers(link, n, seq, Rest(n))
      BY <1>1
    <2>. HIDE DEF seq
    <2>9. Sends(n, seq)
      BY <2>6 DEF seq
    <2>. QED
      BY <1>3, <2>7, <2>8, <2>9, SendKeepsBoxes
  <1>. QED
    BY <1>1, <1>10, <1>12 DEF IInv

\* What a handshake packet leaves in the slot: the next key or the one it had.
LEMMA StepIs ==
    ASSUME NEW n, NEW hs, Shape(n, hs), NEW m
    PROVE  LET new == HandshakeStep(n, hs, m).hs
           IN  /\ Shape(n, new)
               /\ hs.phase # "IDLE" => KeepsKey(new, hs)
               /\ hs.phase = "IDLE" => new.e = Ephemeral(n, nextKey[n])
  <1>. DEFINE new == HandshakeStep(n, hs, m).hs
  <1>1. CASE hs.phase = "IDLE"
    <2>. DEFINE e == Ephemeral(n, nextKey[n])
                x == noise_hs_read_msg1_write_msg2(noise_hs_init("RESPONDER", e), m, n).hs
    <2>1. new = x
      BY <1>1 DEF HandshakeStep
    <2>. HIDE DEF e
    <2>2. Shape(n, x) /\ x.e = e
      BY Msg2Shape
    <2>. QED
      BY <1>1, <2>1, <2>2 DEF e
  <1>2. CASE hs.phase = "AWAIT_MSG2"
    <2>. DEFINE x == noise_hs_read_msg2_write_msg3(hs, m, n).hs
    <2>1. new = x
      BY <1>2 DEF HandshakeStep
    <2>2. Shape(n, x) /\ x.e = hs.e
      BY <1>2, Msg3Shape
    <2>. HIDE DEF x, new
    <2>. QED
      BY <1>2, <2>1, <2>2 DEF KeepsKey, Live, new
  <1>3. CASE hs.phase = "AWAIT_MSG3"
    <2>. DEFINE x == noise_hs_read_msg3(hs, m).hs
    <2>1. new = x
      BY <1>3 DEF HandshakeStep
    <2>2. Shape(n, x) /\ x.e = hs.e
      BY <1>3, ReadMsg3Shape
    <2>. HIDE DEF x, new
    <2>. QED
      BY <1>3, <2>1, <2>2 DEF KeepsKey, Live, new
  <1>4. CASE hs.phase \notin {"IDLE", "AWAIT_MSG2", "AWAIT_MSG3"}
    <2>1. new = hs
      BY <1>4 DEF HandshakeStep, Step
    <2>. HIDE DEF new
    <2>. QED
      BY <1>4, <2>1 DEF KeepsKey, new
  <1>. QED
    BY <1>1, <1>2, <1>3, <1>4

LEMMA HandshakeKeeps ==
    ASSUME IInv, NEW n \in Nodes, inbox[n] # <<>>, NEW table, NEW s, s = NoSlot \/ s \in Slots,
           IsTable(n, table), Tame(table, peers[n]), NEW result \in {"ok", "no_init", "error"},
           HandleNoiseHandshake(n, table, s, result)
    PROVE  IInv'
  <1>. DEFINE p == table[s]
              idle == p.hs.phase = "IDLE"
              step == CASE result = "ok"      -> HandshakeStep(n, p.hs, Pkt(n).body)
                        [] result = "no_init" -> Step(noise_hs_init("RESPONDER", NoKey), NoMsg)
                        [] result = "error"   -> Step(Fail(p.hs), NoMsg)
              answer == When(step.out # NoMsg, To(p, Handshake(n, p.addr, step.out)))
  <1>1. /\ s \in Slots /\ (result = "no_init" => idle)
        /\ peers' = [peers EXCEPT ![n] = [table EXCEPT ![s].hs = step.hs]]
        /\ inbox' = SendToPeers(link, n, answer, Rest(n))
        /\ nextKey' = IF idle THEN NextKey(n) ELSE nextKey
        /\ link' = link /\ delivered' = delivered
    BY DEF HandleNoiseHandshake, Accepts
  <1>2. IsPeer(n, p) /\ Shape(n, p.hs) /\ IsHs(p.hs)
    BY <1>1 DEF IsTable, IsPeer, Shape
  <1>3. Boxes(Rest(n)) /\ link \in LinkType
    BY HeadIs DEF IInv
  <1>4. [table EXCEPT ![s].hs = step.hs] = [table EXCEPT ![s] = [p EXCEPT !.hs = step.hs]]
    BY <1>1 DEF IsTable
  <1>. HIDE DEF p
  <1>5. /\ Shape(n, step.hs)
        /\ ~idle => KeepsKey(step.hs, p.hs)
        /\ idle => (step.hs.phase \in Live => step.hs.e = Ephemeral(n, nextKey[n]))
    <2>1. CASE result = "ok"
      <3>. DEFINE new == HandshakeStep(n, p.hs, Pkt(n).body).hs
      <3>1. step.hs = new
        BY <2>1
      <3>2. /\ Shape(n, new)
            /\ p.hs.phase # "IDLE" => KeepsKey(new, p.hs)
            /\ p.hs.phase = "IDLE" => new.e = Ephemeral(n, nextKey[n])
        BY <1>2, StepIs
      <3>. HIDE DEF new, step
      <3>. QED
        BY <3>1, <3>2
    <2>2. CASE result = "no_init"
      <3>. DEFINE new == noise_hs_init("RESPONDER", NoKey)
      <3>1. step.hs = new /\ idle
        BY <1>1, <2>2 DEF Step
      <3>2. Shape(n, new) /\ new.phase = "IDLE"
        BY InitShape
      <3>. HIDE DEF new, step
      <3>. QED
        BY <3>1, <3>2 DEF Live
    <2>3. CASE result = "error"
      <3>1. step.hs = Fail(p.hs)
        BY <2>3 DEF Step
      <3>2. Shape(n, Fail(p.hs)) /\ Fail(p.hs).phase = "FAILED"
        BY <1>2, FailShape
      <3>. HIDE DEF step
      <3>. QED
        BY <3>1, <3>2 DEF Live, KeepsKey
    <2>. QED
      BY <2>1, <2>2, <2>3
  <1>. HIDE DEF step
  <1>. DEFINE q == [p EXCEPT !.hs = step.hs]
  <1>6. IsPeer(n, q) /\ q.hs = step.hs
    BY <1>2, <1>5, HsSet
  <1>7. peers' = [peers EXCEPT ![n] = [table EXCEPT ![s] = q]]
    BY <1>1, <1>4
  <1>. HIDE DEF q
  <1>8. \/ nextKey' = nextKey /\ KeepsKey(q.hs, p.hs)
        \/ nextKey' = NextKey(n) /\ (q.hs.phase \in Live => q.hs.e = Ephemeral(n, nextKey[n]))
    BY <1>1, <1>5, <1>6
  <1>9. Tables(peers') /\ nextKey' \in [Nodes -> Nat] /\ Keys(peers', nextKey')
    BY <1>1, <1>6, <1>7, <1>8, KeyStep DEF p
  <1>10. Boxes(inbox')
    <2>1. IsPacket(Handshake(n, p.addr, step.out))
      BY HandshakeIs
    <2>2. Sendable(n, To(p, Handshake(n, p.addr, step.out)))
      BY <1>2, <2>1, ToSlot
    <2>3. (step.out # NoMsg) \in BOOLEAN
      OBVIOUS
    <2>4. Sends(n, answer)
      BY <2>2, <2>3, WhenSends
    <2>. HIDE DEF answer
    <2>. QED
      BY <1>1, <1>3, <2>4, SendKeepsBoxes
  <1>. QED
    BY <1>1, <1>9, <1>10 DEF IInv

\* Whatever the packet, handling it keeps the invariant.
LEMMA IncomingKeeps ==
    ASSUME IInv, NEW n \in Nodes, Incoming(n)
    PROVE  IInv'
  <1>. DEFINE s == FindPeer(Admitted(n), Head(inbox[n]).handle)
  <1>1. inbox[n] # <<>> /\ Dispatch(n, Admitted(n), s)
    BY DEF Incoming
  <1>2. IsTable(n, Admitted(n)) /\ Tame(Admitted(n), peers[n])
    BY <1>1, AdmittedIs
  <1>3. s = NoSlot \/ s \in Slots
    BY FindIs
  <1>. HIDE DEF s
  <1>4. CASE Discard(n, Admitted(n), s)
    BY <1>1, <1>2, <1>4, DiscardKeeps
  <1>5. ASSUME NEW ok \in BOOLEAN, HandleAnnounce(n, Admitted(n), s, ok) PROVE IInv'
    BY <1>1, <1>2, <1>3, <1>5, AnnounceKeeps
  <1>6. CASE HandleMessage(n, Admitted(n), s)
    BY <1>1, <1>2, <1>6, MessageKeeps
  <1>7. ASSUME NEW result \in {"ok", "no_init", "error"},
               HandleNoiseHandshake(n, Admitted(n), s, result)
        PROVE  IInv'
    BY <1>1, <1>2, <1>3, <1>7, HandshakeKeeps
  <1>8. CASE HandleEncrypted(n, Admitted(n), s)
    BY <1>1, <1>2, <1>3, <1>8, EncryptedKeeps
  <1>9. CASE HandleRequestSync(n, Admitted(n), s)
    BY <1>1, <1>2, <1>3, <1>9, SyncKeeps
  <1>. QED
    BY <1>1, <1>4, <1>5, <1>6, <1>7, <1>8, <1>9 DEF Dispatch
-----------------------------------------------------------------------------
(* Connections                                                              *)

\* What _on_connect leaves.
Connected(n, r) == IsTable(n, r.table) /\ Tame(r.table, peers[n]) /\ Boxes(r.boxes)

LEMMA OnConnectIs ==
    ASSUME IInv, NEW lk \in LinkType, NEW n \in Nodes, NEW h \in Handles,
           NEW addr \in Nodes, NEW central \in BOOLEAN, central => n \in Centrals
    PROVE  Connected(n, OnConnect(lk, n, h, addr, central))
  <1>. DEFINE table == AllocPeer(peers[n], h, addr, central)
              s == First({t \in Slots : table[t] # peers[n][t]})
              new == [table EXCEPT ![s].announce_sent = TRUE]
              boxes == SendToPeers(lk, n, <<To(table[s], Announce(n))>>, inbox)
              r == OnConnect(lk, n, h, addr, central)
  <1>1. IsTable(n, peers[n]) /\ Boxes(inbox)
    BY DEF IInv, Tables
  <1>2. IsTable(n, table) /\ Tame(table, peers[n])
    BY <1>1, AllocIs
  <1>3. s = NoSlot \/ s \in Slots
    BY FirstIs
  <1>4. r = IF s = NoSlot THEN [table |-> table, boxes |-> inbox]
            ELSE [table |-> new, boxes |-> boxes]
    BY DEF OnConnect
  <1>. HIDE DEF table, s, r
  <1>5. CASE s = NoSlot
    <2>1. r.table = table /\ r.boxes = inbox
      BY <1>4, <1>5
    <2>. QED
      BY <1>1, <1>2, <2>1 DEF Connected, r
  <1>6. CASE s # NoSlot
    <2>1. s \in Slots
      BY <1>3, <1>6
    <2>2. r.table = new /\ r.boxes = boxes
      BY <1>4, <1>6
    <2>3. IsTable(n, new) /\ Tame(new, table)
      BY <1>2, <2>1, AnnouncedSet
    <2>. HIDE DEF new
    <2>4. Tame(new, peers[n])
      BY <1>2, <2>3, TameTwice
    <2>5. Boxes(boxes)
      <3>1. IsPacket(Announce(n)) /\ IsPeer(n, table[s])
        BY <1>2, <2>1, PacketIs DEF Announce, IsTable
      <3>2. Sends(n, <<To(table[s], Announce(n))>>)
        BY <3>1, ToSlot, OneSends
      <3>. QED
        BY <1>1, <3>2, SendKeepsBoxes
    <2>. HIDE DEF boxes
    <2>. QED
      BY <2>2, <2>3, <2>4, <2>5 DEF Connected, r
  <1>. QED
    BY <1>5, <1>6

\* The handles of the connections at the Hub.
Used == {link[d].hub_handle : d \in {x \in Centrals : link[x].stage # "down"}}

\* While a central has no connection, the controller has a free handle for it.
LEMMA HandleLeft ==
    ASSUME NEW c \in Centrals, link[c].stage = "down"
    PROVE  (CHOOSE x \in Handles \ Used : \A y \in Handles \ Used : x <= y) \in Handles \ Used
  <1>. DEFINE up == {x \in Centrals : link[x].stage # "down"}
              f == [x \in up |-> link[x].hub_handle]
              k == Cardinality(Centrals)
  <1>1. IsFiniteSet(Centrals) /\ k \in Nat /\ k # 0
    BY PeerAssumption, FS_CardinalityType, FS_EmptySet
  <1>2. IsFiniteSet(Centrals \ {c}) /\ Cardinality(Centrals \ {c}) = k - 1
    BY <1>1, FS_RemoveElement
  <1>3. up \in SUBSET (Centrals \ {c})
    OBVIOUS
  <1>4. Used = {link[x].hub_handle : x \in up}
    BY DEF Used
  <1>. HIDE DEF up, k
  <1>5. IsFiniteSet(up) /\ Cardinality(up) <= k - 1 /\ Cardinality(up) \in Nat
    BY <1>2, <1>3, FS_Subset, FS_CardinalityType
  <1>6. f \in Surjection(up, Used)
    BY <1>4 DEF Surjection
  <1>. HIDE DEF f
  <1>7. IsFiniteSet(Used) /\ Cardinality(Used) <= Cardinality(up) /\ Cardinality(Used) \in Nat
    BY <1>5, <1>6, FS_Surjection, FS_CardinalityType
  <1>8. Cardinality(Handles) = k
    <2>1. 0 \in Int /\ k - 1 \in Int /\ ~(0 > k - 1) /\ k - 1 - 0 + 1 = k
      BY <1>1
    <2>2. Cardinality(0 .. k - 1) = IF 0 > k - 1 THEN 0 ELSE k - 1 - 0 + 1
      BY <2>1, FS_Interval
    <2>. QED
      BY <2>1, <2>2 DEF Handles, k
  <1>9. Handles \ Used # {}
    <2>. SUFFICES ASSUME Handles \subseteq Used PROVE FALSE
      OBVIOUS
    <2>1. Cardinality(Handles) <= Cardinality(Used)
      BY <1>7, FS_Subset
    <2>. QED
      BY <1>1, <1>5, <1>7, <1>8, <2>1
  <1>10. Handles \ Used \in SUBSET Nat
    BY <1>1 DEF Handles, k
  <1>11. \E x \in Handles \ Used : \A y \in Handles \ Used : x <= y
    BY <1>9, <1>10, LeastElement
  <1>. QED
    BY <1>11

\* A connection's record is replaced.
LEMMA LinkSet ==
    ASSUME NEW lk \in LinkType, NEW c \in Centrals,
           NEW stage \in {"down", "linked", "subscribed"}
    PROVE  /\ [lk EXCEPT ![c].stage = stage] \in LinkType
           /\ \A a \in Handles, b \in Handles :
                 [lk EXCEPT ![c] = [stage |-> stage, hub_handle |-> a, handle |-> b]] \in LinkType
  <1>. DEFINE R == [stage : {"down", "linked", "subscribed"},
                    hub_handle : Handles, handle : Handles]
  <1>1. lk \in [Centrals -> R]
    BY DEF LinkType
  <1>2. lk[c] \in R
    BY <1>1
  <1>3. [lk[c] EXCEPT !.stage = stage] \in R
    BY <1>2
  <1>4. \A a \in Handles, b \in Handles : [stage |-> stage, hub_handle |-> a, handle |-> b] \in R
    OBVIOUS
  <1>. HIDE DEF R
  <1>5. [lk EXCEPT ![c].stage = stage] = [lk EXCEPT ![c] = [lk[c] EXCEPT !.stage = stage]]
    OBVIOUS
  <1>6. [lk EXCEPT ![c] = [lk[c] EXCEPT !.stage = stage]] \in [Centrals -> R]
    BY <1>1, <1>3
  <1>7. \A a \in Handles, b \in Handles :
           [lk EXCEPT ![c] = [stage |-> stage, hub_handle |-> a, handle |-> b]] \in [Centrals -> R]
    BY <1>1, <1>4
  <1>. QED
    BY <1>5, <1>6, <1>7 DEF LinkType, R

LEMMA LinkUpKeeps == ASSUME IInv, NEW c \in Centrals, LinkUp(c) PROVE IInv'
  <1>. DEFINE h == CHOOSE x \in Handles \ Used : \A y \in Handles \ Used : x <= y
              lk == [link EXCEPT ![c] = [stage |-> "linked", hub_handle |-> h, handle |-> 0]]
              hub == OnConnect(lk, Hub, h, c, FALSE)
  <1>1. /\ link[c].stage = "down" /\ link' = lk
        /\ peers' = [peers EXCEPT ![Hub] = hub.table] /\ inbox' = hub.boxes
        /\ nextKey' = nextKey /\ delivered' = delivered
    BY DEF LinkUp, Used
  <1>2. h \in Handles
    BY <1>1, HandleLeft
  <1>. HIDE DEF h
  <1>3. lk \in LinkType
    <2>1. link \in LinkType /\ 0 \in Handles
      BY ZeroHandle DEF IInv
    <2>. QED
      BY <1>2, <2>1, LinkSet
  <1>. HIDE DEF lk
  <1>4. Hub \in Nodes /\ c \in Nodes
    BY HubIsNode
  <1>5. Connected(Hub, hub)
    BY <1>2, <1>3, <1>4, OnConnectIs
  <1>. HIDE DEF hub
  <1>6. IsTable(Hub, hub.table) /\ Tame(hub.table, peers[Hub]) /\ Boxes(hub.boxes)
    BY <1>5 DEF Connected
  <1>7. Tables(peers') /\ nextKey' \in [Nodes -> Nat] /\ Keys(peers', nextKey')
    BY <1>1, <1>4, <1>6, Kept
  <1>. QED
    BY <1>1, <1>3, <1>6, <1>7 DEF IInv

LEMMA SubscribeKeeps == ASSUME IInv, NEW c \in Centrals, Subscribe(c) PROVE IInv'
  <1>. DEFINE h == link[c].handle
              own == OnConnect(link, c, h, Hub, TRUE)
              s == FindPeer(own.table, h)
              new == IF s = NoSlot THEN own.table ELSE [own.table EXCEPT ![s].client = TRUE]
  <1>1. /\ peers' = [peers EXCEPT ![c] = new] /\ inbox' = own.boxes
        /\ link' = [link EXCEPT ![c].stage = "subscribed"]
        /\ nextKey' = nextKey /\ delivered' = delivered
    BY DEF Subscribe
  <1>2. link \in LinkType /\ h \in Handles /\ c \in Nodes /\ Hub \in Nodes
    BY HubIsNode DEF IInv, LinkType
  <1>. HIDE DEF h
  <1>3. Connected(c, own)
    BY <1>2, OnConnectIs
  <1>. DEFINE table == own.table
  <1>4. IsTable(c, table) /\ Tame(table, peers[c]) /\ Boxes(own.boxes)
    BY <1>3 DEF Connected
  <1>5. s = NoSlot \/ s \in Slots
    BY FindIs
  <1>. HIDE DEF own, s
  <1>6. new = IF s = NoSlot THEN table ELSE [table EXCEPT ![s].client = TRUE]
    OBVIOUS
  <1>. HIDE DEF table, new
  <1>7. IsTable(c, new) /\ Tame(new, peers[c])
    <2>1. CASE s = NoSlot
      BY <1>4, <1>6, <2>1
    <2>2. CASE s # NoSlot
      <3>1. IsTable(c, new) /\ Tame(new, table)
        BY <1>4, <1>5, <1>6, <2>2, ClientSet
      <3>. QED
        BY <1>4, <3>1, TameTwice
    <2>. QED
      BY <2>1, <2>2
  <1>8. Tables(peers') /\ nextKey' \in [Nodes -> Nat] /\ Keys(peers', nextKey')
    BY <1>1, <1>2, <1>7, Kept
  <1>9. link' \in LinkType
    BY <1>1, <1>2, LinkSet
  <1>. QED
    BY <1>1, <1>4, <1>8, <1>9 DEF IInv

\* The tables after a node's peers of a handle have been freed, and at the Hub
\* those of another.
LEMMA BothFreed ==
    ASSUME IInv, NEW c \in Centrals, NEW h, NEW table, IsTable(c, table), Tame(table, peers[c])
    PROVE  LET P == [peers EXCEPT ![Hub] = FreePeer(@, h), ![c] = table]
           IN  Tables(P) /\ Keys(P, nextKey)
  <1>. DEFINE Q == [peers EXCEPT ![Hub] = FreePeer(peers[Hub], h)]
  <1>1. Hub \in Nodes /\ c \in Nodes /\ c # Hub /\ Tables(peers) /\ Keys(peers, nextKey)
    BY HubIsNode, PeerAssumption DEF IInv
  <1>2. IsTable(Hub, FreePeer(peers[Hub], h)) /\ Tame(FreePeer(peers[Hub], h), peers[Hub])
    BY <1>1, FreeIs DEF Tables
  <1>3. Tables(Q) /\ Keys(Q, nextKey)
    BY <1>1, <1>2, TableChanged
  <1>4. Q[c] = peers[c]
    BY <1>1 DEF Tables
  <1>5. [peers EXCEPT ![Hub] = FreePeer(@, h), ![c] = table] = [Q EXCEPT ![c] = table]
    OBVIOUS
  <1>. HIDE DEF Q
  <1>6. Tables([Q EXCEPT ![c] = table]) /\ Keys([Q EXCEPT ![c] = table], nextKey)
    BY <1>1, <1>3, <1>4, TableChanged
  <1>. QED
    BY <1>5, <1>6

LEMMA LinkDownKeeps == ASSUME IInv, NEW c \in Centrals, LinkDown(c) PROVE IInv'
  <1>. DEFINE h == link[c].hub_handle
              table == FreePeer(peers[c], link[c].handle)
  <1>1. /\ peers' = [peers EXCEPT ![Hub] = FreePeer(@, h), ![c] = table]
        /\ link' = [link EXCEPT ![c].stage = "down"]
        /\ inbox' = inbox /\ nextKey' = nextKey /\ delivered' = delivered
    <2>1. c # Hub /\ c \in Nodes /\ DOMAIN peers = Nodes
      BY PeerAssumption, HubIsNode DEF IInv, Tables
    <2>. QED
      BY <2>1 DEF LinkDown, Down
  <1>2. IsTable(c, peers[c]) /\ link \in LinkType
    BY HubIsNode DEF IInv, Tables
  <1>3. IsTable(c, table) /\ Tame(table, peers[c])
    BY <1>2, FreeIs
  <1>. HIDE DEF h, table
  <1>4. Tables(peers') /\ Keys(peers', nextKey)
    BY <1>1, <1>3, BothFreed
  <1>5. link' \in LinkType
    BY <1>1, <1>2, LinkSet
  <1>. QED
    BY <1>1, <1>4, <1>5 DEF IInv

\* A peer that has been in the handshake too long.
LEMMA TimeoutKeeps ==
    ASSUME IInv, NEW n \in Nodes, NEW s \in Slots, HandshakeTimeout(n, s)
    PROVE  IInv'
  <1>. DEFINE h == peers[n][s].handle
              t1 == FreePeer(peers[n], h)
              t2 == FreePeer(t1, h)
              freed == FindPeer(peers[n], h)
              ends == peers[n][freed].client /\ link[n].stage # "down"
  <1>1. /\ inbox' = inbox /\ nextKey' = nextKey /\ delivered' = delivered
        /\ IF ends
           THEN /\ peers' = [peers EXCEPT ![n] = FreePeer(FreePeer(@, h), h),
                                          ![Hub] = FreePeer(@, link[n].hub_handle)]
                /\ link' = Down(n)
           ELSE /\ peers' = [peers EXCEPT ![n] = FreePeer(@, h)]
                /\ link' = link
    BY DEF HandshakeTimeout
  <1>2. IsTable(n, peers[n]) /\ link \in LinkType /\ DOMAIN peers = Nodes
    BY DEF IInv, Tables
  <1>. HIDE DEF h, ends
  <1>3. IsTable(n, t1) /\ Tame(t1, peers[n])
    BY <1>2, FreeIs
  <1>4. IsTable(n, t2) /\ Tame(t2, peers[n])
    <2>. HIDE DEF t1
    <2>1. IsTable(n, t2) /\ Tame(t2, t1)
      BY <1>3, FreeIs
    <2>. QED
      BY <1>3, <2>1, TameTwice
  <1>5. CASE ~ends
    <2>1. peers' = [peers EXCEPT ![n] = t1] /\ link' = link
      BY <1>1, <1>5
    <2>. HIDE DEF t1
    <2>2. Tables(peers') /\ nextKey' \in [Nodes -> Nat] /\ Keys(peers', nextKey')
      BY <1>1, <1>3, <2>1, Kept
    <2>. QED
      BY <1>1, <2>1, <2>2 DEF IInv
  <1>6. CASE ends
    <2>. DEFINE g == link[n].hub_handle
    <2>1. n \in Centrals /\ n # Hub
      <3>1. freed \in Slots
        <4>. DEFINE I == {t \in Slots : peers[n][t].active /\ peers[n][t].handle = h}
        <4>1. s \in I /\ I \subseteq Slots /\ freed = First(I)
          BY DEF HandshakeTimeout, FindPeer, h
        <4>. QED
          BY <4>1, FirstIs
      <3>2. peers[n][freed].client
        BY <1>6 DEF ends
      <3>. HIDE DEF freed
      <3>. QED
        BY <1>2, <3>1, <3>2, PeerAssumption DEF IsTable, IsPeer
    <2>2. /\ peers' = [peers EXCEPT ![Hub] = FreePeer(@, g), ![n] = t2]
          /\ link' = [link EXCEPT ![n].stage = "down"]
      <3>1. peers' = [peers EXCEPT ![n] = t2, ![Hub] = FreePeer(peers[Hub], g)]
        BY <1>1, <1>2, <1>6, <2>1
      <3>. HIDE DEF t2, g
      <3>2. [peers EXCEPT ![n] = t2, ![Hub] = FreePeer(peers[Hub], g)]
              = [peers EXCEPT ![Hub] = FreePeer(peers[Hub], g), ![n] = t2]
        BY <2>1
      <3>3. [peers EXCEPT ![Hub] = FreePeer(@, g)] = [peers EXCEPT ![Hub] = FreePeer(peers[Hub], g)]
        OBVIOUS
      <3>. QED
        BY <1>1, <1>6, <3>1, <3>2, <3>3 DEF Down
    <2>. HIDE DEF t2, g
    <2>3. Tables(peers') /\ Keys(peers', nextKey)
      BY <1>4, <2>1, <2>2, BothFreed
    <2>4. link' \in LinkType
      BY <1>2, <2>1, <2>2, LinkSet
    <2>. QED
      BY <1>1, <2>3, <2>4 DEF IInv
  <1>. QED
    BY <1>5, <1>6
-----------------------------------------------------------------------------
(* The other steps                                                          *)

LEMMA LoseKeeps == ASSUME IInv, NEW n \in Nodes, Lose(n) PROVE IInv'
  <1>. DEFINE box == inbox[n]
  <1>1. PICK i \in DOMAIN box : inbox' = [inbox EXCEPT ![n] = SubSeq(@, 1, i - 1) \o SubSeq(@, i + 1, Len(@))]
    BY DEF Lose
  <1>2. /\ peers' = peers /\ link' = link /\ nextKey' = nextKey /\ delivered' = delivered
    BY DEF Lose
  <1>. DEFINE a == SubSeq(box, 1, i - 1)
              b == SubSeq(box, i + 1, Len(box))
              new == a \o b
  <1>3. inbox' = [inbox EXCEPT ![n] = new] /\ Boxes(inbox) /\ IsBox(box)
    BY <1>1 DEF IInv, Boxes
  <1>4. PICK S : box \in Seq(S)
    BY <1>3 DEF IsBox, IsSeq
  <1>. HIDE DEF box
  <1>5. Len(box) \in Nat /\ i \in 1 .. Len(box) /\ DOMAIN box = 1 .. Len(box)
    BY <1>4
  <1>6. /\ a \in Seq(S) /\ Len(a) = i - 1 /\ DOMAIN a = 1 .. i - 1
        /\ \A j \in 1 .. i - 1 : a[j] = box[j] /\ j \in DOMAIN box
    BY <1>4, <1>5
  <1>7. /\ b \in Seq(S) /\ Len(b) = Len(box) - i /\ DOMAIN b = 1 .. Len(box) - i
        /\ \A j \in 1 .. Len(box) - i : b[j] = box[i + j] /\ i + j \in DOMAIN box
    <2>1. b \in Seq(S)
      BY <1>4, <1>5
    <2>2. Len(b) = Len(box) - i /\ DOMAIN b = 1 .. Len(box) - i
      BY <1>4, <1>5
    <2>3. \A j \in 1 .. Len(box) - i : b[j] = box[i + 1 + j - 1]
      BY <1>4, <1>5
    <2>4. \A j \in 1 .. Len(box) - i : i + 1 + j - 1 = i + j /\ i + j \in 1 .. Len(box)
      BY <1>5
    <2>. HIDE DEF b
    <2>. QED
      BY <1>5, <2>1, <2>2, <2>3, <2>4
  <1>. HIDE DEF a, b
  <1>8. /\ IsSeq(new) /\ Len(new) = Len(a) + Len(b)
        /\ \A j \in DOMAIN new : \/ j \in DOMAIN a /\ new[j] = a[j]
                                 \/ j - Len(a) \in DOMAIN b /\ new[j] = b[j - Len(a)]
    BY <1>6, <1>7, ConcatSeq DEF IsSeq
  <1>. HIDE DEF new
  <1>9. \A j \in DOMAIN new : Entry(new[j])
    <2>1. \A j \in DOMAIN box : Entry(box[j])
      BY <1>3 DEF IsBox
    <2>2. (\A j \in DOMAIN a : Entry(a[j])) /\ (\A j \in DOMAIN b : Entry(b[j]))
      BY <1>6, <1>7, <2>1
    <2>. QED
      BY <1>8, <2>2
  <1>10. Len(new) <= RX_ROOM
    BY <1>3, <1>5, <1>6, <1>7, <1>8, PeerAssumption DEF IsBox
  <1>11. Boxes(inbox')
    BY <1>3, <1>8, <1>9, <1>10 DEF Boxes, IsBox
  <1>. QED
    BY <1>2, <1>11 DEF IInv

\* A step that only sends one packet to slots of a table.
LEMMA BroadcastKeeps ==
    ASSUME IInv, NEW n \in Nodes, NEW slots, slots \subseteq Slots, NEW pkt, IsPacket(pkt),
           inbox' = SendToPeers(link, n, ToAll(peers[n], slots, pkt), inbox),
           peers' = peers, link' = link, nextKey' = nextKey, delivered' = delivered
    PROVE  IInv'
  <1>1. IsTable(n, peers[n]) /\ Boxes(inbox) /\ link \in LinkType
    BY DEF IInv, Tables
  <1>. DEFINE seq == ToAll(peers[n], slots, pkt)
  <1>2. Sends(n, seq)
    BY <1>1, ToAllSends
  <1>3. inbox' = SendToPeers(link, n, seq, inbox)
    OBVIOUS
  <1>. HIDE DEF seq
  <1>4. Boxes(inbox')
    BY <1>1, <1>2, <1>3, SendKeepsBoxes
  <1>. QED
    BY <1>4 DEF IInv

LEMMA ReannounceKeeps == ASSUME IInv, NEW n \in Nodes, Reannounce(n) PROVE IInv'
  <1>. DEFINE slots == {s \in Active(peers[n]) : peers[n][s].announce_sent}
  <1>1. /\ inbox' = SendToPeers(link, n, ToAll(peers[n], slots, Announce(n)), inbox)
        /\ peers' = peers /\ link' = link /\ nextKey' = nextKey /\ delivered' = delivered
    BY DEF Reannounce
  <1>2. slots \subseteq Slots /\ IsPacket(Announce(n))
    BY PacketIs DEF Active, Announce
  <1>. HIDE DEF slots
  <1>. QED
    BY <1>1, <1>2, BroadcastKeeps

LEMMA AnnounceVirtualKeeps == ASSUME IInv, AnnounceVirtual PROVE IInv'
  <1>1. /\ inbox' = SendToPeers(link, Hub, ToAll(peers[Hub], Active(peers[Hub]), Announce(Virtual)), inbox)
        /\ peers' = peers /\ link' = link /\ nextKey' = nextKey /\ delivered' = delivered
    BY DEF AnnounceVirtual
  <1>2. Active(peers[Hub]) \subseteq Slots /\ IsPacket(Announce(Virtual)) /\ Hub \in Nodes
    BY PacketIs, HubIsNode DEF Active, Announce
  <1>. QED
    BY <1>1, <1>2, BroadcastKeeps

LEMMA SendTextAsKeeps == ASSUME IInv, SendTextAs PROVE IInv'
  <1>. DEFINE pkt == Packet("MESSAGE", Virtual)
  <1>1. /\ inbox' = SendToPeers(link, Hub, ToAll(peers[Hub], Active(peers[Hub]), pkt), inbox)
        /\ peers' = peers /\ link' = link /\ nextKey' = nextKey /\ delivered' = delivered
    BY DEF SendTextAs
  <1>2. Active(peers[Hub]) \subseteq Slots /\ IsPacket(pkt) /\ Hub \in Nodes
    BY PacketIs, HubIsNode DEF Active
  <1>. HIDE DEF pkt
  <1>. QED
    BY <1>1, <1>2, BroadcastKeeps

LEMMA RequestSyncKeeps == ASSUME IInv, NEW c \in Centrals, RequestSync(c) PROVE IInv'
  <1>. DEFINE box == inbox[Hub]
              x == [handle |-> link[c].hub_handle, pkt |-> Packet("REQUEST_SYNC", c)]
              new == Append(box, x)
  <1>1. /\ inbox' = [inbox EXCEPT ![Hub] = new] /\ Len(box) < RX_ROOM
        /\ peers' = peers /\ link' = link /\ nextKey' = nextKey /\ delivered' = delivered
    BY DEF RequestSync
  <1>2. Hub \in Nodes /\ c \in Nodes /\ Boxes(inbox) /\ IsBox(box)
    BY HubIsNode DEF IInv, Boxes
  <1>3. Entry(x)
    <2>1. link[c].hub_handle \in Handles /\ IsPacket(Packet("REQUEST_SYNC", c))
      BY <1>2, PacketIs DEF IInv, LinkType
    <2>. QED
      BY <2>1 DEF Entry
  <1>. HIDE DEF box, x
  <1>4. PICK S : box \in Seq(S)
    BY <1>2 DEF IsBox, IsSeq
  <1>5. box \in Seq(S \cup {x}) /\ x \in S \cup {x}
    BY <1>4
  <1>6. /\ new \in Seq(S \cup {x}) /\ Len(new) = Len(box) + 1 /\ Len(box) \in Nat
        /\ DOMAIN new = 1 .. Len(box) + 1 /\ DOMAIN box = 1 .. Len(box)
        /\ new[Len(box) + 1] = x /\ \A i \in 1 .. Len(box) : new[i] = box[i]
    BY <1>5
  <1>. HIDE DEF new
  <1>7. Len(new) <= RX_ROOM
    BY <1>1, <1>6, PeerAssumption
  <1>8. \A i \in DOMAIN new : Entry(new[i])
    <2>1. \A i \in DOMAIN new : i = Len(box) + 1 \/ i \in DOMAIN box
      BY <1>6
    <2>. QED
      BY <1>2, <1>3, <1>6, <2>1 DEF IsBox
  <1>9. Boxes(inbox')
    BY <1>1, <1>2, <1>6, <1>7, <1>8 DEF Boxes, IsBox, IsSeq
  <1>. QED
    BY <1>1, <1>9 DEF IInv

LEMMA SendTextKeeps == ASSUME IInv, NEW n \in Nodes, SendText(n) PROVE IInv'
  <1>. DEFINE table == peers[n]
              id == events["text"] + 1
              pt(p) == [kind |-> "PRIVATE_MSG", id |-> id, from |-> n, to |-> p.hs.rs]
              pkts == [s \in Slots |-> IF table[s].hs.phase = "TRANSPORT"
                                       THEN Encrypted(n, CipherText(table[s].hs.send_cs, pt(table[s])))
                                       ELSE Packet("MESSAGE", n)]
              new == [s \in Slots |-> IF table[s].active /\ table[s].hs.phase = "TRANSPORT"
                                      THEN Advanced(table[s]) ELSE table[s]]
              seq == ToEach(table, Active(table), pkts)
  <1>1. /\ peers' = [peers EXCEPT ![n] = new]
        /\ inbox' = SendToPeers(link, n, seq, inbox)
        /\ link' = link /\ nextKey' = nextKey /\ delivered' = delivered
    BY DEF SendText
  <1>2. IsTable(n, table) /\ Boxes(inbox) /\ link \in LinkType
    BY DEF IInv, Tables
  <1>. HIDE DEF table, id
  <1>3. ASSUME NEW s \in Slots
        PROVE  IsPeer(n, new[s]) /\ KeepsKey(new[s].hs, table[s].hs)
    <2>. DEFINE p == table[s]
    <2>1. IsPeer(n, p)
      BY <1>2 DEF IsTable
    <2>2. new[s] \in {Advanced(p), p}
      OBVIOUS
    <2>. HIDE DEF p, new
    <2>3. IsPeer(n, Advanced(p)) /\ KeepsKey(Advanced(p).hs, p.hs) /\ KeepsKey(p.hs, p.hs)
      BY <2>1, AdvancedIs DEF KeepsKey
    <2>4. IsPeer(n, new[s]) /\ KeepsKey(new[s].hs, p.hs)
      BY <2>1, <2>2, <2>3
    <2>. QED
      BY <2>4 DEF p
  <1>4. IsTable(n, new) /\ Tame(new, table)
    <2>1. DOMAIN new = Slots
      OBVIOUS
    <2>. HIDE DEF new
    <2>. QED
      BY <1>3, <2>1 DEF IsTable, Tame
  <1>. HIDE DEF new
  <1>5. Tables(peers') /\ nextKey' \in [Nodes -> Nat] /\ Keys(peers', nextKey')
    BY <1>1, <1>4, Kept DEF table
  <1>6. ASSUME NEW s \in Slots PROVE IsPacket(pkts[s])
    <2>. DEFINE p == table[s]
                x == pt(p)
    <2>1. Shape(n, p.hs)
      BY <1>2 DEF IsTable, IsPeer
    <2>2. DOMAIN x = PlainFields /\ x.from = n /\ x.to = p.hs.rs
      BY DEF PlainFields
    <2>3. pkts[s] = IF p.hs.phase = "TRANSPORT"
                    THEN Encrypted(n, CipherText(p.hs.send_cs, x)) ELSE Packet("MESSAGE", n)
      OBVIOUS
    <2>. HIDE DEF p, x, pkts
    <2>4. CASE p.hs.phase = "TRANSPORT"
      <3>1. Sealed(CipherText(p.hs.send_cs, x))
        BY <2>1, <2>2, <2>4, SessionSeals
      <3>. QED
        BY <2>3, <2>4, <3>1, EncryptedIs
    <2>5. CASE p.hs.phase # "TRANSPORT"
      BY <2>3, <2>5, PacketIs
    <2>. QED
      BY <2>4, <2>5
  <1>. HIDE DEF pkts
  <1>7. Sends(n, seq)
    BY <1>2, <1>6, ToEachSends DEF Active
  <1>. HIDE DEF seq
  <1>8. Boxes(inbox')
    BY <1>1, <1>2, <1>7, SendKeepsBoxes
  <1>. QED
    BY <1>1, <1>5, <1>8 DEF IInv

-----------------------------------------------------------------------------
(* The theorems                                                             *)

LEMMA InitIInv == Init => IInv
  <1>. SUFFICES ASSUME Init PROVE IInv
    OBVIOUS
  <1>1. <<>> \in Seq({})
    OBVIOUS
  <1>2. Tables(peers) /\ \A n \in Nodes : \A s \in Slots : peers[n][s].hs.phase = "IDLE"
    BY FreeSlotIs DEF Init, Tables, IsTable
  <1>3. Keys(peers, nextKey)
    BY <1>2 DEF Keys, KeysFresh, KeysDistinct, Live
  <1>4. Boxes(inbox) /\ Deliveries(delivered)
    BY <1>1, PeerAssumption DEF Init, Boxes, IsBox, IsSeq, Deliveries
  <1>5. link \in LinkType
    BY ZeroHandle DEF Init, LinkType
  <1>6. nextKey \in [Nodes -> Nat]
    BY DEF Init
  <1>. QED
    BY <1>2, <1>3, <1>4, <1>5, <1>6 DEF IInv

LEMMA NextIInv == IInv /\ [Next]_vars => IInv'
  <1>. SUFFICES ASSUME IInv, [Next]_vars PROVE IInv'
    OBVIOUS
  <1>1. ASSUME NEW c \in Centrals, Connections(c) \/ RequestSync(c) PROVE IInv'
    BY <1>1, LinkUpKeeps, SubscribeKeeps, LinkDownKeeps, RequestSyncKeeps DEF Connections
  <1>2. ASSUME NEW n \in Nodes, Incoming(n) PROVE IInv'
    BY <1>2, IncomingKeeps
  <1>3. ASSUME NEW n \in Nodes, Lose(n) PROVE IInv'
    BY <1>3, LoseKeeps
  <1>4. ASSUME NEW n \in Nodes, NEW s \in Slots, HandshakeTimeout(n, s) PROVE IInv'
    BY <1>4, TimeoutKeeps
  <1>5. ASSUME NEW n \in Nodes, Reannounce(n) PROVE IInv'
    BY <1>5, ReannounceKeeps
  <1>6. ASSUME NEW n \in Nodes, SendText(n) PROVE IInv'
    BY <1>6, SendTextKeeps
  <1>7. CASE AnnounceVirtual
    BY <1>7, AnnounceVirtualKeeps
  <1>8. CASE SendTextAs
    BY <1>8, SendTextAsKeeps
  <1>9. CASE UNCHANGED vars
    BY <1>9 DEF vars, IInv
  <1>. QED
    BY <1>1, <1>2, <1>3, <1>4, <1>5, <1>6, <1>7, <1>8, <1>9 DEF Next

\* Everything the handlers rely on holds of every reachable state.
LEMMA Invariant == Spec => []IInv
  BY InitIInv, NextIInv, PTL DEF Spec

\* The peer table and the receive ring keep their types and their sizes, whatever
\* connects, disconnects, is lost, times out or is handled late.
THEOREM PeerTypeCorrect == Spec => []TypeOK
  <1>1. IInv => TypeOK
    <2>. SUFFICES ASSUME IInv PROVE TypeOK
      OBVIOUS
    <2>1. ASSUME NEW n \in Nodes, NEW s \in Slots
          PROVE  LET p == peers[n][s]
                 IN  /\ p.active \in BOOLEAN /\ p.handle \in Handles
                     /\ p.addr \in Nodes \cup {Nobody}
                     /\ p.id \in Nodes \cup {Virtual, Nobody}
                     /\ p.sign \in Nodes \cup {Virtual, Nobody}
                     /\ p.hs.phase \in Phases
                     /\ p.hs.role \in {"INITIATOR", "RESPONDER"}
      BY DEF IInv, Tables, IsTable, IsPeer, Shape, IsHs
    <2>2. \A n \in Nodes : Len(inbox[n]) <= RX_ROOM
      BY DEF IInv, Boxes, IsBox
    <2>3. \A c \in Centrals :
             /\ link[c].stage \in {"down", "linked", "subscribed"}
             /\ link[c].hub_handle \in Handles /\ link[c].handle \in Handles
      BY DEF IInv, LinkType
    <2>. QED
      BY <2>1, <2>2, <2>3 DEF TypeOK
  <1>. QED
    BY Invariant, <1>1, PTL

\* The transcript in a session's sending key has the session's own ephemeral key
\* in it.
LEMMA SendKeyHolds ==
    ASSUME NEW n, NEW m, NEW a, NEW b, Shape(n, a), Shape(m, b),
           a.phase = "TRANSPORT", b.phase = "TRANSPORT", a.send_cs.k = b.send_cs.k
    PROVE  a.e = b.e
  <1>1. PICK t : Initiated(n, a, t) \/ Responded(n, a, t)
    BY DEF Shape
  <1>2. PICK u : Initiated(m, b, u) \/ Responded(m, b, u)
    BY DEF Shape
  <1>3. CASE Initiated(n, a, t)
    <2>1. a.send_cs.k = <<1, t>> /\ t[1] = a.e
      BY <1>3 DEF Initiated
    <2>2. u = t /\ Initiated(m, b, u)
      BY <1>2, <2>1 DEF Initiated, Responded
    <2>. QED
      BY <2>1, <2>2 DEF Initiated
  <1>4. CASE Responded(n, a, t)
    <2>1. a.send_cs.k = <<2, t>> /\ t[2] = a.e
      BY <1>4 DEF Responded
    <2>2. u = t /\ Responded(m, b, u)
      BY <1>2, <2>1 DEF Initiated, Responded
    <2>. QED
      BY <2>1, <2>2 DEF Responded
  <1>. QED
    BY <1>1, <1>3, <1>4

\* No two sessions anywhere encrypt with the same key, although handshakes are
\* restarted, packets are relayed and read in the wrong phase, and slots outlive
\* their connections: _handle_noise_handshake and _handle_announce take a new
\* ephemeral key each time, and each key sent with has it in its transcript.
THEOREM PeerSendKeysDistinct == Spec => []SendKeysDistinct
  <1>1. IInv => SendKeysDistinct
    <2>. SUFFICES ASSUME IInv, NEW x \in Sessions, NEW y \in Sessions,
                         Hs(x).send_cs.k = Hs(y).send_cs.k
                  PROVE  x = y
      BY DEF SendKeysDistinct
    <2>1. PICK n \in Nodes, s \in Slots : x = <<n, s>>
      BY DEF Sessions
    <2>2. PICK m \in Nodes, t \in Slots : y = <<m, t>>
      BY DEF Sessions
    <2>. DEFINE a == peers[n][s].hs
                b == peers[m][t].hs
    <2>3. a.phase = "TRANSPORT" /\ b.phase = "TRANSPORT" /\ a.send_cs.k = b.send_cs.k
      BY <2>1, <2>2 DEF Sessions, Hs
    <2>4. Shape(n, a) /\ Shape(m, b)
      BY DEF IInv, Tables, IsTable, IsPeer
    <2>5. \E i \in Nat : a.e = Ephemeral(n, i)
      BY <2>3 DEF IInv, Keys, KeysFresh, Live
    <2>6. \E j \in Nat : b.e = Ephemeral(m, j)
      BY <2>3 DEF IInv, Keys, KeysFresh, Live
    <2>. HIDE DEF a, b
    <2>7. a.e = b.e
      BY <2>3, <2>4, SendKeyHolds
    <2>8. n = m
      BY <2>5, <2>6, <2>7 DEF Ephemeral
    <2>9. s = t
      BY <2>3, <2>7, <2>8 DEF IInv, Keys, KeysDistinct, Live, a, b
    <2>. QED
      BY <2>1, <2>2, <2>8, <2>9
  <1>. QED
    BY Invariant, <1>1, PTL

\* A private message is passed to the bridge only by the device it was encrypted
\* for, and that device has authenticated the static key of its sender, although
\* a notification reaches every central and a slot may outlive its connection.
THEOREM PeerPrivateDelivery == Spec => []PrivateDelivery
  <1>1. IInv => PrivateDelivery
    BY DEF IInv, Deliveries, IsDelivered, PrivateDelivery
  <1>. QED
    BY Invariant, <1>1, PTL

-----------------------------------------------------------------------------
(* Sessions and connections: what is known of slots and packets on their way *)

Entries(box) == {box[i] : i \in DOMAIN box}

Air(b) == [m \in Nodes |-> Entries(b[m])]

Shake(y) == y.pkt.type = "HANDSHAKE"

\* Slot s is the one that _find_peer returns for handle h.
FirstAt(table, s, h) ==
    /\ table[s].active /\ table[s].handle = h
    /\ \A t \in Slots : t < s => ~ (table[t].active /\ table[t].handle = h)

\* Slot x of the Hub is the one in which the packets of c's connection arrive.
Serves(P, L, x, c) == L[c].stage # "down" /\ FirstAt(P[Hub], x, L[c].hub_handle)

\* An ephemeral key that has been generated.
Old(key, K) == \A n \in Nodes : \A i \in Nat : key = Ephemeral(n, i) => i < K[n]

\* The keys in a handshake message have been generated.
Made(m, K) ==
    /\ m.kind \in {"msg1", "msg2", "msg3"}
    /\ Old(LeadingKey(m), K)
    /\ m.kind # "msg1" => Old(m.ct.ad[1], K) /\ Old(m.ct.ad[2], K)

\* Centrals know their one connection by handle 0, and only the Hub sends them
\* handshake messages: answers to a first message.
Arrived(K, m, y) ==
    /\ m \in Centrals => y.handle = 0
    /\ Shake(y) => Made(y.pkt.body, K)
    /\ Shake(y) /\ m \in Centrals =>
          y.pkt.body.kind = "msg2" /\ y.pkt.body.ct.pt = Static(Hub)

\* A central's slots: the one with the client is the first of a connection that
\* is subscribed, and one for the Hub is made only when that is reached.
CentralFrame(P, L, c, s) ==
    LET p == P[c][s]
    IN  /\ p.handle = 0
        /\ p.we_are_central => p.active /\ p.addr = Hub /\ L[c].stage # "linked"
        /\ p.client => L[c].stage = "subscribed" /\ FirstAt(P[c], s, 0)

CentralHs(p) ==
    /\ p.hs.phase = "AWAIT_MSG2" => p.we_are_central
    /\ p.hs.phase = "TRANSPORT" => p.client /\ p.hs.rs = Static(Hub)

HubHs(P, L, K, x) ==
    LET hs == P[Hub][x].hs
    IN  /\ hs.phase # "AWAIT_MSG2"
        /\ hs.phase = "AWAIT_MSG3" => Old(hs.ss[1], K)
        /\ hs.phase = "TRANSPORT" =>
              \E c \in Centrals : Serves(P, L, x, c) /\ hs.rs = Static(c)

\* A third message on its way that slot x of the Hub would open.
Opening(P, L, x, y) ==
    LET hs == P[Hub][x].hs
    IN  /\ hs.phase = "AWAIT_MSG3"
        /\ Shake(y) /\ y.pkt.body.kind = "msg3" /\ y.pkt.body.ct.ad = hs.ss
        => \E c \in Centrals : Serves(P, L, x, c) /\ y.pkt.body.ct.pt = Static(c)

\* Slot x of the Hub has answered the first message of slot s of c.
Answering(P, L, x, c, s) ==
    /\ P[Hub][x].hs.phase = "AWAIT_MSG3" /\ P[c][s].hs.phase = "AWAIT_MSG2"
    /\ P[Hub][x].hs.ss[1] = P[c][s].hs.e
    => Serves(P, L, x, c)

\* The key of slot s of c on its way to the Hub.
Asking(P, L, c, s, y) ==
    /\ P[c][s].hs.phase = "AWAIT_MSG2"
    /\ Shake(y) /\ LeadingKey(y.pkt.body) = P[c][s].hs.e
    => P[c][s].client /\ y.handle = L[c].hub_handle

\* An answer to it on its way back.
Replying(P, c, s, y) ==
    /\ P[c][s].hs.phase = "AWAIT_MSG2"
    /\ Shake(y) /\ y.pkt.body.ct.ad[1] = P[c][s].hs.e
    => P[c][s].client

Paired(P, S, L, K) ==
    /\ \A c \in Centrals : L[c].handle = 0
    /\ \A c \in Centrals : \A s \in Slots : CentralFrame(P, L, c, s)
    /\ \A c \in Centrals : \A s \in Slots : CentralHs(P[c][s])
    /\ \A x \in Slots : HubHs(P, L, K, x)
    /\ \A m \in Nodes : \A y \in S[m] : Arrived(K, m, y)
    /\ \A x \in Slots : \A y \in S[Hub] : Opening(P, L, x, y)
    /\ \A x \in Slots : \A c \in Centrals : \A s \in Slots : Answering(P, L, x, c, s)
    /\ \A c \in Centrals : \A s \in Slots : \A y \in S[Hub] : Asking(P, L, c, s, y)
    /\ \A c \in Centrals : \A s \in Slots : \A y \in S[c] : Replying(P, c, s, y)

-----------------------------------------------------------------------------
(* Steps that take no handshake further                                     *)

\* The handshake stays where it is, or is given up.
Calm(new, old) ==
    \/ new.phase \in {"IDLE", "FAILED"}
    \/ new.phase = old.phase /\ new.e = old.e /\ new.ss = old.ss /\ new.rs = old.rs

\* An entry that no handshake takes notice of.
Plain(m, y) == ~Shake(y) /\ (m \in Centrals => y.handle = 0)

\* A central's slot in a handshake keeps its place.
Stays(q, p) ==
    q.hs.phase \in {"AWAIT_MSG2", "TRANSPORT"} =>
        q.client = p.client /\ q.we_are_central = p.we_are_central

\* Handshakes stay or are given up, connections end only with the slots that
\* serve them, and no handshake packet is new.
LEMMA CalmStep ==
    ASSUME NEW P, NEW S, NEW L, NEW K, Paired(P, S, L, K), NEW Q, NEW T, NEW M,
           \A c \in Centrals : M[c].handle = 0,
           \A c \in Centrals : L[c].stage # "down" => M[c].hub_handle = L[c].hub_handle,
           \A n \in Nodes : \A s \in Slots : Calm(Q[n][s].hs, P[n][s].hs),
           \A c \in Centrals : \A s \in Slots : CentralFrame(Q, M, c, s),
           \A c \in Centrals : \A s \in Slots : Stays(Q[c][s], P[c][s]),
           \A x \in Slots : \A c \in Centrals :
               Q[Hub][x].hs.phase \notin {"IDLE", "FAILED"} /\ Serves(P, L, x, c) => Serves(Q, M, x, c),
           \A m \in Nodes : \A y \in T[m] : y \in S[m] \/ Plain(m, y)
    PROVE  Paired(Q, T, M, K)
  <1>1. Hub \in Nodes /\ Centrals \subseteq Nodes
    BY HubIsNode
  <1>2. \A c \in Centrals : \A s \in Slots : CentralHs(Q[c][s])
    BY <1>1 DEF Paired, CentralHs, Calm, Stays
  <1>3. ASSUME NEW x \in Slots PROVE HubHs(Q, M, K, x)
    <2>. DEFINE q == Q[Hub][x].hs
                p == P[Hub][x].hs
    <2>1. Calm(q, p) /\ HubHs(P, L, K, x)
      BY <1>1 DEF Paired
    <2>2. \A c \in Centrals : q.phase \notin {"IDLE", "FAILED"} /\ Serves(P, L, x, c) => Serves(Q, M, x, c)
      OBVIOUS
    <2>. QED
      BY <2>1, <2>2 DEF HubHs, Calm
  <1>4. ASSUME NEW m \in Nodes, NEW y \in T[m] PROVE Arrived(K, m, y)
    BY DEF Paired, Arrived, Plain
  <1>5. ASSUME NEW x \in Slots, NEW y \in T[Hub] PROVE Opening(Q, M, x, y)
    <2>1. y \in S[Hub] \/ ~Shake(y)
      BY <1>1 DEF Plain
    <2>2. Calm(Q[Hub][x].hs, P[Hub][x].hs)
      BY <1>1
    <2>3. y \in S[Hub] => Opening(P, L, x, y)
      BY DEF Paired
    <2>. QED
      BY <2>1, <2>2, <2>3 DEF Opening, Calm
  <1>6. ASSUME NEW x \in Slots, NEW c \in Centrals, NEW s \in Slots PROVE Answering(Q, M, x, c, s)
    <2>1. Calm(Q[Hub][x].hs, P[Hub][x].hs) /\ Calm(Q[c][s].hs, P[c][s].hs)
      BY <1>1
    <2>2. Answering(P, L, x, c, s)
      BY DEF Paired
    <2>. QED
      BY <2>1, <2>2 DEF Answering, Calm
  <1>7. ASSUME NEW c \in Centrals, NEW s \in Slots, NEW y \in T[Hub] PROVE Asking(Q, M, c, s, y)
    <2>1. y \in S[Hub] \/ ~Shake(y)
      BY <1>1 DEF Plain
    <2>2. Calm(Q[c][s].hs, P[c][s].hs) /\ Stays(Q[c][s], P[c][s])
      BY <1>1
    <2>3. y \in S[Hub] => Asking(P, L, c, s, y)
      BY DEF Paired
    <2>4. P[c][s].client => M[c].hub_handle = L[c].hub_handle
      BY DEF Paired, CentralFrame
    <2>. QED
      BY <2>1, <2>2, <2>3, <2>4 DEF Asking, Calm, Stays
  <1>8. ASSUME NEW c \in Centrals, NEW s \in Slots, NEW y \in T[c] PROVE Replying(Q, c, s, y)
    <2>1. y \in S[c] \/ ~Shake(y)
      BY <1>1 DEF Plain
    <2>2. Calm(Q[c][s].hs, P[c][s].hs) /\ Stays(Q[c][s], P[c][s])
      BY <1>1
    <2>3. y \in S[c] => Replying(P, c, s, y)
      BY DEF Paired
    <2>. QED
      BY <2>1, <2>2, <2>3 DEF Replying, Calm, Stays
  <1>. QED
    BY <1>2, <1>3, <1>4, <1>5, <1>6, <1>7, <1>8 DEF Paired
-----------------------------------------------------------------------------
(* Steps that take one handshake further                                    *)

\* What a handshake step leaves alone in a slot.
Framed(q, p) ==
    /\ q.active = p.active /\ q.handle = p.handle /\ q.addr = p.addr
    /\ q.we_are_central = p.we_are_central /\ q.client = p.client

\* Only the handshake in slot s of n changes.
OnlyHs(Q, P, n, s) ==
    /\ \A m \in Nodes : \A t \in Slots : Framed(Q[m][t], P[m][t])
    /\ \A m \in Nodes : \A t \in Slots : (m = n /\ t = s) \/ Q[m][t].hs = P[m][t].hs

LEMMA FramedFirst ==
    ASSUME NEW a, NEW b, \A t \in Slots : Framed(a[t], b[t]), NEW x \in Slots, NEW h
    PROVE  FirstAt(a, x, h) <=> FirstAt(b, x, h)
  BY DEF Framed, FirstAt

LEMMA FramedServes ==
    ASSUME NEW P, NEW Q, NEW n, NEW s, OnlyHs(Q, P, n, s), NEW L, NEW x \in Slots, NEW c
    PROVE  Serves(Q, L, x, c) <=> Serves(P, L, x, c)
  <1>1. \A t \in Slots : Framed(Q[Hub][t], P[Hub][t])
    BY HubIsNode DEF OnlyHs
  <1>2. FirstAt(Q[Hub], x, L[c].hub_handle) <=> FirstAt(P[Hub], x, L[c].hub_handle)
    BY <1>1, FramedFirst
  <1>. QED
    BY <1>2 DEF Serves

\* The handshake in slot s of n changes and the packets of N are sent: all that
\* has to be shown is about the two.
LEMMA HandshakeMoves ==
    ASSUME NEW P, NEW S, NEW L, NEW K, Paired(P, S, L, K), NEW Q, NEW T, NEW J, NEW N,
           NEW n \in Nodes, NEW s \in Slots, OnlyHs(Q, P, n, s),
           \A key : Old(key, K) => Old(key, J),
           \A m \in Nodes : \A y \in T[m] : y \in S[m] \/ Plain(m, y) \/ y \in N[m],
           n \in Centrals => CentralHs(Q[n][s]),
           n = Hub => HubHs(Q, L, J, s),
           \A m \in Nodes : \A y \in N[m] : Arrived(J, m, y),
           \A x \in Slots : \A y \in S[Hub] \cup N[Hub] :
               (n = Hub /\ x = s) \/ y \in N[Hub] => Opening(Q, L, x, y),
           \A x \in Slots : \A c \in Centrals : \A t \in Slots :
               (n = Hub /\ x = s) \/ (n = c /\ t = s) => Answering(Q, L, x, c, t),
           \A c \in Centrals : \A t \in Slots : \A y \in S[Hub] \cup N[Hub] :
               (n = c /\ t = s) \/ y \in N[Hub] => Asking(Q, L, c, t, y),
           \A c \in Centrals : \A t \in Slots : \A y \in S[c] \cup N[c] :
               (n = c /\ t = s) \/ y \in N[c] => Replying(Q, c, t, y)
    PROVE  Paired(Q, T, L, J)
  <1>1. Hub \in Nodes /\ Centrals \subseteq Nodes
    BY HubIsNode
  <1>2. \A x \in Slots : \A c : Serves(Q, L, x, c) <=> Serves(P, L, x, c)
    BY FramedServes
  <1>3. ASSUME NEW c \in Centrals, NEW t \in Slots PROVE CentralFrame(Q, L, c, t)
    <2>1. \A u \in Slots : Framed(Q[c][u], P[c][u])
      BY <1>1 DEF OnlyHs
    <2>2. FirstAt(Q[c], t, 0) <=> FirstAt(P[c], t, 0)
      BY <2>1, FramedFirst
    <2>3. CentralFrame(P, L, c, t) /\ Framed(Q[c][t], P[c][t])
      BY <2>1 DEF Paired
    <2>. QED
      BY <2>2, <2>3 DEF CentralFrame, Framed
  <1>4. ASSUME NEW c \in Centrals, NEW t \in Slots PROVE CentralHs(Q[c][t])
    <2>1. CentralHs(P[c][t]) /\ Framed(Q[c][t], P[c][t])
      BY <1>1 DEF Paired, OnlyHs
    <2>2. (n = c /\ t = s) \/ Q[c][t].hs = P[c][t].hs
      BY <1>1 DEF OnlyHs
    <2>. QED
      BY <2>1, <2>2 DEF CentralHs, Framed
  <1>5. ASSUME NEW x \in Slots PROVE HubHs(Q, L, J, x)
    <2>1. HubHs(P, L, K, x)
      BY DEF Paired
    <2>2. (n = Hub /\ x = s) \/ Q[Hub][x].hs = P[Hub][x].hs
      BY <1>1 DEF OnlyHs
    <2>. QED
      BY <1>2, <2>1, <2>2 DEF HubHs
  <1>6. ASSUME NEW m \in Nodes, NEW y \in T[m] PROVE Arrived(J, m, y)
    <2>1. CASE y \in N[m]
      BY <2>1
    <2>2. CASE y \in S[m]
      <3>1. Arrived(K, m, y)
        BY <2>2 DEF Paired
      <3>. QED
        BY <3>1 DEF Arrived, Made
    <2>3. CASE Plain(m, y)
      BY <2>3 DEF Plain, Arrived
    <2>. QED
      BY <2>1, <2>2, <2>3
  <1>7. ASSUME NEW x \in Slots, NEW y \in T[Hub] PROVE Opening(Q, L, x, y)
    <2>1. CASE Plain(Hub, y)
      BY <2>1 DEF Plain, Opening
    <2>2. CASE y \in N[Hub] \/ (y \in S[Hub] /\ n = Hub /\ x = s)
      BY <2>2
    <2>3. CASE y \in S[Hub] /\ ~ (n = Hub /\ x = s)
      <3>1. Opening(P, L, x, y)
        BY <2>3 DEF Paired
      <3>2. Q[Hub][x].hs = P[Hub][x].hs
        BY <1>1, <2>3 DEF OnlyHs
      <3>. QED
        BY <1>2, <3>1, <3>2 DEF Opening
    <2>. QED
      BY <1>1, <2>1, <2>2, <2>3
  <1>8. ASSUME NEW x \in Slots, NEW c \in Centrals, NEW t \in Slots PROVE Answering(Q, L, x, c, t)
    <2>1. CASE (n = Hub /\ x = s) \/ (n = c /\ t = s)
      BY <2>1
    <2>2. CASE ~ ((n = Hub /\ x = s) \/ (n = c /\ t = s))
      <3>1. Q[Hub][x].hs = P[Hub][x].hs /\ Q[c][t].hs = P[c][t].hs
        BY <1>1, <2>2 DEF OnlyHs
      <3>2. Answering(P, L, x, c, t)
        BY DEF Paired
      <3>. QED
        BY <1>2, <3>1, <3>2 DEF Answering
    <2>. QED
      BY <2>1, <2>2
  <1>9. ASSUME NEW c \in Centrals, NEW t \in Slots, NEW y \in T[Hub] PROVE Asking(Q, L, c, t, y)
    <2>1. CASE Plain(Hub, y)
      BY <2>1 DEF Plain, Asking
    <2>2. CASE y \in N[Hub] \/ (y \in S[Hub] /\ n = c /\ t = s)
      BY <2>2
    <2>3. CASE y \in S[Hub] /\ ~ (n = c /\ t = s)
      <3>1. Asking(P, L, c, t, y)
        BY <2>3 DEF Paired
      <3>2. Q[c][t].hs = P[c][t].hs /\ Framed(Q[c][t], P[c][t])
        BY <1>1, <2>3 DEF OnlyHs
      <3>. QED
        BY <3>1, <3>2 DEF Asking, Framed
    <2>. QED
      BY <1>1, <2>1, <2>2, <2>3
  <1>10. ASSUME NEW c \in Centrals, NEW t \in Slots, NEW y \in T[c] PROVE Replying(Q, c, t, y)
    <2>1. CASE Plain(c, y)
      BY <2>1 DEF Plain, Replying
    <2>2. CASE y \in N[c] \/ (y \in S[c] /\ n = c /\ t = s)
      BY <2>2
    <2>3. CASE y \in S[c] /\ ~ (n = c /\ t = s)
      <3>1. Replying(P, c, t, y)
        BY <2>3 DEF Paired
      <3>2. Q[c][t].hs = P[c][t].hs /\ Framed(Q[c][t], P[c][t])
        BY <1>1, <2>3 DEF OnlyHs
      <3>. QED
        BY <3>1, <3>2 DEF Replying, Framed
    <2>. QED
      BY <1>1, <2>1, <2>2, <2>3
  <1>. QED
    BY <1>3, <1>4, <1>5, <1>6, <1>7, <1>8, <1>9, <1>10 DEF Paired

\* A key that is generated next is in no packet and no other slot.
LEMMA NextIsNew ==
    ASSUME NEW K \in [Nodes -> Nat], NEW n \in Nodes
    PROVE  LET J == [K EXCEPT ![n] = @ + 1]
           IN  /\ \A key : Old(key, K) => Old(key, J) /\ key # Ephemeral(n, K[n])
               /\ Old(Ephemeral(n, K[n]), J)
  <1>. DEFINE J == [K EXCEPT ![n] = @ + 1]
  <1>1. K[n] \in Nat /\ J[n] = K[n] + 1 /\ \A m \in Nodes : K[m] \in Nat /\ J[m] \in Nat /\ K[m] <= J[m]
    OBVIOUS
  <1>. HIDE DEF J
  <1>2. ASSUME NEW key, Old(key, K) PROVE Old(key, J)
    <2>. SUFFICES ASSUME NEW m \in Nodes, NEW i \in Nat, key = Ephemeral(m, i) PROVE i < J[m]
      BY DEF Old
    <2>1. i < K[m]
      BY <1>2 DEF Old
    <2>. QED
      BY <1>1, <2>1
  <1>3. ASSUME NEW key, Old(key, K) PROVE key # Ephemeral(n, K[n])
    <2>. SUFFICES ASSUME key = Ephemeral(n, K[n]) PROVE FALSE
      OBVIOUS
    <2>1. K[n] < K[n]
      BY <1>1, <1>3 DEF Old
    <2>. QED
      BY <1>1, <2>1
  <1>4. Old(Ephemeral(n, K[n]), J)
    <2>. SUFFICES ASSUME NEW m \in Nodes, NEW i \in Nat, Ephemeral(n, K[n]) = Ephemeral(m, i)
                  PROVE  i < J[m]
      BY DEF Old
    <2>1. m = n /\ i = K[n]
      BY DEF Ephemeral
    <2>. QED
      BY <1>1, <2>1
  <1>. QED
    BY <1>2, <1>3, <1>4 DEF J

\* The keys of the slots are generated ones.
LEMMA LiveIsOld ==
    ASSUME NEW P, NEW K, Keys(P, K), NEW n \in Nodes, NEW s \in Slots, P[n][s].hs.phase \in Live
    PROVE  Old(P[n][s].hs.e, K) /\ \E i \in Nat : P[n][s].hs.e = Ephemeral(n, i)
  <1>1. PICK i \in Nat : i < K[n] /\ P[n][s].hs.e = Ephemeral(n, i)
    BY DEF Keys, KeysFresh
  <1>2. ASSUME NEW m \in Nodes, NEW j \in Nat, P[n][s].hs.e = Ephemeral(m, j) PROVE j < K[m]
    <2>1. m = n /\ j = i
      BY <1>1, <1>2 DEF Ephemeral
    <2>. QED
      BY <1>1, <2>1
  <1>. QED
    BY <1>1, <1>2 DEF Old

\* _handle_announce at a central: the first message of a new handshake, which is
\* sent only if the slot has the client.
LEMMA BeginMoves ==
    ASSUME NEW P, NEW S, NEW L, NEW K \in [Nodes -> Nat], Paired(P, S, L, K), Keys(P, K),
           NEW c \in Centrals, NEW s \in Slots, NEW Q, NEW T, OnlyHs(Q, P, c, s),
           P[c][s].we_are_central,
           Q[c][s].hs.phase = "AWAIT_MSG2", Q[c][s].hs.e = Ephemeral(c, K[c]),
           \A m \in Nodes : \A y \in T[m] :
               \/ y \in S[m]
               \/ Plain(m, y)
               \/ /\ m = Hub /\ P[c][s].client /\ y.handle = L[c].hub_handle
                  /\ y.pkt.body = Msg("msg1", Ephemeral(c, K[c]), NoCipherText)
    PROVE  Paired(Q, T, L, [K EXCEPT ![c] = @ + 1])
  <1>. DEFINE e == Ephemeral(c, K[c])
              J == [K EXCEPT ![c] = @ + 1]
              Sent(m, y) == /\ m = Hub /\ P[c][s].client /\ y.handle = L[c].hub_handle
                            /\ y.pkt.body = Msg("msg1", e, NoCipherText)
              N == [m \in Nodes |-> {y \in T[m] : Sent(m, y)}]
  <1>1. Hub \in Nodes /\ c \in Nodes /\ c # Hub /\ Hub \notin Centrals /\ Centrals \subseteq Nodes
    BY HubIsNode, PeerAssumption
  <1>2. /\ \A key : Old(key, K) => Old(key, J) /\ key # e
        /\ Old(e, J)
    BY <1>1, NextIsNew
  <1>3. \A m \in Nodes : \A y \in N[m] : Sent(m, y)
    OBVIOUS
  <1>4. \A m \in Nodes : \A y \in T[m] : y \in S[m] \/ Plain(m, y) \/ y \in N[m]
    OBVIOUS
  <1>. HIDE DEF J, N
  <1>5. ASSUME NEW m \in Nodes, NEW y \in N[m]
        PROVE  /\ m = Hub /\ P[c][s].client /\ y.handle = L[c].hub_handle
               /\ y.pkt.body.kind = "msg1" /\ LeadingKey(y.pkt.body) = e
    BY <1>3 DEF Msg, LeadingKey
  <1>. HIDE DEF e, Sent
  <1>6. CentralHs(Q[c][s])
    BY <1>1 DEF CentralHs, OnlyHs, Framed
  <1>7. \A m \in Nodes : \A y \in N[m] : Arrived(J, m, y)
    BY <1>1, <1>2, <1>5 DEF Arrived, Made
  <1>8. ASSUME NEW x \in Slots, NEW y \in S[Hub] \cup N[Hub], y \in N[Hub]
        PROVE  Opening(Q, L, x, y)
    BY <1>1, <1>5, <1>8 DEF Opening
  <1>9. ASSUME NEW x \in Slots PROVE Answering(Q, L, x, c, s)
    <2>1. Q[Hub][x].hs = P[Hub][x].hs /\ HubHs(P, L, K, x)
      BY <1>1 DEF OnlyHs, Paired
    <2>2. Q[Hub][x].hs.phase = "AWAIT_MSG3" => Q[Hub][x].hs.ss[1] # e
      BY <1>2, <2>1 DEF HubHs
    <2>. QED
      BY <2>2 DEF Answering, e
  <1>10. ASSUME NEW d \in Centrals, NEW t \in Slots, NEW y \in S[Hub] \cup N[Hub],
                (c = d /\ t = s) \/ y \in N[Hub]
         PROVE  Asking(Q, L, d, t, y)
    <2>1. CASE y \notin N[Hub]
      <3>1. Arrived(K, Hub, y)
        BY <1>1, <2>1 DEF Paired
      <3>2. Shake(y) => LeadingKey(y.pkt.body) # e
        BY <1>2, <3>1 DEF Arrived, Made
      <3>. QED
        BY <1>10, <2>1, <3>2 DEF Asking, e
    <2>2. CASE y \in N[Hub] /\ c = d /\ t = s
      <3>1. Q[c][s].client = P[c][s].client
        BY <1>1 DEF OnlyHs, Framed
      <3>. QED
        BY <1>1, <1>5, <2>2, <3>1 DEF Asking
    <2>3. CASE y \in N[Hub] /\ ~ (c = d /\ t = s)
      <3>1. Q[d][t].hs = P[d][t].hs
        BY <1>1, <2>3 DEF OnlyHs
      <3>2. P[d][t].hs.phase = "AWAIT_MSG2" => Old(P[d][t].hs.e, K)
        BY <1>1, LiveIsOld DEF Live
      <3>3. LeadingKey(y.pkt.body) = e
        BY <1>1, <1>5, <2>3
      <3>. QED
        BY <1>2, <3>1, <3>2, <3>3 DEF Asking
    <2>. QED
      BY <2>1, <2>2, <2>3
  <1>11. ASSUME NEW d \in Centrals, NEW t \in Slots, NEW y \in S[d] \cup N[d],
                (c = d /\ t = s) \/ y \in N[d]
         PROVE  Replying(Q, d, t, y)
    <2>1. d \in Nodes /\ d # Hub
      BY <1>1
    <2>2. y \in S[d] /\ c = d /\ t = s
      BY <1>5, <1>11, <2>1
    <2>3. Arrived(K, d, y)
      BY <2>1, <2>2 DEF Paired
    <2>4. Shake(y) => y.pkt.body.ct.ad[1] # e
      BY <1>2, <2>3 DEF Arrived, Made
    <2>. QED
      BY <2>2, <2>4 DEF Replying, e
  <1>12. Paired(Q, T, L, J)
    <2>1. \A key : Old(key, K) => Old(key, J)
      BY <1>2
    <2>2. \A x \in Slots : \A d \in Centrals : \A t \in Slots :
             (c = Hub /\ x = s) \/ (c = d /\ t = s) => Answering(Q, L, x, d, t)
      BY <1>1, <1>9
    <2>3. \A x \in Slots : \A y \in S[Hub] \cup N[Hub] :
             (c = Hub /\ x = s) \/ y \in N[Hub] => Opening(Q, L, x, y)
      BY <1>1, <1>8
    <2>. QED
      BY <1>1, <1>4, <1>6, <1>7, <1>10, <1>11, <2>1, <2>2, <2>3, HandshakeMoves
  <1>. QED
    BY <1>12 DEF J

\* The key at the head of a handshake packet.
Leads(key, z) == key = LeadingKey(z.pkt.body)

\* The key that n generates next.
NextOf(key, K, n) == key = Ephemeral(n, K[n])

\* The second message of node n with its key f, in answer to key re.
SecondOf(n, re, f, y) ==
    /\ y.pkt.body.kind = "msg2" /\ LeadingKey(y.pkt.body) = f
    /\ y.pkt.body.ct.ad[1] = re /\ y.pkt.body.ct.ad[2] = f /\ y.pkt.body.ct.pt = Static(n)

\* A slot that has answered a first message with key re, with key f.
Awaits(hs, re, f) == hs.phase = "AWAIT_MSG3" /\ hs.ss[1] = re /\ hs.ss[2] = f

\* What is new on its way is the Hub's answer, to centrals.
SecondSent(T, S, re, f) ==
    \A m \in Nodes : \A y \in T[m] :
        \/ y \in S[m]
        \/ Plain(m, y)
        \/ m \in Centrals /\ y.handle = 0 /\ SecondOf(Hub, re, f, y)

\* _handle_noise_handshake in an idle slot of the Hub: whatever the message, its
\* leading key has come over the connection that the slot serves.
LEMMA HubAnswers ==
    ASSUME NEW P, NEW S, NEW L, NEW K \in [Nodes -> Nat], Paired(P, S, L, K), Keys(P, K),
           NEW s \in Slots, NEW Q, NEW T, OnlyHs(Q, P, Hub, s),
           NEW z \in S[Hub], Shake(z), FirstAt(P[Hub], s, z.handle),
           NEW re, Leads(re, z), NEW f, NextOf(f, K, Hub),
           Awaits(Q[Hub][s].hs, re, f), SecondSent(T, S, re, f)
    PROVE  Paired(Q, T, L, [K EXCEPT ![Hub] = @ + 1])
  <1>. DEFINE J == [K EXCEPT ![Hub] = @ + 1]
              N == [m \in Nodes |-> {y \in T[m] : m \in Centrals /\ y.handle = 0 /\ SecondOf(Hub, re, f, y)}]
  <1>1. Hub \in Nodes /\ Hub \notin Centrals /\ Centrals \subseteq Nodes
    BY HubIsNode, PeerAssumption
  <1>2. /\ \A key : Old(key, K) => Old(key, J) /\ key # f
        /\ Old(f, J)
    <2>1. /\ \A key : Old(key, K) => Old(key, J) /\ key # Ephemeral(Hub, K[Hub])
          /\ Old(Ephemeral(Hub, K[Hub]), J)
      BY <1>1, NextIsNew
    <2>. HIDE DEF J
    <2>. QED
      BY <2>1 DEF NextOf
  <1>3. \A m \in Nodes : \A y \in N[m] : m \in Centrals /\ y.handle = 0 /\ SecondOf(Hub, re, f, y)
    OBVIOUS
  <1>4. \A m \in Nodes : \A y \in T[m] : y \in S[m] \/ Plain(m, y) \/ y \in N[m]
    BY DEF SecondSent
  <1>. HIDE DEF J, N
  <1>5. Old(re, K)
    BY <1>1 DEF Paired, Arrived, Made, Leads
  <1>6. HubHs(Q, L, J, s)
    BY <1>2, <1>5 DEF HubHs, Awaits
  <1>7. \A m \in Nodes : \A y \in N[m] : Arrived(J, m, y)
    BY <1>2, <1>3, <1>5 DEF Arrived, Made, SecondOf
  <1>8. ASSUME NEW y \in S[Hub] PROVE Opening(Q, L, s, y)
    <2>1. Arrived(K, Hub, y)
      BY <1>1 DEF Paired
    <2>2. Shake(y) /\ y.pkt.body.kind = "msg3" => y.pkt.body.ct.ad[2] # f
      BY <1>2, <2>1 DEF Arrived, Made
    <2>. QED
      BY <2>2 DEF Opening, Awaits
  <1>9. ASSUME NEW c \in Centrals, NEW t \in Slots, P[c][t].hs.phase = "AWAIT_MSG2", P[c][t].hs.e = re
        PROVE  P[c][t].client /\ Serves(P, L, s, c)
    <2>1. P[c][t].client /\ z.handle = L[c].hub_handle
      BY <1>9 DEF Paired, Asking, Leads
    <2>2. L[c].stage = "subscribed"
      BY <2>1 DEF Paired, CentralFrame
    <2>. QED
      BY <2>1, <2>2 DEF Serves
  <1>10. \A c \in Centrals : \A t \in Slots : Q[c][t].hs = P[c][t].hs /\ Framed(Q[c][t], P[c][t])
    BY <1>1 DEF OnlyHs
  <1>11. ASSUME NEW c \in Centrals, NEW t \in Slots PROVE Answering(Q, L, s, c, t)
    <2>1. Serves(Q, L, s, c) <=> Serves(P, L, s, c)
      BY FramedServes
    <2>. QED
      BY <1>9, <1>10, <2>1 DEF Answering, Awaits
  <1>12. ASSUME NEW c \in Centrals, NEW t \in Slots, NEW y \in N[c] PROVE Replying(Q, c, t, y)
    <2>1. y.pkt.body.ct.ad[1] = re
      BY <1>1, <1>3 DEF SecondOf
    <2>. QED
      BY <1>9, <1>10, <2>1 DEF Replying, Framed
  <1>13. Paired(Q, T, L, J)
    <2>1. \A key : Old(key, K) => Old(key, J)
      BY <1>2
    <2>2. N[Hub] = {}
      BY <1>1, <1>3
    <2>3. \A x \in Slots : \A y \in S[Hub] \cup N[Hub] :
             (Hub = Hub /\ x = s) \/ y \in N[Hub] => Opening(Q, L, x, y)
      BY <1>8, <2>2
    <2>4. \A x \in Slots : \A c \in Centrals : \A t \in Slots :
             (Hub = Hub /\ x = s) \/ (Hub = c /\ t = s) => Answering(Q, L, x, c, t)
      BY <1>1, <1>11
    <2>5. \A c \in Centrals : \A t \in Slots : \A y \in S[Hub] \cup N[Hub] :
             (Hub = c /\ t = s) \/ y \in N[Hub] => Asking(Q, L, c, t, y)
      BY <1>1, <2>2
    <2>6. \A c \in Centrals : \A t \in Slots : \A y \in S[c] \cup N[c] :
             (Hub = c /\ t = s) \/ y \in N[c] => Replying(Q, c, t, y)
      BY <1>1, <1>12
    <2>. QED
      BY <1>1, <1>4, <1>6, <1>7, <2>1, <2>3, <2>4, <2>5, <2>6, HandshakeMoves
  <1>. QED
    BY <1>13 DEF J

\* The same in an idle slot of a central, which takes the answer to another for
\* a first message.
LEMMA CentralAnswers ==
    ASSUME NEW P, NEW S, NEW L, NEW K \in [Nodes -> Nat], Paired(P, S, L, K), Keys(P, K),
           NEW c \in Centrals, NEW s \in Slots, NEW Q, NEW T, OnlyHs(Q, P, c, s),
           NEW re, Old(re, K), NEW f, NextOf(f, K, c),
           Q[c][s].hs.phase = "AWAIT_MSG3",
           \A m \in Nodes : \A y \in T[m] :
               y \in S[m] \/ Plain(m, y) \/ (m = Hub /\ SecondOf(c, re, f, y))
    PROVE  Paired(Q, T, L, [K EXCEPT ![c] = @ + 1])
  <1>. DEFINE J == [K EXCEPT ![c] = @ + 1]
              N == [m \in Nodes |-> {y \in T[m] : m = Hub /\ SecondOf(c, re, f, y)}]
  <1>1. Hub \in Nodes /\ c \in Nodes /\ c # Hub /\ Hub \notin Centrals /\ Centrals \subseteq Nodes
    BY HubIsNode, PeerAssumption
  <1>2. /\ \A key : Old(key, K) => Old(key, J) /\ key # f
        /\ Old(f, J)
    <2>. HIDE DEF J
    <2>1. f = Ephemeral(c, K[c])
      BY DEF NextOf
    <2>. QED
      BY <1>1, <2>1, NextIsNew DEF J
  <1>3. \A m \in Nodes : \A y \in N[m] : m = Hub /\ SecondOf(c, re, f, y)
    OBVIOUS
  <1>4. \A m \in Nodes : \A y \in T[m] : y \in S[m] \/ Plain(m, y) \/ y \in N[m]
    OBVIOUS
  <1>. HIDE DEF J, N
  <1>5. CentralHs(Q[c][s])
    BY DEF CentralHs
  <1>6. \A m \in Nodes : \A y \in N[m] : Arrived(J, m, y)
    BY <1>1, <1>2, <1>3 DEF Arrived, Made, SecondOf
  <1>7. ASSUME NEW x \in Slots, NEW y \in N[Hub] PROVE Opening(Q, L, x, y)
    BY <1>1, <1>3 DEF Opening, SecondOf
  <1>8. ASSUME NEW d \in Centrals, NEW t \in Slots, NEW y \in N[Hub] PROVE Asking(Q, L, d, t, y)
    <2>1. CASE d = c /\ t = s
      BY <2>1 DEF Asking
    <2>2. CASE ~ (d = c /\ t = s)
      <3>1. Q[d][t].hs = P[d][t].hs
        BY <1>1, <2>2 DEF OnlyHs
      <3>2. P[d][t].hs.phase = "AWAIT_MSG2" => Old(P[d][t].hs.e, K)
        BY <1>1, LiveIsOld DEF Live
      <3>3. LeadingKey(y.pkt.body) = f
        BY <1>1, <1>3 DEF SecondOf
      <3>. QED
        BY <1>2, <3>1, <3>2, <3>3 DEF Asking
    <2>. QED
      BY <2>1, <2>2
  <1>9. Paired(Q, T, L, J)
    <2>1. \A key : Old(key, K) => Old(key, J)
      BY <1>2
    <2>2. \A x \in Slots : \A y \in S[Hub] \cup N[Hub] :
             (c = Hub /\ x = s) \/ y \in N[Hub] => Opening(Q, L, x, y)
      BY <1>1, <1>7
    <2>3. \A x \in Slots : \A d \in Centrals : \A t \in Slots :
             (c = Hub /\ x = s) \/ (c = d /\ t = s) => Answering(Q, L, x, d, t)
      BY <1>1 DEF Answering
    <2>4. \A d \in Centrals : \A t \in Slots : \A y \in S[Hub] \cup N[Hub] :
             (c = d /\ t = s) \/ y \in N[Hub] => Asking(Q, L, d, t, y)
      <3>1. \A y : Asking(Q, L, c, s, y)
        BY DEF Asking
      <3>. QED
        BY <1>8, <3>1
    <2>5. \A d \in Centrals : \A t \in Slots : \A y \in S[d] \cup N[d] :
             (c = d /\ t = s) \/ y \in N[d] => Replying(Q, d, t, y)
      <3>1. \A y : Replying(Q, c, s, y)
        BY DEF Replying
      <3>2. \A d \in Centrals : N[d] = {}
        BY <1>1, <1>3
      <3>. QED
        BY <3>1, <3>2
    <2>. QED
      BY <1>1, <1>4, <1>5, <1>6, <2>1, <2>2, <2>3, <2>4, <2>5, HandshakeMoves
  <1>. QED
    BY <1>9 DEF J

\* Bytes of a ciphertext are no key that was generated.
LEMMA GarbledIsNoKey == ASSUME NEW n, NEW i PROVE Garbled # Ephemeral(n, i)
  <1>1. Garbled[1] = "g" /\ Ephemeral(n, i)[1] = "e"
    BY DEF Garbled, Ephemeral
  <1>. QED
    BY <1>1

Asks(hs, e) == hs.phase = "AWAIT_MSG2" /\ hs.e = e

SessionWith(hs, z) == hs.phase = "TRANSPORT" /\ hs.rs = z.pkt.body.ct.pt

\* The third message of c, after the answer in z to its key.
ThirdOf(c, e, z, y) ==
    /\ y.pkt.body.kind = "msg3"
    /\ y.pkt.body.ct.ad[1] = e /\ y.pkt.body.ct.ad[2] = LeadingKey(z.pkt.body)
    /\ y.pkt.body.ct.pt = Static(c)

\* What is new on its way is that message, to the Hub.
ThirdSent(T, S, c, e, z) ==
    \A m \in Nodes : \A y \in T[m] :
        y \in S[m] \/ Plain(m, y) \/ (m = Hub /\ ThirdOf(c, e, z, y))

\* A central opens the answer to its own first message: the slot has the client,
\* and the Hub's slot that waits for the third message serves its connection.
LEMMA CentralFinishes ==
    ASSUME NEW P, NEW S, NEW L, NEW K \in [Nodes -> Nat], Paired(P, S, L, K), Keys(P, K),
           NEW c \in Centrals, NEW s \in Slots, NEW Q, NEW T, OnlyHs(Q, P, c, s),
           NEW e, Asks(P[c][s].hs, e), NEW z \in S[c], Shake(z), z.pkt.body.ct.ad[1] = e,
           SessionWith(Q[c][s].hs, z), ThirdSent(T, S, c, e, z)
    PROVE  Paired(Q, T, L, K)
  <1>. DEFINE N == [m \in Nodes |-> {y \in T[m] : m = Hub /\ ThirdOf(c, e, z, y)}]
  <1>1. Hub \in Nodes /\ c \in Nodes /\ c # Hub /\ Hub \notin Centrals /\ Centrals \subseteq Nodes
    BY HubIsNode, PeerAssumption
  <1>2. \A m \in Nodes : \A y \in N[m] :
           /\ m = Hub /\ y.pkt.body.kind = "msg3"
           /\ y.pkt.body.ct.ad[1] = e /\ y.pkt.body.ct.ad[2] = LeadingKey(z.pkt.body)
           /\ y.pkt.body.ct.pt = Static(c)
    BY DEF ThirdOf
  <1>3. \A m \in Nodes : \A y \in T[m] : y \in S[m] \/ Plain(m, y) \/ y \in N[m]
    BY DEF ThirdSent
  <1>. HIDE DEF N
  <1>4. Arrived(K, c, z) /\ Replying(P, c, s, z)
    BY <1>1 DEF Paired
  <1>5. CentralHs(Q[c][s])
    <2>1. P[c][s].client /\ Q[c][s].client = P[c][s].client
      BY <1>1, <1>4 DEF Replying, OnlyHs, Framed, Asks
    <2>. QED
      BY <1>4, <2>1 DEF CentralHs, Arrived, SessionWith
  <1>6. \A m \in Nodes : \A y \in N[m] : LeadingKey(y.pkt.body) = Garbled
    BY <1>2 DEF LeadingKey
  <1>7. \A m \in Nodes : \A y \in N[m] : Arrived(K, m, y)
    <2>1. Old(e, K)
      BY <1>1, LiveIsOld DEF Live, Asks
    <2>2. Old(Garbled, K)
      BY GarbledIsNoKey DEF Old
    <2>3. Old(LeadingKey(z.pkt.body), K)
      BY <1>4 DEF Arrived, Made
    <2>. QED
      BY <1>1, <1>2, <1>6, <2>1, <2>2, <2>3 DEF Arrived, Made
  <1>8. ASSUME NEW x \in Slots, NEW y \in N[Hub] PROVE Opening(Q, L, x, y)
    <2>1. Q[Hub][x].hs = P[Hub][x].hs
      BY <1>1 DEF OnlyHs
    <2>2. Serves(Q, L, x, c) <=> Serves(P, L, x, c)
      BY FramedServes
    <2>3. Answering(P, L, x, c, s)
      BY DEF Paired
    <2>4. y.pkt.body.ct.ad[1] = e /\ y.pkt.body.ct.pt = Static(c)
      BY <1>1, <1>2
    <2>5. P[Hub][x].hs.phase = "AWAIT_MSG3" /\ y.pkt.body.ct.ad = P[Hub][x].hs.ss => Serves(P, L, x, c)
      BY <2>3, <2>4 DEF Answering, Asks
    <2>. QED
      BY <2>1, <2>2, <2>4, <2>5 DEF Opening
  <1>9. ASSUME NEW d \in Centrals, NEW t \in Slots, NEW y \in N[Hub] PROVE Asking(Q, L, d, t, y)
    <2>1. CASE d = c /\ t = s
      BY <2>1 DEF Asking, SessionWith
    <2>2. CASE ~ (d = c /\ t = s)
      <3>1. Q[d][t].hs = P[d][t].hs
        BY <1>1, <2>2 DEF OnlyHs
      <3>2. P[d][t].hs.phase = "AWAIT_MSG2" => \E i \in Nat : P[d][t].hs.e = Ephemeral(d, i)
        BY <1>1, LiveIsOld DEF Live
      <3>3. P[d][t].hs.phase = "AWAIT_MSG2" => P[d][t].hs.e # Garbled
        BY <3>2, GarbledIsNoKey
      <3>. QED
        BY <1>1, <1>6, <3>1, <3>3 DEF Asking
    <2>. QED
      BY <2>1, <2>2
  <1>. QED
    <2>1. \A x \in Slots : \A y \in S[Hub] \cup N[Hub] :
             (c = Hub /\ x = s) \/ y \in N[Hub] => Opening(Q, L, x, y)
      BY <1>1, <1>8
    <2>2. \A x \in Slots : \A d \in Centrals : \A t \in Slots :
             (c = Hub /\ x = s) \/ (c = d /\ t = s) => Answering(Q, L, x, d, t)
      BY <1>1 DEF Answering, SessionWith
    <2>3. \A d \in Centrals : \A t \in Slots : \A y \in S[Hub] \cup N[Hub] :
             (c = d /\ t = s) \/ y \in N[Hub] => Asking(Q, L, d, t, y)
      <3>1. \A y : Asking(Q, L, c, s, y)
        BY DEF Asking, SessionWith
      <3>. QED
        BY <1>9, <3>1
    <2>4. \A d \in Centrals : \A t \in Slots : \A y \in S[d] \cup N[d] :
             (c = d /\ t = s) \/ y \in N[d] => Replying(Q, d, t, y)
      <3>1. \A y : Replying(Q, c, s, y)
        BY DEF Replying, SessionWith
      <3>2. \A d \in Centrals : N[d] = {}
        BY <1>1, <1>2
      <3>. QED
        BY <3>1, <3>2
    <2>5. \A key : Old(key, K) => Old(key, K)
      OBVIOUS
    <2>. QED
      BY <1>1, <1>3, <1>5, <1>7, <2>1, <2>2, <2>3, <2>4, <2>5, HandshakeMoves

\* The Hub opens the third message.
LEMMA HubFinishes ==
    ASSUME NEW P, NEW S, NEW L, NEW K, Paired(P, S, L, K),
           NEW s \in Slots, NEW Q, NEW T, OnlyHs(Q, P, Hub, s),
           P[Hub][s].hs.phase = "AWAIT_MSG3",
           NEW z \in S[Hub], Shake(z), z.pkt.body.kind = "msg3",
           z.pkt.body.ct.ad = P[Hub][s].hs.ss,
           Q[Hub][s].hs.phase = "TRANSPORT", Q[Hub][s].hs.rs = z.pkt.body.ct.pt,
           \A m \in Nodes : \A y \in T[m] : y \in S[m] \/ Plain(m, y)
    PROVE  Paired(Q, T, L, K)
  <1>. SUFFICES ASSUME NEW J, J = K PROVE Paired(Q, T, L, J)
    OBVIOUS
  <1>. DEFINE N == [m \in Nodes |-> {}]
  <1>1. Hub \in Nodes /\ Hub \notin Centrals /\ Centrals \subseteq Nodes
    BY HubIsNode, PeerAssumption
  <1>2. \A m \in Nodes : N[m] = {}
    OBVIOUS
  <1>. HIDE DEF N
  <1>3. HubHs(Q, L, J, s)
    <2>1. Opening(P, L, s, z)
      BY DEF Paired
    <2>2. PICK c \in Centrals : Serves(P, L, s, c) /\ z.pkt.body.ct.pt = Static(c)
      BY <2>1 DEF Opening
    <2>3. Serves(Q, L, s, c)
      BY <2>2, FramedServes
    <2>. QED
      BY <2>2, <2>3 DEF HubHs
  <1>4. \A y : Opening(Q, L, s, y)
    BY DEF Opening
  <1>5. \A c \in Centrals : \A t \in Slots : Answering(Q, L, s, c, t)
    BY DEF Answering
  <1>. QED
    <2>1. \A m \in Nodes : \A y \in T[m] : y \in S[m] \/ Plain(m, y) \/ y \in N[m]
      OBVIOUS
    <2>2. \A m \in Nodes : \A y \in N[m] : Arrived(J, m, y)
      BY <1>2
    <2>3. \A x \in Slots : \A y \in S[Hub] \cup N[Hub] :
             (Hub = Hub /\ x = s) \/ y \in N[Hub] => Opening(Q, L, x, y)
      BY <1>1, <1>2, <1>4
    <2>4. \A x \in Slots : \A c \in Centrals : \A t \in Slots :
             (Hub = Hub /\ x = s) \/ (Hub = c /\ t = s) => Answering(Q, L, x, c, t)
      BY <1>1, <1>5
    <2>5. \A c \in Centrals : \A t \in Slots : \A y \in S[Hub] \cup N[Hub] :
             (Hub = c /\ t = s) \/ y \in N[Hub] => Asking(Q, L, c, t, y)
      BY <1>1, <1>2
    <2>6. \A c \in Centrals : \A t \in Slots : \A y \in S[c] \cup N[c] :
             (Hub = c /\ t = s) \/ y \in N[c] => Replying(Q, c, t, y)
      BY <1>1, <1>2
    <2>7. \A key : Old(key, K) => Old(key, J)
      OBVIOUS
    <2>8. Hub \in Centrals => CentralHs(Q[Hub][s])
      BY <1>1
    <2>9. Hub = Hub => HubHs(Q, L, J, s)
      BY <1>3
    <2>. QED
      BY <1>1, <2>1, <2>2, <2>3, <2>4, <2>5, <2>6, <2>7, <2>8, <2>9, HandshakeMoves

-----------------------------------------------------------------------------
(* What a step does to the slots                                            *)

\* Every slot keeps its place, and its handshake or gives it up.
LEMMA FramedStep ==
    ASSUME NEW P, NEW S, NEW L, NEW K, Paired(P, S, L, K), NEW Q, NEW T,
           \A n \in Nodes : \A s \in Slots : Framed(Q[n][s], P[n][s]),
           \A n \in Nodes : \A s \in Slots : Calm(Q[n][s].hs, P[n][s].hs),
           \A m \in Nodes : \A y \in T[m] : y \in S[m] \/ Plain(m, y)
    PROVE  Paired(Q, T, L, K)
  <1>. SUFFICES ASSUME NEW M, M = L PROVE Paired(Q, T, M, K)
    OBVIOUS
  <1>1. Hub \in Nodes /\ Centrals \subseteq Nodes
    BY HubIsNode
  <1>2. \A c \in Centrals : M[c].handle = 0
    BY DEF Paired
  <1>3. \A c \in Centrals : L[c].stage # "down" => M[c].hub_handle = L[c].hub_handle
    OBVIOUS
  <1>4. ASSUME NEW c \in Centrals, NEW s \in Slots PROVE CentralFrame(Q, M, c, s)
    <2>1. CentralFrame(P, L, c, s) /\ Framed(Q[c][s], P[c][s])
      BY <1>1 DEF Paired
    <2>2. FirstAt(Q[c], s, 0) <=> FirstAt(P[c], s, 0)
      BY <1>1, FramedFirst
    <2>. QED
      BY <2>1, <2>2 DEF CentralFrame, Framed
  <1>5. \A c \in Centrals : \A s \in Slots : Stays(Q[c][s], P[c][s])
    BY <1>1 DEF Stays, Framed
  <1>6. ASSUME NEW x \in Slots, NEW c \in Centrals, Serves(P, L, x, c) PROVE Serves(Q, M, x, c)
    <2>1. FirstAt(Q[Hub], x, L[c].hub_handle) <=> FirstAt(P[Hub], x, L[c].hub_handle)
      BY <1>1, FramedFirst
    <2>. QED
      BY <1>6, <2>1 DEF Serves
  <1>. QED
    BY <1>2, <1>3, <1>4, <1>5, <1>6, CalmStep

\* A slot with a frame and a handshake as before.
Same(q, p) == Framed(q, p) /\ q.hs = p.hs

\* At most one slot is new: it was free, and is for handle h.
Grown(new, old, h, addr, central) ==
    \/ \A t \in Slots : Same(new[t], old[t])
    \/ \E s \in Slots :
          /\ ~old[s].active /\ new[s].active /\ new[s].handle = h /\ new[s].addr = addr
          /\ new[s].we_are_central = central /\ ~new[s].client /\ new[s].hs.phase = "IDLE"
          /\ \A t \in Slots \ {s} : Same(new[t], old[t])

\* Slots are as before or have been cleared.
Freed(new, old) == \A t \in Slots : new[t] = old[t] \/ new[t] = FreeSlot

LEMMA FreeSlotFields ==
    /\ ~FreeSlot.active /\ FreeSlot.handle = 0 /\ ~FreeSlot.client /\ ~FreeSlot.we_are_central
    /\ FreeSlot.hs.phase = "IDLE"
  BY DEF FreeSlot, ZeroHs

LEMMA FreedFirst ==
    ASSUME NEW new, NEW old, Freed(new, old), NEW x \in Slots, NEW h, FirstAt(old, x, h), new[x] = old[x]
    PROVE  FirstAt(new, x, h)
  <1>1. \A t \in Slots : new[t].active => new[t] = old[t]
    BY FreeSlotFields DEF Freed
  <1>. QED
    BY <1>1 DEF FirstAt

\* No slot has the handle.
Vacant(table, h) == \A t \in Slots : ~ (table[t].active /\ table[t].handle = h)

\* A new slot does not come before the one of another handle.
LEMMA GrownFirst ==
    ASSUME NEW new, NEW old, NEW h, NEW addr, NEW central, Grown(new, old, h, addr, central),
           NEW x \in Slots, NEW g, FirstAt(old, x, g),
           g # h \/ Vacant(old, h)
    PROVE  FirstAt(new, x, g)
  <1>1. g # h
    BY DEF FirstAt, Vacant
  <1>2. \A t \in Slots : new[t].active /\ new[t].handle = g => Same(new[t], old[t])
    BY <1>1 DEF Grown
  <1>3. Same(new[x], old[x])
    BY DEF Grown, FirstAt
  <1>. QED
    BY <1>2, <1>3 DEF FirstAt, Same, Framed

\* _find_peer: the first slot.
LEMMA FindFirst ==
    ASSUME NEW table, NEW h
    PROVE  \/ FindPeer(table, h) = NoSlot /\ Vacant(table, h)
           \/ FindPeer(table, h) \in Slots /\ FirstAt(table, FindPeer(table, h), h)
  <1>. DEFINE I == {s \in Slots : table[s].active /\ table[s].handle = h}
  <1>1. FindPeer(table, h) = First(I) /\ I \in SUBSET Slots
    BY DEF FindPeer
  <1>2. \A t \in Slots : t \in I <=> table[t].active /\ table[t].handle = h
    OBVIOUS
  <1>. HIDE DEF I
  <1>3. CASE I = {}
    BY <1>1, <1>2, <1>3 DEF First, Vacant
  <1>4. CASE I # {}
    <2>1. Slots \subseteq Nat
      BY SlotsAreNat
    <2>2. \E i \in I : \A j \in I : i <= j
      BY <1>1, <1>4, <2>1, LeastElement
    <2>3. First(I) \in I /\ \A j \in I : First(I) <= j
      BY <1>4, <2>2 DEF First
    <2>. DEFINE f == First(I)
    <2>. HIDE DEF f
    <2>4. f \in Slots /\ \A t \in Slots : t < f => t \notin I
      <3>1. f \in I /\ f \in Nat /\ \A j \in I : f <= j
        BY <1>1, <2>1, <2>3 DEF f
      <3>2. \A t \in Nat : ~ (t < f /\ f <= t)
        BY <3>1
      <3>. QED
        BY <1>1, <2>1, <3>1, <3>2
    <2>. QED
      BY <1>1, <1>2, <2>3, <2>4 DEF FirstAt, f
  <1>. QED
    BY <1>3, <1>4

\* There is one first slot.
LEMMA OneFirst ==
    ASSUME NEW table, NEW h, NEW x \in Slots, NEW y \in Slots, FirstAt(table, x, h), FirstAt(table, y, h)
    PROVE  x = y
  <1>1. ~ (x < y) /\ ~ (y < x)
    BY DEF FirstAt
  <1>2. x \in Nat /\ y \in Nat
    BY SlotsAreNat
  <1>. QED
    BY <1>1, <1>2

LEMMA FreeClears ==
    ASSUME NEW node, NEW table, IsTable(node, table), NEW h
    PROVE  /\ Freed(FreePeer(table, h), table)
           /\ \A t \in Slots : FirstAt(table, t, h) => FreePeer(table, h)[t] = FreeSlot
  <1>. DEFINE s == FindPeer(table, h)
              new == FreePeer(table, h)
  <1>1. \/ s = NoSlot /\ Vacant(table, h)
        \/ s \in Slots /\ FirstAt(table, s, h)
    BY FindFirst
  <1>2. new = IF s = NoSlot THEN table ELSE [table EXCEPT ![s] = FreeSlot]
    BY DEF FreePeer
  <1>3. NoSlot \notin Slots /\ DOMAIN table = Slots
    BY SlotsAreNat DEF IsTable
  <1>. HIDE DEF s, new
  <1>4. CASE s = NoSlot
    <2>1. new = table
      BY <1>2, <1>4
    <2>2. \A t \in Slots : ~FirstAt(table, t, h)
      BY <1>1, <1>3, <1>4 DEF FirstAt, Vacant
    <2>3. Freed(new, table)
      BY <2>1 DEF Freed
    <2>. QED
      BY <2>2, <2>3 DEF new
  <1>5. CASE s # NoSlot
    <2>1. s \in Slots /\ FirstAt(table, s, h)
      BY <1>1, <1>5
    <2>2. \A t \in Slots : new[t] = IF t = s THEN FreeSlot ELSE table[t]
      BY <1>2, <1>3, <1>5
    <2>3. Freed(new, table)
      BY <2>2 DEF Freed
    <2>4. \A t \in Slots : FirstAt(table, t, h) => t = s
      BY <2>1, OneFirst
    <2>. QED
      BY <2>2, <2>3, <2>4 DEF new
  <1>. QED
    BY <1>4, <1>5

LEMMA FreedTwice ==
    ASSUME NEW a, NEW b, NEW c, Freed(b, a), Freed(c, b)
    PROVE  Freed(c, a)
  BY DEF Freed

\* _alloc_peer adds a slot or changes nothing.
LEMMA AllocGrows ==
    ASSUME NEW node, NEW table, IsTable(node, table), NEW h, NEW addr, NEW central
    PROVE  Grown(AllocPeer(table, h, addr, central), table, h, addr, central)
  <1>. DEFINE I == {t \in Slots : ~table[t].active}
              s == First(I)
              p == [FreeSlot EXCEPT !.active = TRUE, !.handle = h,
                                    !.addr = addr, !.we_are_central = central]
              new == AllocPeer(table, h, addr, central)
  <1>1. s = NoSlot \/ s \in I
    BY FirstIs
  <1>2. new = IF s = NoSlot THEN table ELSE [table EXCEPT ![s] = p]
    BY DEF AllocPeer
  <1>3. /\ p.active /\ p.handle = h /\ p.addr = addr /\ p.we_are_central = central
        /\ ~p.client /\ p.hs.phase = "IDLE"
    BY DEF FreeSlot, ZeroHs
  <1>4. s \in I => s \in Slots /\ ~table[s].active
    OBVIOUS
  <1>5. DOMAIN table = Slots
    BY DEF IsTable
  <1>. HIDE DEF s, I, p, new
  <1>6. CASE s = NoSlot
    BY <1>2, <1>6 DEF Grown, Same, Framed, new
  <1>7. CASE s # NoSlot
    <2>1. s \in Slots /\ ~table[s].active
      BY <1>1, <1>4, <1>7
    <2>2. new[s] = p /\ \A t \in Slots \ {s} : new[t] = table[t]
      BY <1>2, <1>5, <1>7, <2>1
    <2>3. \A t \in Slots \ {s} : Same(new[t], table[t])
      BY <2>2 DEF Same, Framed
    <2>4. Grown(new, table, h, addr, central)
      BY <1>3, <2>1, <2>2, <2>3 DEF Grown
    <2>. QED
      BY <2>4 DEF new
  <1>. QED
    BY <1>6, <1>7

\* Then fields are set that the frame does not have.
LEMMA GrownThen ==
    ASSUME NEW a, NEW b, NEW c, NEW h, NEW addr, NEW central, Grown(b, a, h, addr, central),
           \A t \in Slots : Same(c[t], b[t])
    PROVE  Grown(c, a, h, addr, central)
  <1>1. CASE \A t \in Slots : Same(b[t], a[t])
    BY <1>1 DEF Grown, Same, Framed
  <1>2. ASSUME NEW s \in Slots,
               ~a[s].active, b[s].active, b[s].handle = h, b[s].addr = addr,
               b[s].we_are_central = central, ~b[s].client, b[s].hs.phase = "IDLE",
               \A t \in Slots \ {s} : Same(b[t], a[t])
        PROVE  Grown(c, a, h, addr, central)
    <2>1. \A t \in Slots \ {s} : Same(c[t], a[t])
      BY <1>2 DEF Same, Framed
    <2>2. Same(c[s], b[s])
      OBVIOUS
    <2>3. /\ c[s].active /\ c[s].handle = h /\ c[s].addr = addr
          /\ c[s].we_are_central = central /\ ~c[s].client /\ c[s].hs.phase = "IDLE"
      BY <1>2, <2>2 DEF Same, Framed
    <2>. QED
      BY <1>2, <2>1, <2>3 DEF Grown
  <1>. QED
    BY <1>1, <1>2 DEF Grown

-----------------------------------------------------------------------------
(* What a step puts on its way                                              *)

\* The handshake packets in a list of packets to send are in X.
Shakes(seq, X) == \A i \in DOMAIN seq : seq[i].pkt.type = "HANDSHAKE" => seq[i] \in X

\* One packet of the list at a receiver.
Carried(lk, n, m, x, y) ==
    m \in Receivers(lk, n, x.peer) /\ y = [handle |-> HandleOf(lk, n, m), pkt |-> x.pkt]

LEMMA ShareHas ==
    ASSUME NEW lk, NEW n, NEW m, NEW seq, IsSeq(seq),
           NEW y \in Entries(Share(lk, n, seq, m))
    PROVE  \E i \in DOMAIN seq : Carried(lk, n, m, seq[i], y)
  <1>. DEFINE I == {i \in DOMAIN seq : m \in Receivers(lk, n, seq[i].peer)}
              k == Cardinality(I)
              f == Ascending(I)
              share == Share(lk, n, seq, m)
  <1>1. Len(seq) \in Nat /\ DOMAIN seq = 1 .. Len(seq)
    BY SeqIs
  <1>2. I \subseteq 1 .. Len(seq) /\ \A i \in I : i \in DOMAIN seq /\ m \in Receivers(lk, n, seq[i].peer)
    BY <1>1
  <1>. HIDE DEF I
  <1>3. k \in Nat /\ f \in [1 .. k -> I]
    BY <1>1, <1>2, AscendingLists
  <1>. HIDE DEF f, k
  <1>4. share = [i \in 1 .. k |-> [handle |-> HandleOf(lk, n, m), pkt |-> seq[f[i]].pkt]]
    <2>1. Only(seq, I) = [r \in 1 .. k |-> seq[f[r]]]
      BY <1>3 DEF Only, f
    <2>2. share = [i \in DOMAIN Only(seq, I) |-> [handle |-> HandleOf(lk, n, m), pkt |-> Only(seq, I)[i].pkt]]
      BY DEF Share, I
    <2>. HIDE DEF share
    <2>. QED
      BY <2>1, <2>2
  <1>5. PICK i \in DOMAIN share : y = share[i]
    BY DEF Entries
  <1>. HIDE DEF share
  <1>6. i \in 1 .. k /\ y = [handle |-> HandleOf(lk, n, m), pkt |-> seq[f[i]].pkt]
    BY <1>4, <1>5
  <1>7. f[i] \in I
    BY <1>3, <1>6
  <1>8. f[i] \in DOMAIN seq /\ m \in Receivers(lk, n, seq[f[i]].peer)
    BY <1>2, <1>7
  <1>. QED
    BY <1>6, <1>8 DEF Carried

\* What is in a ring after sending: what was there, and what was sent to it.
LEMMA SendHas ==
    ASSUME NEW lk \in LinkType, NEW n \in Nodes, NEW seq, Sends(n, seq), NEW b, Boxes(b),
           NEW m \in Nodes, NEW y \in Entries(SendToPeers(lk, n, seq, b)[m])
    PROVE  y \in Entries(b[m]) \/ \E i \in DOMAIN seq : Carried(lk, n, m, seq[i], y)
  <1>. DEFINE share == Share(lk, n, seq, m)
              old == b[m]
              all == old \o share
  <1>1. SendToPeers(lk, n, seq, b) = [k \in Nodes |-> Fits(b[k] \o Share(lk, n, seq, k))]
    BY DEF SendToPeers, Share
  <1>2. SendToPeers(lk, n, seq, b)[m] = Fits(all)
    BY <1>1
  <1>3. IsSeq(old) /\ IsSeq(share) /\ IsSeq(seq)
    BY ShareIs DEF Boxes, IsBox, Sends
  <1>4. \A z \in Entries(share) : \E i \in DOMAIN seq : Carried(lk, n, m, seq[i], z)
    BY <1>3, ShareHas
  <1>. HIDE DEF share, old
  <1>5. /\ IsSeq(all)
        /\ \A i \in DOMAIN all : \/ i \in DOMAIN old /\ all[i] = old[i]
                                 \/ i - Len(old) \in DOMAIN share /\ all[i] = share[i - Len(old)]
    BY <1>3, ConcatSeq
  <1>. HIDE DEF all
  <1>6. \A i \in DOMAIN Fits(all) : i \in DOMAIN all /\ Fits(all)[i] = all[i]
    BY <1>5, FitsIs
  <1>7. PICK i \in DOMAIN Fits(all) : y = Fits(all)[i]
    BY <1>2 DEF Entries
  <1>8. \/ i \in DOMAIN old /\ y = old[i]
        \/ i - Len(old) \in DOMAIN share /\ y = share[i - Len(old)]
    BY <1>5, <1>6, <1>7
  <1>9. y \in Entries(b[m]) \/ y \in Entries(share)
    BY <1>8 DEF Entries, old
  <1>. QED
    BY <1>4, <1>9

\* Where a central's packets go.
LEMMA FromCentral ==
    ASSUME NEW lk, NEW c \in Centrals, NEW m \in Nodes, NEW x, NEW y, Carried(lk, c, m, x, y)
    PROVE  m = Hub /\ x.peer.client /\ y.handle = lk[c].hub_handle /\ y.pkt = x.pkt
  <1>1. c # Hub
    BY PeerAssumption
  <1>. QED
    BY <1>1 DEF Carried, Receivers, Subscribers, HandleOf

\* Where the Hub's go.
LEMMA FromHub ==
    ASSUME NEW lk, \A c \in Centrals : lk[c].handle = 0, NEW m \in Nodes, NEW x, NEW y,
           Carried(lk, Hub, m, x, y), ~x.peer.we_are_central
    PROVE  m \in Centrals /\ y.handle = 0 /\ y.pkt = x.pkt
  <1>1. Hub \notin Centrals
    BY PeerAssumption
  <1>. QED
    BY <1>1 DEF Carried, Receivers, Subscribers, HandleOf

\* A packet that is no handshake message is of no interest where it arrives.
LEMMA SendPlain ==
    ASSUME NEW lk \in LinkType, \A c \in Centrals : lk[c].handle = 0,
           NEW n \in Nodes, NEW seq, Sends(n, seq), NEW X, Shakes(seq, X), NEW b, Boxes(b),
           NEW m \in Nodes, NEW y \in Air(SendToPeers(lk, n, seq, b))[m]
    PROVE  y \in Air(b)[m] \/ Plain(m, y) \/ \E x \in X : Sendable(n, x) /\ Carried(lk, n, m, x, y)
  <1>1. y \in Entries(SendToPeers(lk, n, seq, b)[m]) /\ Air(b)[m] = Entries(b[m])
    BY DEF Air
  <1>2. CASE y \in Entries(b[m])
    BY <1>1, <1>2
  <1>3. ASSUME NEW i \in DOMAIN seq, Carried(lk, n, m, seq[i], y)
        PROVE  Plain(m, y) \/ \E x \in X : Sendable(n, x) /\ Carried(lk, n, m, x, y)
    <2>. DEFINE x == seq[i]
    <2>1. Sendable(n, x) /\ (x.pkt.type = "HANDSHAKE" => x \in X)
      BY DEF Sends, Shakes
    <2>2. y = [handle |-> HandleOf(lk, n, m), pkt |-> x.pkt]
      BY <1>3 DEF Carried
    <2>. HIDE DEF x
    <2>3. CASE x.pkt.type = "HANDSHAKE"
      BY <1>3, <2>1, <2>3 DEF x
    <2>4. CASE x.pkt.type # "HANDSHAKE"
      <3>1. m \in Centrals => m # Hub
        BY PeerAssumption
      <3>2. y.pkt.type # "HANDSHAKE" /\ (m \in Centrals => y.handle = 0)
        BY <2>2, <2>4, <3>1 DEF HandleOf
      <3>. QED
        BY <3>2 DEF Plain, Shake
    <2>. QED
      BY <2>3, <2>4
  <1>. QED
    BY <1>1, <1>2, <1>3, SendHas

-----------------------------------------------------------------------------
(* Which handshake packets are sent                                         *)

LEMMA WhenShakes ==
    ASSUME NEW cond \in BOOLEAN, NEW x, NEW X, cond /\ x.pkt.type = "HANDSHAKE" => x \in X
    PROVE  Shakes(When(cond, x), X)
  <1>1. CASE cond
    <2>1. When(cond, x) = <<x>>
      BY <1>1 DEF When
    <2>2. \A i \in DOMAIN <<x>> : <<x>>[i] = x
      OBVIOUS
    <2>. QED
      BY <1>1, <2>1, <2>2 DEF Shakes
  <1>2. CASE ~cond
    <2>1. When(cond, x) = <<>>
      BY <1>2 DEF When
    <2>. QED
      BY <2>1 DEF Shakes
  <1>. QED
    BY <1>1, <1>2

LEMMA ConcatShakes ==
    ASSUME NEW a, NEW b, IsSeq(a), IsSeq(b), NEW X, Shakes(a, X), Shakes(b, X)
    PROVE  Shakes(a \o b, X)
  <1>. DEFINE c == a \o b
  <1>1. \A i \in DOMAIN c :
              \/ i \in DOMAIN a /\ c[i] = a[i]
              \/ i - Len(a) \in DOMAIN b /\ c[i] = b[i - Len(a)]
    BY ConcatSeq
  <1>. HIDE DEF c
  <1>2. Shakes(c, X)
    BY <1>1 DEF Shakes
  <1>. QED
    BY <1>2 DEF c

LEMMA ToEachShakes ==
    ASSUME NEW table, NEW slots, slots \subseteq Slots, NEW pkts, NEW X,
           \A s \in slots : pkts[s].type # "HANDSHAKE"
    PROVE  Shakes(ToEach(table, slots, pkts), X)
  <1>. DEFINE f == Ascending(slots)
              k == Cardinality(slots)
              seq == ToEach(table, slots, pkts)
  <1>1. k \in Nat /\ f \in [1 .. k -> slots]
    BY PeerAssumption, AscendingLists DEF Slots
  <1>. HIDE DEF k, f
  <1>2. seq = [i \in 1 .. k |-> To(table[f[i]], pkts[f[i]])]
    BY <1>1 DEF ToEach, f
  <1>. HIDE DEF seq
  <1>3. DOMAIN seq = 1 .. k /\ \A i \in 1 .. k : seq[i].pkt = pkts[f[i]] /\ f[i] \in slots
    BY <1>1, <1>2 DEF To
  <1>4. Shakes(seq, X)
    BY <1>3 DEF Shakes
  <1>. QED
    BY <1>4 DEF seq

LEMMA ToAllShakes ==
    ASSUME NEW table, NEW slots, slots \subseteq Slots, NEW pkt, NEW X, pkt.type # "HANDSHAKE"
    PROVE  Shakes(ToAll(table, slots, pkt), X)
  <1>. DEFINE pkts == [s \in Slots |-> pkt]
  <1>1. \A s \in slots : pkts[s].type # "HANDSHAKE"
    OBVIOUS
  <1>. HIDE DEF pkts
  <1>2. Shakes(ToEach(table, slots, pkts), X)
    BY <1>1, ToEachShakes
  <1>. QED
    BY <1>2 DEF ToAll, pkts

\* Only announces and messages are relayed.
LEMMA RelaysShake ==
    ASSUME IInv, NEW n \in Nodes, inbox[n] # <<>>, Pkt(n).type # "HANDSHAKE", NEW table, NEW X
    PROVE  Shakes(Relays(n, table), X)
  <1>. DEFINE relayed == [Pkt(n) EXCEPT !.relayed = TRUE]
              slots == {s \in Active(table) : table[s].handle # Head(inbox[n]).handle}
  <1>1. IsPacket(Pkt(n))
    BY HeadIs DEF Entry, Pkt
  <1>2. relayed.type = Pkt(n).type
    BY <1>1 DEF IsPacket, PacketFields
  <1>3. slots \subseteq Slots
    BY DEF Active
  <1>4. Relays(n, table) = IF Pkt(n).relayed THEN <<>> ELSE ToAll(table, slots, relayed)
    BY DEF Relays
  <1>. HIDE DEF relayed, slots
  <1>5. Shakes(ToAll(table, slots, relayed), X)
    BY <1>2, <1>3, ToAllShakes
  <1>6. Shakes(<<>>, X)
    BY DEF Shakes
  <1>. QED
    BY <1>4, <1>5, <1>6

LEMMA TypesOfPackets ==
    ASSUME NEW n, NEW dest, NEW m
    PROVE  /\ Announce(n).type = "ANNOUNCE" /\ Encrypted(n, m).type = "ENCRYPTED"
           /\ Handshake(n, dest, m).type = "HANDSHAKE" /\ Handshake(n, dest, m).body = m
           /\ Packet("MESSAGE", n).type = "MESSAGE" /\ Packet("REQUEST_SYNC", n).type = "REQUEST_SYNC"
  BY DEF Announce, Encrypted, Handshake, Packet

-----------------------------------------------------------------------------
(* The ring                                                                 *)

LEMMA HeadOnAir ==
    ASSUME IInv, NEW n \in Nodes, inbox[n] # <<>>
    PROVE  /\ Head(inbox[n]) \in Air(inbox)[n]
           /\ \A m \in Nodes : Air(Rest(n))[m] \subseteq Air(inbox)[m]
  <1>. DEFINE box == inbox[n]
              tail == Tail(box)
  <1>1. IsBox(box) /\ DOMAIN inbox = Nodes
    BY DEF IInv, Boxes
  <1>2. PICK S : box \in Seq(S)
    BY <1>1 DEF IsBox, IsSeq
  <1>3. Head(box) = box[1] /\ 1 \in DOMAIN box /\ Len(box) \in Nat /\ DOMAIN box = 1 .. Len(box)
    BY <1>2
  <1>4. /\ DOMAIN tail = 1 .. Len(box) - 1
        /\ \A i \in 1 .. Len(box) - 1 : tail[i] = box[i + 1]
    BY <1>2
  <1>5. \A i \in 1 .. Len(box) - 1 : i + 1 \in DOMAIN box
    BY <1>3
  <1>6. Rest(n) = [inbox EXCEPT ![n] = tail]
    BY DEF Rest
  <1>. HIDE DEF tail
  <1>7. Entries(tail) \subseteq Entries(box)
    BY <1>4, <1>5 DEF Entries
  <1>8. \A m \in Nodes : Rest(n)[m] = IF m = n THEN tail ELSE inbox[m]
    BY <1>1, <1>6
  <1>9. \A m \in Nodes : Entries(Rest(n)[m]) \subseteq Entries(inbox[m])
    BY <1>7, <1>8
  <1>10. Head(box) \in Entries(box)
    BY <1>3 DEF Entries
  <1>. QED
    BY <1>9, <1>10 DEF Air

-----------------------------------------------------------------------------
(* Slots for new handles                                                    *)

\* Fields that no frame has.
LEMMA IdSame ==
    ASSUME NEW node, NEW table, IsTable(node, table), NEW s \in Slots, NEW id, NEW t \in Slots
    PROVE  Same([table EXCEPT ![s].id = id][t], table[t])
  <1>1. DOMAIN table = Slots /\ IsPeer(node, table[s])
    BY DEF IsTable
  <1>. DEFINE p == [table[s] EXCEPT !.id = id]
  <1>2. /\ p.hs = table[s].hs /\ p.active = table[s].active
        /\ p.handle = table[s].handle /\ p.addr = table[s].addr
        /\ p.we_are_central = table[s].we_are_central /\ p.client = table[s].client
    BY <1>1 DEF IsPeer, PeerFields
  <1>3. [table EXCEPT ![s].id = id][t] = IF t = s THEN p ELSE table[t]
    BY <1>1
  <1>. HIDE DEF p
  <1>. QED
    BY <1>2, <1>3 DEF Same, Framed

LEMMA AnnouncedSame ==
    ASSUME NEW node, NEW table, IsTable(node, table), NEW s \in Slots, NEW t \in Slots
    PROVE  Same([table EXCEPT ![s].announce_sent = TRUE][t], table[t])
  <1>1. DOMAIN table = Slots /\ IsPeer(node, table[s])
    BY DEF IsTable
  <1>. DEFINE p == [table[s] EXCEPT !.announce_sent = TRUE]
  <1>2. /\ p.hs = table[s].hs /\ p.active = table[s].active
        /\ p.handle = table[s].handle /\ p.addr = table[s].addr
        /\ p.we_are_central = table[s].we_are_central /\ p.client = table[s].client
    BY <1>1 DEF IsPeer, PeerFields
  <1>3. [table EXCEPT ![s].announce_sent = TRUE][t] = IF t = s THEN p ELSE table[t]
    BY <1>1
  <1>. HIDE DEF p
  <1>. QED
    BY <1>2, <1>3 DEF Same, Framed

\* A slot for a handle that has none: nobody is served by another than before.
LEMMA GrownStep ==
    ASSUME NEW P, NEW S, NEW L, NEW K, Paired(P, S, L, K), NEW Q, NEW n \in Nodes,
           NEW h, NEW addr, Grown(Q[n], P[n], h, addr, FALSE),
           \A m \in Nodes \ {n} : Q[m] = P[m],
           Vacant(P[n], h),
           n \in Centrals => h = 0
    PROVE  Paired(Q, S, L, K)
  <1>. SUFFICES ASSUME NEW M, M = L, NEW T, T = S PROVE Paired(Q, T, M, K)
    OBVIOUS
  <1>1. Hub \in Nodes /\ Centrals \subseteq Nodes
    BY HubIsNode
  <1>2. \A c \in Centrals : M[c].handle = 0
    BY DEF Paired
  <1>3. \A c \in Centrals : L[c].stage # "down" => M[c].hub_handle = L[c].hub_handle
    OBVIOUS
  <1>4. ASSUME NEW m \in Nodes, NEW s \in Slots
        PROVE  \/ Same(Q[m][s], P[m][s])
               \/ /\ m = n /\ Q[m][s].handle = h /\ ~Q[m][s].we_are_central /\ ~Q[m][s].client
                  /\ Q[m][s].hs.phase = "IDLE"
    <2>1. CASE m # n
      BY <2>1 DEF Same, Framed
    <2>2. CASE m = n
      BY <2>2 DEF Grown
    <2>. QED
      BY <2>1, <2>2
  <1>5. ASSUME NEW m \in Nodes, NEW s \in Slots, NEW g, FirstAt(P[m], s, g) PROVE FirstAt(Q[m], s, g)
    <2>1. CASE m # n
      BY <1>5, <2>1
    <2>2. CASE m = n
      BY <1>5, <2>2, GrownFirst
    <2>. QED
      BY <2>1, <2>2
  <1>6. \A m \in Nodes : \A s \in Slots : Calm(Q[m][s].hs, P[m][s].hs)
    BY <1>4 DEF Same, Calm
  <1>7. ASSUME NEW c \in Centrals, NEW s \in Slots PROVE CentralFrame(Q, M, c, s)
    <2>1. CentralFrame(P, L, c, s)
      BY DEF Paired
    <2>2. c \in Nodes
      BY <1>1
    <2>3. FirstAt(P[c], s, 0) => FirstAt(Q[c], s, 0)
      BY <1>5, <2>2
    <2>. QED
      BY <1>4, <2>1, <2>2, <2>3 DEF CentralFrame, Same, Framed
  <1>8. \A c \in Centrals : \A s \in Slots : Stays(Q[c][s], P[c][s])
    BY <1>1, <1>4 DEF Stays, Same, Framed
  <1>9. \A x \in Slots : \A c \in Centrals :
               Q[Hub][x].hs.phase \notin {"IDLE", "FAILED"} /\ Serves(P, L, x, c) => Serves(Q, M, x, c)
    BY <1>1, <1>5 DEF Serves
  <1>10. \A m \in Nodes : \A y \in T[m] : y \in S[m] \/ Plain(m, y)
    OBVIOUS
  <1>. QED
    BY <1>2, <1>3, <1>6, <1>7, <1>8, <1>9, <1>10, CalmStep

LEMMA AdmittedGrows ==
    ASSUME IInv, NEW n \in Nodes, inbox[n] # <<>>, NEW h, h = Head(inbox[n]).handle
    PROVE  \/ \A t \in Slots : Same(Admitted(n)[t], peers[n][t])
           \/ /\ Grown(Admitted(n), peers[n], h, Nobody, FALSE)
              /\ Vacant(peers[n], h)
  <1>. DEFINE id == Pkt(n).sender
              old == peers[n]
              t0 == AllocPeer(old, h, Nobody, FALSE)
              t1 == IF FindPeer(old, h) # NoSlot THEN old ELSE t0
              s == FindPeer(t1, h)
              new == Admitted(n)
  <1>1. h \in Handles /\ IsTable(n, old)
    BY HeadIs DEF Entry, IInv, Tables
  <1>2. IsTable(n, t0) /\ Grown(t0, old, h, Nobody, FALSE)
    BY <1>1, AllocIs, AllocGrows
  <1>3. FindPeer(old, h) = NoSlot => Vacant(old, h)
    BY FindFirst, SlotsAreNat
  <1>4. new = IF s # NoSlot /\ t1[s].id = Nobody THEN [t1 EXCEPT ![s].id = id] ELSE t1
    BY DEF Admitted
  <1>. HIDE DEF t0
  <1>5. \/ t1 = old
        \/ t1 = t0 /\ Vacant(old, h)
    BY <1>3
  <1>6. s = NoSlot \/ s \in Slots
    BY FindIs
  <1>. HIDE DEF t1, s, id, new, old
  <1>7. IsTable(n, t1)
    BY <1>1, <1>2, <1>5
  <1>8. \A t \in Slots : Same(new[t], t1[t])
    <2>1. s \in Slots => \A t \in Slots : Same([t1 EXCEPT ![s].id = id][t], t1[t])
      BY <1>7, IdSame
    <2>2. \A t \in Slots : Same(t1[t], t1[t])
      BY DEF Same, Framed
    <2>. QED
      BY <1>4, <1>6, <2>1, <2>2
  <1>9. CASE t1 = old
    BY <1>8, <1>9 DEF new, old
  <1>10. CASE t1 = t0 /\ Vacant(old, h)
    <2>1. Grown(new, old, h, Nobody, FALSE)
      BY <1>2, <1>8, <1>10, GrownThen
    <2>. QED
      BY <1>10, <2>1 DEF new, old
  <1>. QED
    BY <1>5, <1>9, <1>10

\* A packet is let in: its slot exists or is made.
LEMMA AdmittedPaired ==
    ASSUME IInv, Paired(peers, Air(inbox), link, nextKey), NEW n \in Nodes, inbox[n] # <<>>
    PROVE  Paired([peers EXCEPT ![n] = Admitted(n)], Air(inbox), link, nextKey)
  <1>. DEFINE Q == [peers EXCEPT ![n] = Admitted(n)]
              h == Head(inbox[n]).handle
              S == Air(inbox)
  <1>1. Q[n] = Admitted(n) /\ \A m \in Nodes \ {n} : Q[m] = peers[m]
    BY DEF IInv, Tables
  <1>2. n \in Centrals => h = 0
    <2>1. Head(inbox[n]) \in Air(inbox)[n]
      BY HeadOnAir
    <2>2. Arrived(nextKey, n, Head(inbox[n]))
      BY <2>1 DEF Paired
    <2>. QED
      BY <2>2 DEF Arrived
  <1>3. \/ \A t \in Slots : Same(Admitted(n)[t], peers[n][t])
        \/ /\ Grown(Admitted(n), peers[n], h, Nobody, FALSE)
           /\ Vacant(peers[n], h)
    BY AdmittedGrows
  <1>. HIDE DEF Q, h, S
  <1>4. CASE \A t \in Slots : Same(Admitted(n)[t], peers[n][t])
    <2>1. \A m \in Nodes : \A t \in Slots : Same(Q[m][t], peers[m][t])
      BY <1>1, <1>4 DEF Same, Framed
    <2>2. \A m \in Nodes : \A t \in Slots : Framed(Q[m][t], peers[m][t])
      BY <2>1 DEF Same
    <2>3. \A m \in Nodes : \A t \in Slots : Calm(Q[m][t].hs, peers[m][t].hs)
      BY <2>1 DEF Same, Calm
    <2>4. Paired(peers, S, link, nextKey) /\ \A m \in Nodes : \A y \in S[m] : y \in S[m] \/ Plain(m, y)
      BY DEF S
    <2>5. Paired(Q, S, link, nextKey)
      BY <2>2, <2>3, <2>4, FramedStep
    <2>. QED
      BY <2>5 DEF Q, S
  <1>5. CASE /\ Grown(Admitted(n), peers[n], h, Nobody, FALSE)
             /\ Vacant(peers[n], h)
    <2>1. Grown(Q[n], peers[n], h, Nobody, FALSE) /\ \A m \in Nodes \ {n} : Q[m] = peers[m]
      BY <1>1, <1>5
    <2>2. Paired(peers, S, link, nextKey)
      BY DEF S
    <2>3. Vacant(peers[n], h)
      BY <1>5
    <2>4. Grown(Q[n], peers[n], h, Nobody, FALSE)
      BY <2>1
    <2>5. \A m \in Nodes \ {n} : Q[m] = peers[m]
      BY <2>1
    <2>6. Paired(Q, S, link, nextKey)
      BY <1>2, <2>2, <2>3, <2>4, <2>5, GrownStep
    <2>. QED
      BY <2>6 DEF Q, S
  <1>. QED
    BY <1>3, <1>4, <1>5

-----------------------------------------------------------------------------
(* Handlers that take no handshake further                                  *)

\* The packet at the head of n's ring is let in with this table.
Ready(n, table) == Paired([peers EXCEPT ![n] = table], Air(inbox), link, nextKey)

\* All is well after the step, but for the keys.
PairedNext(K) == Paired(peers', Air(inbox'), link', K)

\* Every slot keeps its place, and its handshake or gives it up.
Calmed(new, old) == \A t \in Slots : Framed(new[t], old[t]) /\ Calm(new[t].hs, old[t].hs)

LEMMA TableAt ==
    ASSUME IInv, NEW n \in Nodes, NEW table, NEW m \in Nodes
    PROVE  [peers EXCEPT ![n] = table][m] = IF m = n THEN table ELSE peers[m]
  BY DEF IInv, Tables

LEMMA HandlesZero ==
    ASSUME NEW P, NEW S, NEW L, NEW K, Paired(P, S, L, K)
    PROVE  \A c \in Centrals : L[c].handle = 0
  BY DEF Paired

\* What is on its way after a handler has sent.
LEMMA HandlerSends ==
    ASSUME IInv, NEW n \in Nodes, inbox[n] # <<>>, \A c \in Centrals : link[c].handle = 0,
           NEW seq, Sends(n, seq), NEW X, Shakes(seq, X),
           NEW m \in Nodes, NEW y \in Air(SendToPeers(link, n, seq, Rest(n)))[m]
    PROVE  \/ y \in Air(inbox)[m]
           \/ Plain(m, y)
           \/ \E x \in X : Sendable(n, x) /\ Carried(link, n, m, x, y)
  <1>. DEFINE b == Rest(n)
  <1>1. Boxes(b) /\ link \in LinkType
    BY HeadIs DEF IInv
  <1>2. Air(b)[m] \subseteq Air(inbox)[m]
    BY HeadOnAir
  <1>3. y \in Air(SendToPeers(link, n, seq, b))[m]
    OBVIOUS
  <1>. HIDE DEF b
  <1>4. y \in Air(b)[m] \/ Plain(m, y) \/ \E x \in X : Sendable(n, x) /\ Carried(link, n, m, x, y)
    BY <1>1, <1>3, SendPlain
  <1>. QED
    BY <1>2, <1>4

\* The table changes and nothing of a handshake is on its way that was not.
LEMMA TableCalmed ==
    ASSUME IInv, NEW n \in Nodes, NEW table, Ready(n, table), NEW new, Calmed(new, table),
           peers' = [peers EXCEPT ![n] = new], link' = link,
           \A m \in Nodes : \A y \in Air(inbox')[m] : y \in Air(inbox)[m] \/ Plain(m, y)
    PROVE  PairedNext(nextKey)
  <1>. DEFINE P == [peers EXCEPT ![n] = table]
              S == Air(inbox)
              T == Air(inbox')
  <1>1. \A m \in Nodes : P[m] = IF m = n THEN table ELSE peers[m]
    BY TableAt
  <1>2. \A m \in Nodes : peers'[m] = IF m = n THEN new ELSE peers[m]
    BY TableAt
  <1>3. Paired(P, S, link, nextKey)
    BY DEF Ready
  <1>. HIDE DEF P
  <1>4. \A m \in Nodes : \A t \in Slots : Framed(peers'[m][t], P[m][t])
    BY <1>1, <1>2 DEF Calmed, Framed
  <1>5. \A m \in Nodes : \A t \in Slots : Calm(peers'[m][t].hs, P[m][t].hs)
    BY <1>1, <1>2 DEF Calmed, Calm
  <1>6. \A m \in Nodes : \A y \in T[m] : y \in S[m] \/ Plain(m, y)
    OBVIOUS
  <1>. HIDE DEF S, T
  <1>. SUFFICES ASSUME NEW Q, Q = peers' PROVE Paired(Q, T, link, nextKey)
    BY DEF PairedNext, T
  <1>7. \A m \in Nodes : \A t \in Slots : Framed(Q[m][t], P[m][t])
    BY <1>4
  <1>8. \A m \in Nodes : \A t \in Slots : Calm(Q[m][t].hs, P[m][t].hs)
    BY <1>5
  <1>. QED
    BY <1>3, <1>6, <1>7, <1>8, FramedStep

LEMMA HandlerCalm ==
    ASSUME IInv, NEW n \in Nodes, inbox[n] # <<>>, NEW table, Ready(n, table),
           NEW new, Calmed(new, table), NEW seq, Sends(n, seq), Shakes(seq, {}),
           peers' = [peers EXCEPT ![n] = new],
           inbox' = SendToPeers(link, n, seq, Rest(n)), link' = link
    PROVE  PairedNext(nextKey)
  <1>1. \A c \in Centrals : link[c].handle = 0
    BY HandlesZero DEF Ready
  <1>2. ASSUME NEW m \in Nodes, NEW y \in Air(inbox')[m] PROVE y \in Air(inbox)[m] \/ Plain(m, y)
    <2>1. y \in Air(SendToPeers(link, n, seq, Rest(n)))[m]
      OBVIOUS
    <2>2. \/ y \in Air(inbox)[m]
          \/ Plain(m, y)
          \/ \E x \in {} : Sendable(n, x) /\ Carried(link, n, m, x, y)
      BY <1>1, <2>1, HandlerSends
    <2>. QED
      BY <2>2
  <1>. QED
    BY <1>2, TableCalmed

\* A key is generated and not used.
LEMMA KeySpent ==
    ASSUME NEW P, NEW S, NEW L, NEW K \in [Nodes -> Nat], Paired(P, S, L, K), NEW n \in Nodes
    PROVE  Paired(P, S, L, [K EXCEPT ![n] = @ + 1])
  <1>. DEFINE J == [K EXCEPT ![n] = @ + 1]
  <1>1. \A key : Old(key, K) => Old(key, J)
    BY NextIsNew
  <1>. HIDE DEF J
  <1>2. \A x \in Slots : HubHs(P, L, J, x)
    BY <1>1 DEF Paired, HubHs
  <1>3. \A m \in Nodes : \A y \in S[m] : Arrived(J, m, y)
    BY <1>1 DEF Paired, Arrived, Made
  <1>4. Paired(P, S, L, J)
    BY <1>2, <1>3 DEF Paired
  <1>. QED
    BY <1>4 DEF J

LEMMA SameCalmed == ASSUME NEW new, NEW old, \A t \in Slots : Same(new[t], old[t]) PROVE Calmed(new, old)
  BY DEF Same, Calmed, Calm

LEMMA DiscardPaired ==
    ASSUME IInv, NEW n \in Nodes, inbox[n] # <<>>, NEW table, NEW s, Ready(n, table),
           Discard(n, table, s)
    PROVE  PairedNext(nextKey')
  <1>1. /\ peers' = [peers EXCEPT ![n] = table] /\ inbox' = Rest(n)
        /\ link' = link /\ nextKey' = nextKey
    BY DEF Discard
  <1>2. Calmed(table, table)
    BY SameCalmed DEF Same, Framed
  <1>3. \A m \in Nodes : \A y \in Air(inbox')[m] : y \in Air(inbox)[m] \/ Plain(m, y)
    BY <1>1, HeadOnAir
  <1>4. PairedNext(nextKey)
    BY <1>1, <1>2, <1>3, TableCalmed
  <1>. QED
    BY <1>1, <1>4

LEMMA MessagePaired ==
    ASSUME IInv, NEW n \in Nodes, inbox[n] # <<>>, NEW table, NEW s, IsTable(n, table), Ready(n, table),
           HandleMessage(n, table, s)
    PROVE  PairedNext(nextKey')
  <1>. DEFINE seq == Relays(n, table)
  <1>1. /\ peers' = [peers EXCEPT ![n] = table] /\ inbox' = SendToPeers(link, n, seq, Rest(n))
        /\ link' = link /\ nextKey' = nextKey /\ Pkt(n).type # "HANDSHAKE"
    BY DEF HandleMessage, Accepts
  <1>2. Calmed(table, table)
    BY SameCalmed DEF Same, Framed
  <1>3. Sends(n, seq) /\ Shakes(seq, {})
    BY <1>1, RelaysSend, RelaysShake
  <1>. HIDE DEF seq
  <1>4. PairedNext(nextKey)
    BY <1>1, <1>2, <1>3, HandlerCalm
  <1>. QED
    BY <1>1, <1>4

LEMMA SyncPaired ==
    ASSUME IInv, NEW n \in Nodes, inbox[n] # <<>>, NEW table, NEW s, s = NoSlot \/ s \in Slots,
           IsTable(n, table), Ready(n, table), HandleRequestSync(n, table, s)
    PROVE  PairedNext(nextKey')
  <1>. DEFINE new == [table EXCEPT ![s].announce_sent = TRUE]
              x == To(table[s], Announce(n))
              seq == When(TRUE, x)
  <1>1. /\ peers' = [peers EXCEPT ![n] = new] /\ inbox' = SendToPeers(link, n, seq, Rest(n))
        /\ link' = link /\ nextKey' = nextKey /\ s \in Slots
    BY DEF HandleRequestSync, Accepts, When
  <1>2. Calmed(new, table)
    BY <1>1, AnnouncedSame, SameCalmed
  <1>3. x.pkt.type # "HANDSHAKE" /\ Sendable(n, x)
    <2>1. IsPacket(Announce(n)) /\ IsPeer(n, table[s])
      BY <1>1, PacketIs DEF Announce, IsTable
    <2>2. x.pkt = Announce(n)
      BY DEF To
    <2>. QED
      BY <2>1, <2>2, ToSlot, TypesOfPackets
  <1>. HIDE DEF x, new
  <1>4. Sends(n, seq) /\ Shakes(seq, {})
    BY <1>3, WhenSends, WhenShakes
  <1>. HIDE DEF seq
  <1>5. PairedNext(nextKey)
    BY <1>1, <1>2, <1>4, HandlerCalm
  <1>. QED
    BY <1>1, <1>5

\* A slot with another handshake.
LEMMA HsFramed ==
    ASSUME NEW node, NEW p, IsPeer(node, p), NEW hs
    PROVE  Framed([p EXCEPT !.hs = hs], p) /\ [p EXCEPT !.hs = hs].hs = hs
  BY DEF IsPeer, PeerFields, Framed

\* One slot of a table is replaced.
LEMMA OneSlot ==
    ASSUME NEW node, NEW table, IsTable(node, table), NEW s \in Slots, NEW q, NEW t \in Slots
    PROVE  [table EXCEPT ![s] = q][t] = IF t = s THEN q ELSE table[t]
  BY DEF IsTable

LEMMA OneCalmed ==
    ASSUME NEW node, NEW table, IsTable(node, table), NEW s \in Slots, NEW q,
           Framed(q, table[s]), Calm(q.hs, table[s].hs)
    PROVE  Calmed([table EXCEPT ![s] = q], table)
  <1>. DEFINE new == [table EXCEPT ![s] = q]
  <1>1. \A t \in Slots : new[t] = IF t = s THEN q ELSE table[t]
    BY OneSlot
  <1>. HIDE DEF new
  <1>2. Calmed(new, table)
    BY <1>1 DEF Calmed, Framed, Calm
  <1>. QED
    BY <1>2 DEF new

\* A nonce advances.
LEMMA AdvancedCalm ==
    ASSUME NEW node, NEW p, IsPeer(node, p)
    PROVE  /\ Framed(Advanced(p), p) /\ Calm(Advanced(p).hs, p.hs)
           /\ Framed([p EXCEPT !.hs.recv_cs = NextNonce(@)], p)
           /\ Calm([p EXCEPT !.hs.recv_cs = NextNonce(@)].hs, p.hs)
  <1>. DEFINE sent == [p.hs EXCEPT !.send_cs = NextNonce(@)]
              read == [p.hs EXCEPT !.recv_cs = NextNonce(@)]
  <1>1. IsHs(p.hs)
    BY DEF IsPeer, Shape
  <1>2. Calm(sent, p.hs) /\ Calm(read, p.hs)
    BY <1>1 DEF IsHs, HsFields, Calm
  <1>3. Advanced(p) = [p EXCEPT !.hs = sent]
    BY DEF Advanced
  <1>4. [p EXCEPT !.hs.recv_cs = NextNonce(@)] = [p EXCEPT !.hs = read]
    OBVIOUS
  <1>. HIDE DEF sent, read
  <1>5. Framed([p EXCEPT !.hs = sent], p) /\ [p EXCEPT !.hs = sent].hs = sent
    BY HsFramed
  <1>6. Framed([p EXCEPT !.hs = read], p) /\ [p EXCEPT !.hs = read].hs = read
    BY HsFramed
  <1>. QED
    BY <1>2, <1>3, <1>4, <1>5, <1>6

-----------------------------------------------------------------------------
(* Packets of a session                                                     *)

\* The receipt for a private message.
LEMMA ReceiptSends ==
    ASSUME NEW n \in Nodes, NEW p, IsPeer(n, p), p.hs.phase = "TRANSPORT", NEW ct, Sealed(ct),
           NEW receipt, receipt = [ct.pt EXCEPT !.kind = "DELIVERED", !.from = n, !.to = p.hs.rs]
    PROVE  Sendable(n, To(p, Encrypted(n, CipherText(p.hs.send_cs, receipt))))
  <1>1. DOMAIN ct.pt = PlainFields /\ Shape(n, p.hs)
    BY DEF Sealed, IsPeer
  <1>2. DOMAIN receipt = PlainFields /\ receipt.from = n /\ receipt.to = p.hs.rs
    BY <1>1 DEF PlainFields
  <1>3. Sealed(CipherText(p.hs.send_cs, receipt))
    BY <1>1, <1>2, SessionSeals
  <1>4. IsPacket(Encrypted(n, CipherText(p.hs.send_cs, receipt)))
    BY <1>3, EncryptedIs
  <1>. QED
    BY <1>4, ToSlot

LEMMA EncryptedPaired ==
    ASSUME IInv, NEW n \in Nodes, inbox[n] # <<>>, NEW table, NEW s, s = NoSlot \/ s \in Slots,
           IsTable(n, table), Ready(n, table), HandleEncrypted(n, table, s)
    PROVE  PairedNext(nextKey')
  <1>. DEFINE p == table[s]
              ct == Pkt(n).body
              session == p.hs.phase = "TRANSPORT"
              opens == session /\ Decrypts(p.hs.recv_cs, ct)
              private == opens /\ ct.pt.kind = "PRIVATE_MSG"
              read == [p EXCEPT !.hs.recv_cs = NextNonce(@)]
              receipt == [ct.pt EXCEPT !.kind = "DELIVERED", !.from = n, !.to = p.hs.rs]
              q == CASE private -> Advanced(read)
                     [] session /\ ~private -> read
                     [] OTHER -> p
              x == To(p, Encrypted(n, CipherText(p.hs.send_cs, receipt)))
              seq == When(private, x)
              new == [table EXCEPT ![s] = q]
  <1>1. /\ Pkt(n).type = "ENCRYPTED" /\ s \in Slots
        /\ peers' = [peers EXCEPT ![n] = new]
        /\ inbox' = SendToPeers(link, n, seq, Rest(n))
        /\ link' = link /\ nextKey' = nextKey
    BY DEF HandleEncrypted, Accepts
  <1>2. IsPeer(n, p)
    BY <1>1 DEF IsTable
  <1>3. Sealed(ct)
    BY <1>1, HeadIs DEF Entry, IsPacket, Pkt
  <1>4. private => Sendable(n, x)
    BY <1>2, <1>3, ReceiptSends
  <1>5. x.pkt.type # "HANDSHAKE"
    <2>1. x.pkt = Encrypted(n, CipherText(p.hs.send_cs, receipt))
      BY DEF To
    <2>. QED
      BY <2>1, TypesOfPackets
  <1>6. private \in BOOLEAN
    OBVIOUS
  <1>7. Framed(q, p) /\ Calm(q.hs, p.hs)
    <2>. HIDE DEF p
    <2>1. IsPeer(n, read) /\ Framed(read, p) /\ Calm(read.hs, p.hs)
      BY <1>2, AdvancedIs, AdvancedCalm
    <2>. HIDE DEF read
    <2>2. Framed(Advanced(read), read) /\ Calm(Advanced(read).hs, read.hs)
      BY <2>1, AdvancedCalm
    <2>3. Framed(Advanced(read), p) /\ Calm(Advanced(read).hs, p.hs)
      BY <2>1, <2>2 DEF Framed, Calm
    <2>4. Framed(p, p) /\ Calm(p.hs, p.hs)
      BY DEF Framed, Calm
    <2>5. q \in {Advanced(read), read, p}
      <3>. HIDE DEF private, session
      <3>. QED
        OBVIOUS
    <2>. HIDE DEF q
    <2>. QED
      BY <2>1, <2>3, <2>4, <2>5
  <1>. HIDE DEF q, x, private
  <1>8. Calmed(new, table)
    BY <1>1, <1>7, OneCalmed DEF p
  <1>9. Sends(n, seq) /\ Shakes(seq, {})
    BY <1>4, <1>5, <1>6, WhenSends, WhenShakes
  <1>. HIDE DEF new, seq
  <1>10. PairedNext(nextKey)
    BY <1>1, <1>8, <1>9, HandlerCalm
  <1>. QED
    BY <1>1, <1>10

-----------------------------------------------------------------------------
(* What a handshake step writes                                             *)

\* The answer to a first message.
LEMMA AnswerIs ==
    ASSUME NEW n, NEW f, NEW m, m.kind \in {"msg1", "msg2", "msg3"}
    PROVE  LET r == noise_hs_read_msg1_write_msg2(noise_hs_init("RESPONDER", f), m, n)
           IN  /\ r.hs.phase = "AWAIT_MSG3" /\ r.hs.ss[1] = LeadingKey(m) /\ r.hs.ss[2] = f
               /\ r.out.kind = "msg2" /\ LeadingKey(r.out) = f /\ r.out.ct.ad[1] = LeadingKey(m)
               /\ r.out.ct.ad[2] = f /\ r.out.ct.pt = Static(n)
  <1>. DEFINE i == noise_hs_init("RESPONDER", f)
              re == LeadingKey(m)
              s1 == Mix(<<>>, re)
              s2 == Mix(s1, f)
              s3 == Mix(s2, noise_dh(f, re))
              s4 == Mix(s3, Static(n))
              s5 == Mix(s4, noise_dh(Static(n), re))
              hs == [i EXCEPT !.ss = s5, !.phase = "AWAIT_MSG3"]
              out == Msg("msg2", f, Seal(s3, Static(n)))
              r == noise_hs_read_msg1_write_msg2(i, m, n)
  <1>1. IsHs(i) /\ i.e = f /\ i.ss = <<>>
    BY InitIs
  <1>2. MsgLen(m) \in {32, 80, 48}
    BY DEF MsgLen
  <1>3. ~ (MsgLen(m) < 32)
    BY <1>2
  <1>. HIDE DEF i
  <1>4. r = Step(hs, out)
    BY <1>1, <1>3 DEF noise_hs_read_msg1_write_msg2
  <1>. HIDE DEF re
  <1>5. Long(s1, 1) /\ s1[1] = re
    BY EmptyTranscript, MixAdds, 0 + 1 = 1
  <1>. HIDE DEF s1
  <1>6. Long(s2, 2) /\ s2[1] = re /\ s2[2] = f
    BY <1>5, MixAdds, 1 + 1 = 2
  <1>. HIDE DEF s2
  <1>7. Long(s3, 3) /\ s3[1] = re /\ s3[2] = f
    BY <1>6, MixAdds, 2 + 1 = 3
  <1>. HIDE DEF s3
  <1>8. Long(s4, 4) /\ s4[1] = re /\ s4[2] = f
    BY <1>7, MixAdds, 3 + 1 = 4
  <1>. HIDE DEF s4
  <1>9. s5[1] = re /\ s5[2] = f
    BY <1>8, MixAdds
  <1>. HIDE DEF s5
  <1>10. hs.phase = "AWAIT_MSG3" /\ hs.ss = s5
    BY <1>1 DEF IsHs, HsFields
  <1>11. out.kind = "msg2" /\ LeadingKey(out) = f /\ out.ct.ad = s3 /\ out.ct.pt = Static(n)
    BY DEF Msg, Seal, LeadingKey
  <1>. HIDE DEF hs, out
  <1>12. r.hs = hs /\ r.out = out
    BY <1>4 DEF Step
  <1>. QED
    BY <1>7, <1>9, <1>10, <1>11, <1>12 DEF re, i, r

\* The answer to a second one.
LEMMA FinishIs ==
    ASSUME NEW n, NEW hs, NEW m, Shape(n, hs), hs.phase = "AWAIT_MSG2"
    PROVE  LET r == noise_hs_read_msg2_write_msg3(hs, m, n)
           IN  \/ r.hs = Fail(hs) /\ r.out = NoMsg
               \/ /\ m.ct.ad[1] = hs.e /\ r.hs.phase = "TRANSPORT" /\ r.hs.rs = m.ct.pt
                  /\ r.out.kind = "msg3" /\ r.out.ct.ad[1] = hs.e
                  /\ r.out.ct.ad[2] = LeadingKey(m) /\ r.out.ct.pt = Static(n)
  <1>. DEFINE e == hs.e
              re == LeadingKey(m)
              rs == m.ct.pt
              s2 == Mix(hs.ss, re)
              s3 == Mix(s2, noise_dh(e, re))
              s4 == Mix(s3, rs)
              s5 == Mix(s4, noise_dh(e, rs))
              s6 == Mix(s5, Static(n))
              s7 == Mix(s6, noise_dh(Static(n), re))
              new == [hs EXCEPT !.rs = rs, !.ss = <<>>, !.send_cs = Half(1, s7),
                                !.recv_cs = Half(2, s7), !.phase = "TRANSPORT"]
              out == Msg("msg3", NoKey, Seal(s5, Static(n)))
              r == noise_hs_read_msg2_write_msg3(hs, m, n)
  <1>1. IsHs(hs) /\ Long(hs.ss, 1) /\ hs.ss[1] = e
    BY DEF Shape
  <1>2. r = IF MsgLen(m) < 80 \/ ~ (m.ct.ad = s3) THEN Step(Fail(hs), NoMsg) ELSE Step(new, out)
    BY DEF noise_hs_read_msg2_write_msg3, Opens
  <1>. HIDE DEF re, rs
  <1>3. Long(s2, 2) /\ s2[1] = e /\ s2[2] = re
    BY <1>1, MixAdds, 1 + 1 = 2
  <1>. HIDE DEF s2
  <1>4. Long(s3, 3) /\ s3[1] = e /\ s3[2] = re
    BY <1>3, MixAdds, 2 + 1 = 3
  <1>. HIDE DEF s3
  <1>5. Long(s4, 4) /\ s4[1] = e /\ s4[2] = re
    BY <1>4, MixAdds, 3 + 1 = 4
  <1>. HIDE DEF s4
  <1>6. s5[1] = e /\ s5[2] = re
    BY <1>5, MixAdds
  <1>. HIDE DEF s5, s6, s7
  <1>7. new.phase = "TRANSPORT" /\ new.rs = rs
    BY <1>1 DEF IsHs, HsFields
  <1>8. out.kind = "msg3" /\ out.ct.ad = s5 /\ out.ct.pt = Static(n)
    BY DEF Msg, Seal
  <1>. HIDE DEF new, out, r
  <1>9. CASE MsgLen(m) < 80 \/ ~ (m.ct.ad = s3)
    BY <1>2, <1>9 DEF Step, r
  <1>10. CASE ~ (MsgLen(m) < 80 \/ ~ (m.ct.ad = s3))
    <2>1. r.hs = new /\ r.out = out /\ m.ct.ad = s3
      BY <1>2, <1>10 DEF Step
    <2>. QED
      BY <1>4, <1>6, <1>7, <1>8, <2>1 DEF r, re, rs
  <1>. QED
    BY <1>9, <1>10

\* A third one is opened under the transcript of the handshake, if at all.
LEMMA OpenIs ==
    ASSUME NEW n, NEW hs, NEW m, Shape(n, hs), hs.phase = "AWAIT_MSG3"
    PROVE  LET r == noise_hs_read_msg3(hs, m)
           IN  /\ r.out = NoMsg
               /\ \/ r.hs = Fail(hs)
                  \/ /\ m.kind = "msg3" /\ m.ct.ad = hs.ss
                     /\ r.hs.phase = "TRANSPORT" /\ r.hs.rs = m.ct.pt
  <1>. DEFINE ct == LeadingCipherText(m)
              s7 == Mix(Mix(hs.ss, ct.pt), noise_dh(hs.e, ct.pt))
              new == [hs EXCEPT !.rs = ct.pt, !.ss = <<>>, !.phase = "TRANSPORT",
                                !.recv_cs = Half(1, s7), !.send_cs = Half(2, s7)]
              r == noise_hs_read_msg3(hs, m)
  <1>1. IsHs(hs) /\ Len(hs.ss) = 5
    BY DEF Shape, Long
  <1>2. r = IF MsgLen(m) < 48 \/ ~ (ct.ad = hs.ss) THEN Step(Fail(hs), NoMsg) ELSE Step(new, NoMsg)
    BY DEF noise_hs_read_msg3, Opens
  <1>. HIDE DEF s7
  <1>3. new.phase = "TRANSPORT" /\ new.rs = ct.pt
    BY <1>1 DEF IsHs, HsFields
  <1>4. m.kind # "msg3" => ct.ad # hs.ss
    <2>1. NoCipherText.ad = <<>> /\ <<>> # hs.ss
      BY <1>1 DEF NoCipherText, Seal
    <2>. QED
      BY <2>1 DEF LeadingCipherText
  <1>5. m.kind = "msg3" => ct = m.ct
    BY DEF LeadingCipherText
  <1>. HIDE DEF ct, new, r
  <1>6. CASE MsgLen(m) < 48 \/ ~ (ct.ad = hs.ss)
    BY <1>2, <1>6 DEF Step, r
  <1>7. CASE ~ (MsgLen(m) < 48 \/ ~ (ct.ad = hs.ss))
    <2>1. r.hs = new /\ r.out = NoMsg /\ ct.ad = hs.ss
      BY <1>2, <1>7 DEF Step
    <2>. QED
      BY <1>3, <1>4, <1>5, <2>1 DEF r
  <1>. QED
    BY <1>6, <1>7

-----------------------------------------------------------------------------
(* Handlers that take a handshake further                                   *)

\* The tables P and Q differ in slot s of n.
SlotChange(P, Q, n, table, s, q) ==
    /\ P = [peers EXCEPT ![n] = table]
    /\ Q = [peers EXCEPT ![n] = [table EXCEPT ![s] = q]]

\* One slot of one table gets another handshake.
LEMMA OneHs ==
    ASSUME IInv, NEW n \in Nodes, NEW table, IsTable(n, table), NEW s \in Slots,
           NEW q, Framed(q, table[s]), NEW P, NEW Q, SlotChange(P, Q, n, table, s, q)
    PROVE  OnlyHs(Q, P, n, s) /\ Q[n][s] = q /\ P[n] = table
  <1>. DEFINE new == [table EXCEPT ![s] = q]
  <1>1. \A t \in Slots : new[t] = IF t = s THEN q ELSE table[t]
    BY OneSlot
  <1>2. \A m \in Nodes : P[m] = IF m = n THEN table ELSE peers[m]
    BY TableAt DEF SlotChange
  <1>3. \A m \in Nodes : Q[m] = IF m = n THEN new ELSE peers[m]
    BY TableAt DEF SlotChange
  <1>. HIDE DEF new
  <1>4. ASSUME NEW m \in Nodes, NEW t \in Slots
        PROVE  IF m = n /\ t = s THEN Q[m][t] = q /\ P[m][t] = table[s] ELSE Q[m][t] = P[m][t]
    <2>1. CASE m # n
      BY <1>2, <1>3, <2>1
    <2>2. CASE m = n /\ t = s
      <3>1. Q[m] = new /\ P[m] = table
        BY <1>2, <1>3, <2>2
      <3>. QED
        BY <1>1, <2>2, <3>1
    <2>3. CASE m = n /\ t # s
      <3>1. Q[m] = new /\ P[m] = table
        BY <1>2, <1>3, <2>3
      <3>. QED
        BY <1>1, <2>3, <3>1
    <2>. QED
      BY <2>1, <2>2, <2>3
  <1>5. \A m \in Nodes : \A t \in Slots : Framed(Q[m][t], P[m][t])
    BY <1>4 DEF Framed
  <1>6. \A m \in Nodes : \A t \in Slots : (m = n /\ t = s) \/ Q[m][t].hs = P[m][t].hs
    BY <1>4
  <1>. QED
    BY <1>2, <1>4, <1>5, <1>6 DEF OnlyHs

LEMMA ReadyKeys ==
    ASSUME IInv, NEW n \in Nodes, NEW table, IsTable(n, table), Tame(table, peers[n])
    PROVE  Keys([peers EXCEPT ![n] = table], nextKey) /\ nextKey \in [Nodes -> Nat]
  BY TableChanged DEF IInv

LEMMA AnnouncedFramed ==
    ASSUME NEW node, NEW p, IsPeer(node, p), NEW key, NEW hs
    PROVE  Framed(AfterAnnounce(p, key, hs), p) /\ AfterAnnounce(p, key, hs).hs = hs
  BY DEF AfterAnnounce, IsPeer, PeerFields, Framed

LEMMA BegunIs ==
    ASSUME NEW e
    PROVE  noise_hs_write_msg1(noise_hs_init("INITIATOR", e)).out = Msg("msg1", e, NoCipherText)
  <1>. DEFINE i == noise_hs_init("INITIATOR", e)
  <1>1. i.e = e
    BY InitIs
  <1>. HIDE DEF i
  <1>2. noise_hs_write_msg1(i).out = Msg("msg1", i.e, NoCipherText)
    BY DEF noise_hs_write_msg1, Step
  <1>. QED
    BY <1>1, <1>2 DEF i

LEMMA AnnouncePaired ==
    ASSUME IInv, NEW n \in Nodes, inbox[n] # <<>>, NEW table, NEW s, s = NoSlot \/ s \in Slots,
           IsTable(n, table), Tame(table, peers[n]), Ready(n, table), NEW ok \in BOOLEAN,
           HandleAnnounce(n, table, s, ok)
    PROVE  PairedNext(nextKey')
  <1>. DEFINE p == table[s]
              tries == p.we_are_central /\ p.hs.phase = "IDLE"
              starts == tries /\ ok
              key == Ephemeral(n, nextKey[n])
              begun == noise_hs_write_msg1(noise_hs_init("INITIATOR", key))
              failed == noise_hs_init("INITIATOR", NoKey)
              hs == CASE starts -> begun.hs
                      [] tries /\ ~ok -> failed
                      [] OTHER -> p.hs
              from == Pkt(n).sender
              q == AfterAnnounce(p, from, hs)
              after == [table EXCEPT ![s] = q]
              o == To(p, Announce(n))
              f == To(p, Handshake(n, p.addr, begun.out))
              own == When(~p.announce_sent, o)
              first == When(starts, f)
              relays == Relays(n, after)
              seq == (own \o first) \o relays
  <1>1. /\ s \in Slots /\ Pkt(n).type # "HANDSHAKE"
        /\ peers' = [peers EXCEPT ![n] = after]
        /\ inbox' = SendToPeers(link, n, seq, Rest(n))
        /\ nextKey' = IF starts THEN NextKey(n) ELSE nextKey
        /\ link' = link
    BY DEF HandleAnnounce, Accepts, AfterAnnounce
  <1>2. IsPeer(n, p) /\ Shape(n, p.hs)
    BY <1>1 DEF IsTable, IsPeer
  <1>3. from \in Nodes \cup {Virtual}
    BY HeadIs DEF Entry, IsPacket, Pkt
  <1>4. /\ Shape(n, begun.hs) /\ begun.hs.phase = "AWAIT_MSG2" /\ begun.hs.e = key
        /\ begun.out = Msg("msg1", key, NoCipherText)
    BY Msg1Shape, BegunIs
  <1>5. Shape(n, failed) /\ failed.phase = "IDLE"
    BY InitShape
  <1>. HIDE DEF p, begun, failed
  <1>6. /\ starts \in BOOLEAN
        /\ starts => hs = begun.hs /\ p.we_are_central
        /\ ~starts => hs \in {failed, p.hs}
    OBVIOUS
  <1>. HIDE DEF starts, hs, from
  <1>7. Shape(n, hs)
    BY <1>2, <1>4, <1>5, <1>6
  <1>8. IsPeer(n, q) /\ q.hs = hs /\ Framed(q, p)
    BY <1>2, <1>3, <1>7, AnnouncedSlot, AnnouncedFramed
  <1>. HIDE DEF q
  <1>9. IsTable(n, after)
    BY <1>1, <1>8, SlotReplaced, Zenon
  <1>10. /\ Sendable(n, o) /\ o.pkt.type # "HANDSHAKE"
         /\ Sendable(n, f) /\ f.peer = p /\ f.pkt.body = begun.out
    <2>1. IsPacket(Announce(n)) /\ IsPacket(Handshake(n, p.addr, begun.out))
      BY PacketIs, HandshakeIs DEF Announce
    <2>2. o.pkt = Announce(n) /\ f.peer = p /\ f.pkt = Handshake(n, p.addr, begun.out)
      BY DEF To
    <2>. QED
      BY <1>2, <2>1, <2>2, ToSlot, TypesOfPackets
  <1>. HIDE DEF o, f
  <1>11. Sends(n, own) /\ Sends(n, first) /\ Sends(n, relays)
    <2>1. (~p.announce_sent) \in BOOLEAN
      OBVIOUS
    <2>. HIDE DEF after
    <2>. QED
      BY <1>6, <1>9, <1>10, <2>1, WhenSends, RelaysSend
  <1>. DEFINE X == IF starts THEN {f} ELSE {}
  <1>12. Shakes(own, X) /\ Shakes(first, X) /\ Shakes(relays, X)
    <2>1. (~p.announce_sent) \in BOOLEAN
      OBVIOUS
    <2>2. starts /\ f.pkt.type = "HANDSHAKE" => f \in X
      OBVIOUS
    <2>. HIDE DEF after, X
    <2>. QED
      BY <1>1, <1>6, <1>10, <2>1, <2>2, WhenShakes, RelaysShake
  <1>. HIDE DEF own, first, relays, X
  <1>13. Sends(n, seq) /\ Shakes(seq, X)
    <2>1. IsSeq(own) /\ IsSeq(first) /\ IsSeq(relays)
      BY <1>11 DEF Sends
    <2>2. Sends(n, own \o first) /\ Shakes(own \o first, X)
      BY <1>11, <1>12, <2>1, ConcatSends, ConcatShakes
    <2>. DEFINE two == own \o first
    <2>. HIDE DEF two
    <2>3. IsSeq(two) /\ Sends(n, two) /\ Shakes(two, X)
      BY <2>2 DEF Sends, two
    <2>4. Sends(n, two \o relays) /\ Shakes(two \o relays, X)
      BY <1>11, <1>12, <2>1, <2>3, ConcatSends, ConcatShakes
    <2>. QED
      BY <2>4 DEF two
  <1>. HIDE DEF seq
  <1>14. CASE ~starts
    <2>1. X = {}
      BY <1>14 DEF X
    <2>2. Calm(q.hs, p.hs)
      BY <1>5, <1>6, <1>8, <1>14 DEF Calm
    <2>3. Calmed(after, table)
      BY <1>1, <1>8, <2>2, OneCalmed DEF p
    <2>. HIDE DEF after
    <2>4. PairedNext(nextKey)
      BY <1>1, <1>13, <2>1, <2>3, HandlerCalm
    <2>. QED
      BY <1>1, <1>14, <2>4
  <1>15. CASE starts
    <2>. DEFINE P == [peers EXCEPT ![n] = table]
                S == Air(inbox)
                T == Air(inbox')
    <2>1. n \in Centrals
      BY <1>2, <1>6, <1>15 DEF IsPeer
    <2>2. Paired(P, S, link, nextKey) /\ Keys(P, nextKey) /\ nextKey \in [Nodes -> Nat]
      BY ReadyKeys DEF Ready
    <2>3. OnlyHs(peers', P, n, s) /\ peers'[n][s] = q /\ P[n] = table
      <3>1. SUFFICES ASSUME NEW Q, Q = peers', NEW R, R = P
                     PROVE  OnlyHs(Q, R, n, s) /\ Q[n][s] = q /\ R[n] = table
        OBVIOUS
      <3>2. SlotChange(R, Q, n, table, s, q)
        BY <1>1, <3>1 DEF SlotChange
      <3>3. s \in Slots /\ Framed(q, table[s])
        BY <1>1, <1>8 DEF p
      <3>. QED
        BY <3>2, <3>3, OneHs
    <2>4. P[n][s] = p
      BY <2>3 DEF p
    <2>. HIDE DEF P
    <2>5. ASSUME NEW m \in Nodes, NEW y \in T[m]
          PROVE  \/ y \in S[m]
                 \/ Plain(m, y)
                 \/ /\ m = Hub /\ P[n][s].client /\ y.handle = link[n].hub_handle
                    /\ y.pkt.body = Msg("msg1", Ephemeral(n, nextKey[n]), NoCipherText)
      <3>1. \A c \in Centrals : link[c].handle = 0
        BY <2>2, HandlesZero
      <3>2. y \in Air(SendToPeers(link, n, seq, Rest(n)))[m]
        BY <1>1
      <3>3. \/ y \in Air(inbox)[m]
            \/ Plain(m, y)
            \/ \E x \in X : Sendable(n, x) /\ Carried(link, n, m, x, y)
        BY <1>13, <3>1, <3>2, HandlerSends
      <3>4. Carried(link, n, m, f, y) => m = Hub /\ f.peer.client /\ y.handle = link[n].hub_handle /\ y.pkt = f.pkt
        BY <2>1, FromCentral
      <3>5. X = {f}
        BY <1>15 DEF X
      <3>. QED
        BY <1>4, <1>10, <2>4, <3>3, <3>4, <3>5 DEF key
    <2>. HIDE DEF S, T
    <2>. SUFFICES ASSUME NEW Q, Q = peers' PROVE Paired(Q, T, link, [nextKey EXCEPT ![n] = @ + 1])
      BY <1>1, <1>15 DEF PairedNext, NextKey, T
    <2>6. OnlyHs(Q, P, n, s) /\ P[n][s].we_are_central
      BY <1>6, <1>15, <2>3, <2>4
    <2>7. Q[n][s].hs.phase = "AWAIT_MSG2" /\ Q[n][s].hs.e = Ephemeral(n, nextKey[n])
      BY <1>4, <1>6, <1>8, <1>15, <2>3 DEF key
    <2>. QED
      BY <1>1, <2>1, <2>2, <2>5, <2>6, <2>7, BeginMoves
  <1>. QED
    BY <1>14, <1>15

-----------------------------------------------------------------------------
(* _handle_noise_handshake                                                  *)

\* Three ways to take a handshake further: hs is its state, m the message, f the
\* key that n generates next and r what the step leaves.
Answers(n, f, m, r) ==
    /\ r.hs.phase = "AWAIT_MSG3" /\ r.hs.ss[1] = LeadingKey(m) /\ r.hs.ss[2] = f
    /\ r.out.kind = "msg2" /\ LeadingKey(r.out) = f /\ r.out.ct.ad[1] = LeadingKey(m)
    /\ r.out.ct.ad[2] = f /\ r.out.ct.pt = Static(n)

Finishes(n, hs, m, r) ==
    /\ hs.phase = "AWAIT_MSG2" /\ m.ct.ad[1] = hs.e
    /\ r.hs.phase = "TRANSPORT" /\ r.hs.rs = m.ct.pt
    /\ r.out.kind = "msg3" /\ r.out.ct.ad[1] = hs.e
    /\ r.out.ct.ad[2] = LeadingKey(m) /\ r.out.ct.pt = Static(n)

Opened(hs, m, r) ==
    /\ hs.phase = "AWAIT_MSG3" /\ m.kind = "msg3" /\ m.ct.ad = hs.ss
    /\ r.hs.phase = "TRANSPORT" /\ r.hs.rs = m.ct.pt /\ r.out = NoMsg

GivenUp(hs, r) == r.out = NoMsg /\ Calm(r.hs, hs)

LEMMA FailIsCalm == ASSUME NEW n, NEW hs, Shape(n, hs) PROVE Calm(Fail(hs), hs)
  <1>1. Fail(hs).phase = "FAILED"
    BY FailShape DEF Shape
  <1>. QED
    BY <1>1 DEF Calm

LEMMA StepGoes ==
    ASSUME NEW n \in Nodes, NEW hs, Shape(n, hs), NEW m, m.kind \in {"msg1", "msg2", "msg3"},
           NEW r, r = HandshakeStep(n, hs, m)
    PROVE  \/ GivenUp(hs, r)
           \/ hs.phase = "IDLE" /\ Answers(n, Ephemeral(n, nextKey[n]), m, r)
           \/ Finishes(n, hs, m, r)
           \/ Opened(hs, m, r)
  <1>1. CASE hs.phase = "IDLE"
    <2>. DEFINE f == Ephemeral(n, nextKey[n])
    <2>1. r = noise_hs_read_msg1_write_msg2(noise_hs_init("RESPONDER", f), m, n)
      BY <1>1 DEF HandshakeStep
    <2>. HIDE DEF f
    <2>2. Answers(n, f, m, r)
      BY <2>1, AnswerIs DEF Answers
    <2>. QED
      BY <1>1, <2>2 DEF f
  <1>2. CASE hs.phase = "AWAIT_MSG2"
    <2>1. r = noise_hs_read_msg2_write_msg3(hs, m, n)
      BY <1>2 DEF HandshakeStep
    <2>2. \/ r.hs = Fail(hs) /\ r.out = NoMsg
          \/ Finishes(n, hs, m, r)
      BY <1>2, <2>1, FinishIs DEF Finishes
    <2>. QED
      BY <2>2, FailIsCalm DEF GivenUp
  <1>3. CASE hs.phase = "AWAIT_MSG3"
    <2>1. r = noise_hs_read_msg3(hs, m)
      BY <1>3 DEF HandshakeStep
    <2>2. \/ r.hs = Fail(hs) /\ r.out = NoMsg
          \/ Opened(hs, m, r)
      BY <1>3, <2>1, OpenIs DEF Opened
    <2>. QED
      BY <2>2, FailIsCalm DEF GivenUp
  <1>4. CASE hs.phase \notin {"IDLE", "AWAIT_MSG2", "AWAIT_MSG3"}
    <2>1. r.hs = hs /\ r.out = NoMsg
      BY <1>4 DEF HandshakeStep, Step
    <2>. QED
      BY <2>1 DEF GivenUp, Calm
  <1>. QED
    BY <1>1, <1>2, <1>3, <1>4

\* Without a failure of the primitives or with one.
LEMMA HandlerGoes ==
    ASSUME NEW n \in Nodes, NEW hs, Shape(n, hs), NEW m, m.kind \in {"msg1", "msg2", "msg3"},
           NEW result \in {"ok", "no_init", "error"}, NEW r,
           r = CASE result = "ok"      -> HandshakeStep(n, hs, m)
                 [] result = "no_init" -> Step(noise_hs_init("RESPONDER", NoKey), NoMsg)
                 [] result = "error"   -> Step(Fail(hs), NoMsg)
    PROVE  \/ GivenUp(hs, r)
           \/ hs.phase = "IDLE" /\ Answers(n, Ephemeral(n, nextKey[n]), m, r)
           \/ Finishes(n, hs, m, r)
           \/ Opened(hs, m, r)
  <1>1. CASE result = "ok"
    <2>1. r = HandshakeStep(n, hs, m)
      BY <1>1
    <2>. QED
      BY <2>1, StepGoes
  <1>2. CASE result = "no_init"
    <2>1. r.hs = noise_hs_init("RESPONDER", NoKey) /\ r.out = NoMsg
      BY <1>2 DEF Step
    <2>2. noise_hs_init("RESPONDER", NoKey).phase = "IDLE"
      BY InitShape
    <2>. QED
      BY <2>1, <2>2 DEF GivenUp, Calm
  <1>3. CASE result = "error"
    <2>1. r.hs = Fail(hs) /\ r.out = NoMsg
      BY <1>3 DEF Step
    <2>. QED
      BY <2>1, FailIsCalm DEF GivenUp
  <1>. QED
    BY <1>1, <1>2, <1>3

\* A packet with what the step of node n sends, where it can arrive.
Reply(n, r, k, y) ==
    /\ y.pkt.body = r.out
    /\ n = Hub => k \in Centrals /\ y.handle = 0
    /\ n \in Centrals => k = Hub

\* A responder generates a key at the start.
KeysAfter(J, K, n, hs) == J = IF hs.phase = "IDLE" THEN [K EXCEPT ![n] = @ + 1] ELSE K

LEMMA HandshakeMoved ==
    ASSUME NEW P, NEW S, NEW L, NEW K \in [Nodes -> Nat], Paired(P, S, L, K), Keys(P, K),
           NEW n \in Nodes, NEW s \in Slots, NEW Q, NEW T, OnlyHs(Q, P, n, s),
           Shape(n, P[n][s].hs),
           NEW z \in S[n], Shake(z), FirstAt(P[n], s, z.handle),
           NEW r, Q[n][s].hs = r.hs,
           \A k \in Nodes : \A y \in T[k] : y \in S[k] \/ Plain(k, y) \/ (r.out # NoMsg /\ Reply(n, r, k, y)),
           NEW J, KeysAfter(J, K, n, P[n][s].hs),
           \/ P[n][s].hs.phase = "IDLE" /\ Answers(n, Ephemeral(n, K[n]), z.pkt.body, r)
           \/ Finishes(n, P[n][s].hs, z.pkt.body, r)
           \/ Opened(P[n][s].hs, z.pkt.body, r)
    PROVE  Paired(Q, T, L, J)
  <1>. DEFINE msg == z.pkt.body
              hs == P[n][s].hs
              key == Ephemeral(n, K[n])
              lead == LeadingKey(msg)
  <1>1. /\ Hub \in Nodes /\ Hub \notin Centrals /\ Centrals \subseteq Nodes
        /\ n = Hub \/ n \in Centrals
    BY HubIsNode, PeerAssumption DEF Nodes
  <1>2. Arrived(K, n, z)
    BY DEF Paired
  <1>3. Old(lead, K)
    BY <1>2 DEF Arrived, Made
  <1>4. n = Hub => HubHs(P, L, K, s)
    BY DEF Paired
  <1>5. CASE hs.phase = "IDLE" /\ Answers(n, key, msg, r)
    <2>1. J = [K EXCEPT ![n] = @ + 1]
      BY <1>5 DEF KeysAfter
    <2>2. \A y : y.pkt.body = r.out => SecondOf(n, lead, key, y)
      BY <1>5 DEF Answers, SecondOf
    <2>3. /\ Q[n][s].hs.phase = "AWAIT_MSG3" /\ Q[n][s].hs.ss[1] = lead /\ Q[n][s].hs.ss[2] = key
      BY <1>5 DEF Answers
    <2>. HIDE DEF msg, hs, key, lead
    <2>4. CASE n = Hub
      <3>1. SecondSent(T, S, lead, key)
        BY <2>2, <2>4 DEF Reply, SecondSent
      <3>2. OnlyHs(Q, P, Hub, s) /\ z \in S[Hub] /\ FirstAt(P[Hub], s, z.handle) /\ NextOf(key, K, Hub)
        BY <2>4 DEF key, NextOf
      <3>3. Leads(lead, z)
        BY DEF lead, msg, Leads
      <3>4. Awaits(Q[Hub][s].hs, lead, key)
        BY <2>3, <2>4 DEF Awaits
      <3>5. J = [K EXCEPT ![Hub] = @ + 1]
        BY <2>1, <2>4
      <3>. QED
        BY <3>1, <3>2, <3>3, <3>4, <3>5, HubAnswers
    <2>5. CASE n \in Centrals
      <3>1. \A k \in Nodes : \A y \in T[k] :
               y \in S[k] \/ Plain(k, y) \/ (k = Hub /\ SecondOf(n, lead, key, y))
        BY <2>2, <2>5 DEF Reply
      <3>2. NextOf(key, K, n)
        BY DEF key, NextOf
      <3>3. Q[n][s].hs.phase = "AWAIT_MSG3"
        BY <2>3
      <3>. QED
        BY <1>3, <2>1, <2>5, <3>1, <3>2, <3>3, CentralAnswers
    <2>. QED
      BY <1>1, <2>4, <2>5
  <1>6. CASE Finishes(n, hs, msg, r)
    <2>1. J = K /\ n \in Centrals /\ hs.phase = "AWAIT_MSG2"
      BY <1>1, <1>4, <1>6 DEF Finishes, HubHs, KeysAfter
    <2>. DEFINE own == hs.e
    <2>2. z.pkt.body.ct.ad[1] = own /\ SessionWith(Q[n][s].hs, z)
      BY <1>6 DEF Finishes, SessionWith
    <2>3. ThirdSent(T, S, n, own, z)
      BY <1>6, <2>1 DEF Reply, Finishes, ThirdSent, ThirdOf
    <2>4. Asks(P[n][s].hs, own)
      BY <2>1 DEF Asks
    <2>. HIDE DEF own, msg, hs, key, lead
    <2>5. Paired(Q, T, L, K)
      BY <2>1, <2>2, <2>3, <2>4, CentralFinishes
    <2>. QED
      BY <2>1, <2>5
  <1>7. CASE Opened(hs, msg, r)
    <2>1. J = K /\ n = Hub
      BY <1>1, <1>2, <1>7 DEF Opened, Arrived, KeysAfter
    <2>2. \A k \in Nodes : \A y \in T[k] : y \in S[k] \/ Plain(k, y)
      BY <1>7 DEF Opened
    <2>3. /\ P[Hub][s].hs.phase = "AWAIT_MSG3" /\ z \in S[Hub] /\ OnlyHs(Q, P, Hub, s)
          /\ z.pkt.body.kind = "msg3" /\ z.pkt.body.ct.ad = P[Hub][s].hs.ss
          /\ Q[Hub][s].hs.phase = "TRANSPORT" /\ Q[Hub][s].hs.rs = z.pkt.body.ct.pt
      BY <1>7, <2>1 DEF Opened
    <2>. HIDE DEF msg, hs, key, lead
    <2>4. Paired(Q, T, L, K)
      BY <2>2, <2>3, HubFinishes
    <2>. QED
      BY <2>1, <2>4
  <1>. QED
    BY <1>5, <1>6, <1>7

LEMMA HandshakePaired ==
    ASSUME IInv, NEW n \in Nodes, inbox[n] # <<>>, NEW table, NEW s,
           s = NoSlot \/ (s \in Slots /\ FirstAt(table, s, Head(inbox[n]).handle)),
           IsTable(n, table), Tame(table, peers[n]), Ready(n, table),
           NEW result \in {"ok", "no_init", "error"}, HandleNoiseHandshake(n, table, s, result)
    PROVE  PairedNext(nextKey')
  <1>. DEFINE p == table[s]
              head == Head(inbox[n])
              msg == head.pkt.body
              idle == p.hs.phase = "IDLE"
              step == CASE result = "ok"      -> HandshakeStep(n, p.hs, msg)
                        [] result = "no_init" -> Step(noise_hs_init("RESPONDER", NoKey), NoMsg)
                        [] result = "error"   -> Step(Fail(p.hs), NoMsg)
              o == To(p, Handshake(n, p.addr, step.out))
              q == [p EXCEPT !.hs = step.hs]
              new == [table EXCEPT ![s] = q]
              seq == When(step.out # NoMsg, o)
              next == [nextKey EXCEPT ![n] = @ + 1]
  <1>1. /\ s \in Slots /\ FirstAt(table, s, head.handle) /\ head.pkt.type = "HANDSHAKE"
        /\ peers' = [peers EXCEPT ![n] = [table EXCEPT ![s].hs = step.hs]]
        /\ inbox' = SendToPeers(link, n, seq, Rest(n))
        /\ nextKey' = IF idle THEN next ELSE nextKey
        /\ link' = link
    BY SlotsAreNat DEF HandleNoiseHandshake, Accepts, Pkt, NextKey
  <1>2. IsPeer(n, p) /\ Shape(n, p.hs)
    BY <1>1 DEF IsTable, IsPeer
  <1>3. peers' = [peers EXCEPT ![n] = new]
    BY <1>1 DEF IsTable
  <1>4. head \in Air(inbox)[n] /\ Shake(head)
    BY <1>1, HeadOnAir DEF Shake
  <1>5. /\ \A c \in Centrals : link[c].handle = 0
        /\ Arrived(nextKey, n, head)
    BY <1>4 DEF Ready, Paired
  <1>6. msg.kind \in {"msg1", "msg2", "msg3"}
    BY <1>4, <1>5 DEF Arrived, Made
  <1>. HIDE DEF p, msg
  <1>7. \/ GivenUp(p.hs, step)
        \/ idle /\ Answers(n, Ephemeral(n, nextKey[n]), msg, step)
        \/ Finishes(n, p.hs, msg, step)
        \/ Opened(p.hs, msg, step)
    BY <1>2, <1>6, HandlerGoes
  <1>. HIDE DEF step
  <1>8. Framed(q, p) /\ q.hs = step.hs
    BY <1>2, HsFramed
  <1>9. /\ Sendable(n, o) /\ o.pkt.type = "HANDSHAKE" /\ o.pkt.body = step.out
        /\ o.peer = p
    <2>1. IsPacket(Handshake(n, p.addr, step.out))
      BY HandshakeIs
    <2>2. Sendable(n, o)
      BY <1>2, <2>1, ToSlot
    <2>3. o.pkt = Handshake(n, p.addr, step.out) /\ o.peer = p
      BY DEF To
    <2>. HIDE DEF o
    <2>. QED
      BY <2>2, <2>3, TypesOfPackets
  <1>. HIDE DEF o, q, head
  <1>. DEFINE X == IF step.out # NoMsg THEN {o} ELSE {}
  <1>10. Sends(n, seq) /\ Shakes(seq, X)
    <2>1. (step.out # NoMsg) \in BOOLEAN
      OBVIOUS
    <2>2. step.out # NoMsg /\ o.pkt.type = "HANDSHAKE" => o \in X
      OBVIOUS
    <2>. HIDE DEF X
    <2>. QED
      BY <1>9, <2>1, <2>2, WhenSends, WhenShakes
  <1>. HIDE DEF seq
  <1>11. CASE GivenUp(p.hs, step)
    <2>1. X = {}
      BY <1>11 DEF X, GivenUp
    <2>2. Calmed(new, table)
      <3>1. Calm(q.hs, p.hs)
        BY <1>8, <1>11 DEF GivenUp
      <3>. QED
        BY <1>1, <1>8, <3>1, OneCalmed DEF p
    <2>. HIDE DEF new
    <2>3. PairedNext(nextKey)
      BY <1>1, <1>3, <1>10, <2>1, <2>2, HandlerCalm
    <2>4. PairedNext(next)
      <3>1. nextKey \in [Nodes -> Nat]
        BY DEF IInv
      <3>. DEFINE Now == Air(inbox')
      <3>2. Paired(peers', Now, link', nextKey)
        BY <2>3 DEF PairedNext
      <3>. HIDE DEF Now
      <3>3. Paired(peers', Now, link', next)
        BY <3>1, <3>2, KeySpent
      <3>. QED
        BY <3>3 DEF PairedNext, Now
    <2>. HIDE DEF next
    <2>. QED
      BY <1>1, <2>3, <2>4
  <1>12. CASE ~GivenUp(p.hs, step)
    <2>. DEFINE P == [peers EXCEPT ![n] = table]
                Was == Air(inbox)
                Now == Air(inbox')
    <2>1. Paired(P, Was, link, nextKey) /\ Keys(P, nextKey) /\ nextKey \in [Nodes -> Nat]
      BY ReadyKeys DEF Ready
    <2>2. SUFFICES ASSUME NEW Q, Q = peers', NEW R, R = P, NEW J, J = nextKey' PROVE Paired(Q, Now, link, J)
      BY <1>1 DEF PairedNext
    <2>3. OnlyHs(Q, R, n, s) /\ Q[n][s] = q /\ R[n] = table
      <3>1. SlotChange(R, Q, n, table, s, q)
        BY <1>3, <2>2 DEF SlotChange
      <3>2. Framed(q, table[s])
        BY <1>8 DEF p
      <3>. QED
        BY <1>1, <3>1, <3>2, OneHs
    <2>4. R[n][s] = p /\ Paired(R, Was, link, nextKey) /\ Keys(R, nextKey)
      BY <2>1, <2>2, <2>3 DEF p
    <2>. HIDE DEF P
    <2>5. ASSUME NEW k \in Nodes, NEW y \in Now[k]
          PROVE  y \in Was[k] \/ Plain(k, y) \/ (step.out # NoMsg /\ Reply(n, step, k, y))
      <3>1. y \in Air(SendToPeers(link, n, seq, Rest(n)))[k]
        BY <1>1
      <3>2. \/ y \in Air(inbox)[k]
            \/ Plain(k, y)
            \/ \E x \in X : Sendable(n, x) /\ Carried(link, n, k, x, y)
        BY <1>5, <1>10, <3>1, HandlerSends
      <3>3. CASE \E x \in X : Sendable(n, x) /\ Carried(link, n, k, x, y)
        <4>1. step.out # NoMsg /\ Carried(link, n, k, o, y)
          BY <3>3 DEF X
        <4>2. CASE n \in Centrals
          <5>1. k = Hub /\ y.pkt = o.pkt
            <6>1. Carried(link, n, k, o, y)
              BY <4>1
            <6>2. k = Hub /\ o.peer.client /\ y.handle = link[n].hub_handle /\ y.pkt = o.pkt
              BY <6>1, <4>2, FromCentral
            <6>. QED
              BY <6>2
          <5>2. n # Hub
            BY <4>2, PeerAssumption
          <5>. QED
            BY <1>9, <4>1, <5>1, <5>2 DEF Reply
        <4>3. CASE n = Hub
          <5>1. Hub \notin Centrals
            BY PeerAssumption
          <5>2. ~o.peer.we_are_central
            BY <1>2, <1>9, <4>3, <5>1 DEF IsPeer
          <5>3. Carried(link, Hub, k, o, y)
            BY <4>1, <4>3
          <5>4. k \in Centrals /\ y.handle = 0 /\ y.pkt = o.pkt
            BY <1>5, <5>2, <5>3, FromHub
          <5>. QED
            BY <1>9, <4>1, <4>3, <5>1, <5>4 DEF Reply
        <4>. QED
          BY <4>2, <4>3 DEF Nodes
      <3>. QED
        BY <3>2, <3>3
    <2>6. head \in Was[n]
      BY <1>4
    <2>. HIDE DEF Was, Now
    <2>7. KeysAfter(J, nextKey, n, R[n][s].hs)
      BY <1>1, <2>2, <2>4 DEF KeysAfter
    <2>8. \/ R[n][s].hs.phase = "IDLE" /\ Answers(n, Ephemeral(n, nextKey[n]), head.pkt.body, step)
          \/ Finishes(n, R[n][s].hs, head.pkt.body, step)
          \/ Opened(R[n][s].hs, head.pkt.body, step)
      BY <1>7, <1>12, <2>4 DEF msg
    <2>9. s \in Slots /\ Shake(head) /\ FirstAt(R[n], s, head.handle) /\ Shape(n, R[n][s].hs) /\ Q[n][s].hs = step.hs
      BY <1>1, <1>2, <1>4, <1>8, <2>3, <2>4
    <2>. QED
      BY <2>1, <2>3, <2>4, <2>5, <2>6, <2>7, <2>8, <2>9, HandshakeMoved
  <1>. QED
    BY <1>11, <1>12

\* Whatever the packet, handling it keeps sessions to their connections.
LEMMA IncomingPaired ==
    ASSUME IInv, Paired(peers, Air(inbox), link, nextKey), NEW n \in Nodes, Incoming(n)
    PROVE  PairedNext(nextKey')
  <1>. DEFINE table == Admitted(n)
              h == Head(inbox[n]).handle
              s == FindPeer(table, h)
  <1>1. inbox[n] # <<>> /\ Dispatch(n, table, s)
    BY DEF Incoming
  <1>2. IsTable(n, table) /\ Tame(table, peers[n])
    BY <1>1, AdmittedIs
  <1>3. Ready(n, table)
    BY <1>1, AdmittedPaired DEF Ready
  <1>. HIDE DEF table
  <1>4. s = NoSlot \/ (s \in Slots /\ FirstAt(table, s, h))
    BY FindFirst
  <1>. HIDE DEF s
  <1>5. CASE Discard(n, table, s)
    BY <1>1, <1>3, <1>5, DiscardPaired
  <1>6. ASSUME NEW ok \in BOOLEAN, HandleAnnounce(n, table, s, ok) PROVE PairedNext(nextKey')
    BY <1>1, <1>2, <1>3, <1>4, <1>6, AnnouncePaired
  <1>7. CASE HandleMessage(n, table, s)
    BY <1>1, <1>2, <1>3, <1>7, MessagePaired
  <1>8. ASSUME NEW result \in {"ok", "no_init", "error"}, HandleNoiseHandshake(n, table, s, result)
        PROVE  PairedNext(nextKey')
    BY <1>1, <1>2, <1>3, <1>4, <1>8, HandshakePaired
  <1>9. CASE HandleEncrypted(n, table, s)
    BY <1>1, <1>2, <1>3, <1>4, <1>9, EncryptedPaired
  <1>10. CASE HandleRequestSync(n, table, s)
    BY <1>1, <1>2, <1>3, <1>4, <1>10, SyncPaired
  <1>. QED
    BY <1>1, <1>5, <1>6, <1>7, <1>8, <1>9, <1>10 DEF Dispatch

-----------------------------------------------------------------------------
(* Connections, and slots that are cleared                                  *)

\* No slot that _find_peer returned for the handle is left.
Cleared(new, old, h) == \A t \in Slots : FirstAt(old, t, h) => new[t] = FreeSlot

\* The connection stays, or ends with the slots at both of its ends.
Ends(Q, P, M, L, c) ==
    /\ M[c].handle = L[c].handle /\ M[c].hub_handle = L[c].hub_handle
    /\ \/ M[c].stage = L[c].stage
       \/ M[c].stage = "down" /\ Cleared(Q[Hub], P[Hub], L[c].hub_handle) /\ Cleared(Q[c], P[c], 0)

LEMMA FreedStep ==
    ASSUME NEW P, NEW S, NEW L, NEW K, Paired(P, S, L, K), NEW Q, NEW M,
           \A m \in Nodes : Freed(Q[m], P[m]),
           \A c \in Centrals : Ends(Q, P, M, L, c)
    PROVE  Paired(Q, S, M, K)
  <1>. SUFFICES ASSUME NEW T, T = S PROVE Paired(Q, T, M, K)
    OBVIOUS
  <1>1. Hub \in Nodes /\ Centrals \subseteq Nodes
    BY HubIsNode
  <1>2. \A c \in Centrals : M[c].handle = 0
    BY DEF Paired, Ends
  <1>3. \A c \in Centrals : L[c].stage # "down" => M[c].hub_handle = L[c].hub_handle
    BY DEF Ends
  <1>4. \A m \in Nodes : \A s \in Slots : Calm(Q[m][s].hs, P[m][s].hs)
    BY FreeSlotFields DEF Freed, Calm
  <1>5. ASSUME NEW c \in Centrals, NEW s \in Slots PROVE CentralFrame(Q, M, c, s)
    <2>1. CentralFrame(P, L, c, s) /\ Ends(Q, P, M, L, c) /\ Freed(Q[c], P[c])
      BY <1>1 DEF Paired
    <2>2. CASE Q[c][s] = FreeSlot
      BY <2>2, FreeSlotFields DEF CentralFrame
    <2>3. CASE Q[c][s] # FreeSlot
      <3>1. Q[c][s] = P[c][s]
        BY <2>1, <2>3 DEF Freed
      <3>2. ~FirstAt(P[c], s, 0) \/ M[c].stage = L[c].stage
        BY <2>1, <2>3 DEF Ends, Cleared
      <3>3. FirstAt(P[c], s, 0) => FirstAt(Q[c], s, 0)
        BY <2>1, <3>1, FreedFirst
      <3>4. M[c].stage = L[c].stage \/ M[c].stage = "down"
        BY <2>1 DEF Ends
      <3>. QED
        BY <2>1, <3>1, <3>2, <3>3, <3>4 DEF CentralFrame
    <2>. QED
      BY <2>2, <2>3
  <1>6. \A c \in Centrals : \A s \in Slots : Stays(Q[c][s], P[c][s])
    BY <1>1, FreeSlotFields DEF Stays, Freed
  <1>7. ASSUME NEW x \in Slots, NEW c \in Centrals,
               Q[Hub][x].hs.phase \notin {"IDLE", "FAILED"}, Serves(P, L, x, c)
        PROVE  Serves(Q, M, x, c)
    <2>1. Q[Hub][x] # FreeSlot /\ Freed(Q[Hub], P[Hub])
      BY <1>1, <1>7, FreeSlotFields
    <2>2. Q[Hub][x] = P[Hub][x]
      BY <2>1 DEF Freed
    <2>3. FirstAt(P[Hub], x, L[c].hub_handle) /\ L[c].stage # "down"
      BY <1>7 DEF Serves
    <2>4. M[c].stage = L[c].stage /\ M[c].hub_handle = L[c].hub_handle
      BY <2>1, <2>3 DEF Ends, Cleared
    <2>5. FirstAt(Q[Hub], x, L[c].hub_handle)
      BY <2>1, <2>2, <2>3, FreedFirst
    <2>. QED
      BY <2>3, <2>4, <2>5 DEF Serves
  <1>8. \A m \in Nodes : \A y \in T[m] : y \in S[m] \/ Plain(m, y)
    OBVIOUS
  <1>. QED
    BY <1>2, <1>3, <1>4, <1>5, <1>6, <1>7, <1>8, CalmStep

\* Without a handshake packet in the list.
LEMMA SendsPlain ==
    ASSUME IInv, NEW lk \in LinkType, \A c \in Centrals : lk[c].handle = 0,
           NEW n \in Nodes, NEW seq, Sends(n, seq), Shakes(seq, {}),
           NEW m \in Nodes, NEW y \in Air(SendToPeers(lk, n, seq, inbox))[m]
    PROVE  y \in Air(inbox)[m] \/ Plain(m, y)
  <1>1. Boxes(inbox)
    BY DEF IInv
  <1>2. y \in Air(inbox)[m] \/ Plain(m, y) \/ \E x \in {} : Sendable(n, x) /\ Carried(lk, n, m, x, y)
    BY <1>1, SendPlain
  <1>. QED
    BY <1>2

\* What _on_connect adds.
Greets(n, r, h, addr, central) ==
    /\ Grown(r.table, peers[n], h, addr, central)
    /\ \A m \in Nodes : \A y \in Air(r.boxes)[m] : y \in Air(inbox)[m] \/ Plain(m, y)

LEMMA OnConnectGreets ==
    ASSUME IInv, NEW lk \in LinkType, \A c \in Centrals : lk[c].handle = 0,
           NEW n \in Nodes, NEW h \in Handles,
           NEW addr \in Nodes, NEW central \in BOOLEAN, central => n \in Centrals
    PROVE  Greets(n, OnConnect(lk, n, h, addr, central), h, addr, central)
  <1>. DEFINE table == AllocPeer(peers[n], h, addr, central)
              fresh == First({t \in Slots : table[t] # peers[n][t]})
              new == [table EXCEPT ![fresh].announce_sent = TRUE]
              list == When(TRUE, To(table[fresh], Announce(n)))
              boxes == SendToPeers(lk, n, list, inbox)
              out == OnConnect(lk, n, h, addr, central)
  <1>1. IsTable(n, peers[n])
    BY DEF IInv, Tables
  <1>2. IsTable(n, table) /\ Grown(table, peers[n], h, addr, central)
    BY <1>1, AllocIs, AllocGrows
  <1>3. fresh = NoSlot \/ fresh \in Slots
    BY FirstIs
  <1>4. out = IF fresh = NoSlot THEN [table |-> table, boxes |-> inbox]
              ELSE [table |-> new, boxes |-> boxes]
    BY DEF OnConnect, When
  <1>. HIDE DEF table, fresh, out
  <1>5. CASE fresh = NoSlot
    <2>1. out.table = table /\ out.boxes = inbox
      BY <1>4, <1>5
    <2>. QED
      BY <1>2, <2>1 DEF Greets, out
  <1>6. CASE fresh # NoSlot
    <2>1. fresh \in Slots
      BY <1>3, <1>6
    <2>2. out.table = new /\ out.boxes = boxes
      BY <1>4, <1>6
    <2>3. \A t \in Slots : Same(new[t], table[t])
      BY <1>2, <2>1, AnnouncedSame
    <2>. HIDE DEF new
    <2>4. Grown(new, peers[n], h, addr, central)
      BY <1>2, <2>3, GrownThen
    <2>5. Sends(n, list) /\ Shakes(list, {})
      <3>. DEFINE o == To(table[fresh], Announce(n))
      <3>1. IsPacket(Announce(n)) /\ IsPeer(n, table[fresh])
        BY <1>2, <2>1, PacketIs DEF Announce, IsTable
      <3>2. Sendable(n, o)
        BY <3>1, ToSlot
      <3>3. o.pkt.type # "HANDSHAKE"
        BY TypesOfPackets DEF To
      <3>. HIDE DEF o
      <3>4. Sends(n, When(TRUE, o)) /\ Shakes(When(TRUE, o), {})
        BY <3>2, <3>3, WhenSends, WhenShakes
      <3>. QED
        BY <3>4 DEF o
    <2>. HIDE DEF list
    <2>6. ASSUME NEW m \in Nodes, NEW y \in Air(boxes)[m] PROVE y \in Air(inbox)[m] \/ Plain(m, y)
      BY <2>5, SendsPlain
    <2>. HIDE DEF boxes
    <2>. QED
      BY <2>2, <2>4, <2>6 DEF Greets, out
  <1>. QED
    BY <1>5, <1>6

\* A new connection has a handle that no other has, so nobody is served by its slot.
LEMMA LinkUpPaired ==
    ASSUME IInv, Paired(peers, Air(inbox), link, nextKey), NEW c \in Centrals, LinkUp(c)
    PROVE  PairedNext(nextKey')
  <1>. DEFINE used == Used
              free == CHOOSE x \in Handles \ Used : \A y \in Handles \ Used : x <= y
              up == [link EXCEPT ![c] = [stage |-> "linked", hub_handle |-> free, handle |-> 0]]
              greeted == OnConnect(up, Hub, free, c, FALSE)
              air == Air(inbox)
              later == Air(inbox')
  <1>1. /\ link[c].stage = "down" /\ link' = up
        /\ \A s \in Slots : ~ (peers[c][s].active /\ peers[c][s].addr = Hub)
        /\ peers' = [peers EXCEPT ![Hub] = greeted.table] /\ inbox' = greeted.boxes
        /\ nextKey' = nextKey
    BY DEF LinkUp, Used
  <1>2. free \in Handles /\ free \notin Used
    BY <1>1, HandleLeft
  <1>. HIDE DEF free
  <1>3. Hub \in Nodes /\ Centrals \subseteq Nodes /\ Hub \notin Centrals /\ link \in LinkType /\ 0 \in Handles
    BY HubIsNode, PeerAssumption, ZeroHandle DEF IInv
  <1>4. up \in LinkType
    BY <1>2, <1>3, LinkSet
  <1>5. /\ up[c].stage = "linked" /\ up[c].handle = 0
        /\ \A d \in Centrals \ {c} : up[d] = link[d]
    BY <1>3 DEF LinkType
  <1>6. \A d \in Centrals : up[d].handle = 0
    BY <1>5, HandlesZero
  <1>. HIDE DEF up
  <1>7. Greets(Hub, greeted, free, c, FALSE)
    BY <1>2, <1>3, <1>4, <1>6, OnConnectGreets
  <1>. HIDE DEF greeted
  <1>8. Grown(greeted.table, peers[Hub], free, c, FALSE)
    BY <1>7 DEF Greets
  <1>9. \A m \in Nodes : \A y \in later[m] : y \in air[m] \/ Plain(m, y)
    BY <1>1, <1>7 DEF Greets
  <1>. HIDE DEF air, later
  <1>. SUFFICES ASSUME NEW Q, Q = peers' PROVE Paired(Q, later, up, nextKey)
    BY <1>1 DEF PairedNext, later
  <1>10. Q[Hub] = greeted.table /\ \A m \in Nodes \ {Hub} : Q[m] = peers[m]
    BY <1>1, <1>3 DEF IInv, Tables
  <1>11. Paired(peers, air, link, nextKey)
    BY DEF air
  <1>12. \A d \in Centrals : link[d].stage # "down" => up[d].hub_handle = link[d].hub_handle
    BY <1>1, <1>5
  <1>13. ASSUME NEW m \in Nodes, NEW s \in Slots PROVE Calm(Q[m][s].hs, peers[m][s].hs)
    <2>1. CASE m = Hub
      BY <1>8, <1>10, <2>1 DEF Grown, Same, Calm
    <2>2. CASE m # Hub
      BY <1>10, <2>2 DEF Calm
    <2>. QED
      BY <2>1, <2>2
  <1>14. ASSUME NEW d \in Centrals, NEW s \in Slots PROVE CentralFrame(Q, up, d, s)
    <2>1. CentralFrame(peers, link, d, s) /\ Q[d] = peers[d]
      BY <1>3, <1>10, <1>11 DEF Paired
    <2>2. CASE d # c
      BY <1>5, <2>1, <2>2 DEF CentralFrame
    <2>3. CASE d = c
      BY <1>1, <2>1, <2>3 DEF CentralFrame
    <2>. QED
      BY <2>2, <2>3
  <1>15. \A d \in Centrals : \A s \in Slots : Stays(Q[d][s], peers[d][s])
    BY <1>3, <1>10 DEF Stays
  <1>16. ASSUME NEW x \in Slots, NEW d \in Centrals, Serves(peers, link, x, d)
         PROVE  Serves(Q, up, x, d)
    <2>. DEFINE g == link[d].hub_handle
    <2>1. link[d].stage # "down" /\ FirstAt(peers[Hub], x, g)
      BY <1>16 DEF Serves
    <2>2. up[d] = link[d]
      BY <1>1, <1>5, <2>1
    <2>3. g \in Used
      BY <2>1 DEF Used
    <2>4. g # free
      BY <1>2, <2>3
    <2>. HIDE DEF g
    <2>5. FirstAt(greeted.table, x, g)
      BY <1>8, <2>1, <2>4, GrownFirst
    <2>. QED
      BY <1>10, <2>1, <2>2, <2>5 DEF Serves, g
  <1>. QED
    BY <1>6, <1>9, <1>11, <1>12, <1>13, <1>14, <1>15, <1>16, CalmStep

\* The client is stored in slot s.
StoredIn(new, table, s) == new = [table EXCEPT ![s].client = TRUE]

LEMMA ClientFrame ==
    ASSUME NEW node, NEW table, IsTable(node, table), NEW s \in Slots, NEW t \in Slots,
           NEW new, StoredIn(new, table, s)
    PROVE  /\ new[t].active = table[t].active /\ new[t].handle = table[t].handle
           /\ new[t].addr = table[t].addr /\ new[t].we_are_central = table[t].we_are_central
           /\ new[t].hs = table[t].hs /\ (t # s => new[t].client = table[t].client)
  <1>1. DOMAIN table = Slots /\ IsPeer(node, table[s])
    BY DEF IsTable
  <1>. DEFINE p == [table[s] EXCEPT !.client = TRUE]
  <1>2. /\ p.hs = table[s].hs /\ p.active = table[s].active
        /\ p.handle = table[s].handle /\ p.addr = table[s].addr
        /\ p.we_are_central = table[s].we_are_central
    BY <1>1 DEF IsPeer, PeerFields
  <1>3. new[t] = IF t = s THEN p ELSE table[t]
    BY <1>1 DEF StoredIn
  <1>. HIDE DEF p
  <1>. QED
    BY <1>2, <1>3

\* A connection that is not subscribed has no slot in a handshake at the central,
\* and its first slot for the connection gets the client.
LEMMA SubscribePaired ==
    ASSUME IInv, Paired(peers, Air(inbox), link, nextKey), NEW c \in Centrals, Subscribe(c)
    PROVE  PairedNext(nextKey')
  <1>. DEFINE own == OnConnect(link, c, 0, Hub, TRUE)
              lead == own.table
              first == FindPeer(lead, 0)
              stored == IF first = NoSlot THEN lead ELSE [lead EXCEPT ![first].client = TRUE]
              up == [link EXCEPT ![c].stage = "subscribed"]
              air == Air(inbox)
              later == Air(inbox')
  <1>1. \A d \in Centrals : link[d].handle = 0
    BY HandlesZero
  <1>2. /\ link[c].stage = "linked" /\ link' = up
        /\ peers' = [peers EXCEPT ![c] = stored] /\ inbox' = own.boxes
        /\ nextKey' = nextKey
    BY <1>1 DEF Subscribe
  <1>3. Hub \in Nodes /\ c \in Nodes /\ Centrals \subseteq Nodes /\ c # Hub /\ link \in LinkType /\ 0 \in Handles
    BY HubIsNode, PeerAssumption, ZeroHandle DEF IInv
  <1>4. /\ up[c].stage = "subscribed" /\ up[c].handle = link[c].handle
        /\ up[c].hub_handle = link[c].hub_handle
        /\ \A d \in Centrals \ {c} : up[d] = link[d]
    BY <1>3 DEF LinkType
  <1>. HIDE DEF up
  <1>5. Greets(c, own, 0, Hub, TRUE) /\ Connected(c, own)
    <2>1. Greets(c, own, 0, Hub, TRUE)
      BY <1>1, <1>3, OnConnectGreets
    <2>2. Connected(c, own)
      BY <1>3, OnConnectIs
    <2>. QED
      BY <2>1, <2>2
  <1>. HIDE DEF own
  <1>6. Grown(lead, peers[c], 0, Hub, TRUE) /\ IsTable(c, lead)
    BY <1>5 DEF Greets, Connected
  <1>7. \A m \in Nodes : \A y \in later[m] : y \in air[m] \/ Plain(m, y)
    BY <1>2, <1>5 DEF Greets
  <1>. HIDE DEF lead, air, later
  <1>8. first = NoSlot \/ (first \in Slots /\ FirstAt(lead, first, 0))
    BY FindFirst
  <1>9. ASSUME NEW t \in Slots
        PROVE  /\ stored[t].active = lead[t].active /\ stored[t].handle = lead[t].handle
               /\ stored[t].addr = lead[t].addr /\ stored[t].we_are_central = lead[t].we_are_central
               /\ stored[t].hs = lead[t].hs
               /\ stored[t].client = lead[t].client \/ (t = first /\ FirstAt(lead, t, 0))
    <2>. HIDE DEF first
    <2>1. CASE first = NoSlot
      BY <2>1
    <2>2. CASE first # NoSlot
      <3>1. first \in Slots /\ FirstAt(lead, first, 0)
        BY <1>8, <2>2
      <3>2. StoredIn(stored, lead, first)
        BY <2>2 DEF StoredIn
      <3>. HIDE DEF stored
      <3>3. /\ stored[t].active = lead[t].active /\ stored[t].handle = lead[t].handle
            /\ stored[t].addr = lead[t].addr /\ stored[t].we_are_central = lead[t].we_are_central
            /\ stored[t].hs = lead[t].hs /\ (t # first => stored[t].client = lead[t].client)
        BY <1>6, <3>1, <3>2, ClientFrame
      <3>. QED
        BY <3>1, <3>3
    <2>. QED
      BY <2>1, <2>2
  <1>. HIDE DEF first, stored
  <1>. SUFFICES ASSUME NEW Q, Q = peers' PROVE Paired(Q, later, up, nextKey)
    BY <1>2 DEF PairedNext, later
  <1>10. Q[c] = stored /\ \A m \in Nodes \ {c} : Q[m] = peers[m]
    BY <1>2, <1>3 DEF IInv, Tables
  <1>11. Paired(peers, air, link, nextKey)
    BY DEF air
  <1>12. \A d \in Centrals : up[d].handle = 0 /\ up[d].hub_handle = link[d].hub_handle
    BY <1>1, <1>4
  <1>13. ASSUME NEW m \in Nodes, NEW t \in Slots PROVE Calm(Q[m][t].hs, peers[m][t].hs)
    <2>1. CASE m = c
      <3>1. Q[c][t].hs = lead[t].hs
        BY <1>9, <1>10
      <3>2. lead[t].hs.phase = "IDLE" \/ lead[t].hs = peers[c][t].hs
        BY <1>6 DEF Grown, Same
      <3>. QED
        BY <2>1, <3>1, <3>2 DEF Calm
    <2>2. CASE m # c
      BY <1>10, <2>2 DEF Calm
    <2>. QED
      BY <2>1, <2>2
  <1>14. ASSUME NEW t \in Slots
         PROVE  /\ ~peers[c][t].we_are_central /\ ~peers[c][t].client /\ peers[c][t].handle = 0
                /\ peers[c][t].hs.phase \notin {"AWAIT_MSG2", "TRANSPORT"}
    <2>1. CentralFrame(peers, link, c, t) /\ CentralHs(peers[c][t])
      BY DEF Paired
    <2>. QED
      BY <1>2, <2>1 DEF CentralFrame, CentralHs
  <1>15. ASSUME NEW d \in Centrals, NEW t \in Slots PROVE CentralFrame(Q, up, d, t)
    <2>1. CASE d # c
      <3>1. CentralFrame(peers, link, d, t) /\ Q[d] = peers[d] /\ up[d] = link[d]
        BY <1>3, <1>4, <1>10, <1>11, <2>1 DEF Paired
      <3>. QED
        BY <3>1 DEF CentralFrame
    <2>2. CASE d = c
      <3>1. /\ lead[t].handle = 0 /\ ~lead[t].client
            /\ lead[t].we_are_central => lead[t].active /\ lead[t].addr = Hub
        BY <1>6, <1>14 DEF Grown, Same, Framed
      <3>2. FirstAt(lead, t, 0) => FirstAt(stored, t, 0)
        BY <1>9 DEF FirstAt
      <3>3. stored[t].handle = 0 /\ (stored[t].client => FirstAt(stored, t, 0))
        BY <1>9, <3>1, <3>2
      <3>4. stored[t].we_are_central => stored[t].active /\ stored[t].addr = Hub
        BY <1>9, <3>1
      <3>. QED
        BY <1>4, <1>10, <2>2, <3>3, <3>4 DEF CentralFrame
    <2>. QED
      BY <2>1, <2>2
  <1>16. ASSUME NEW d \in Centrals, NEW t \in Slots PROVE Stays(Q[d][t], peers[d][t])
    <2>1. CASE d # c
      BY <1>3, <1>10, <2>1 DEF Stays
    <2>2. CASE d = c
      BY <1>3, <1>13, <1>14, <2>2 DEF Stays, Calm
    <2>. QED
      BY <2>1, <2>2
  <1>17. ASSUME NEW x \in Slots, NEW d \in Centrals, Serves(peers, link, x, d)
         PROVE  Serves(Q, up, x, d)
    <2>1. up[d].stage # "down"
      BY <1>4, <1>17 DEF Serves
    <2>. QED
      BY <1>3, <1>10, <1>12, <1>17, <2>1 DEF Serves
  <1>. QED
    BY <1>7, <1>11, <1>12, <1>13, <1>15, <1>16, <1>17, CalmStep

\* onDisconnect on both sides: both slots of the connection are cleared.
LEMMA BothEnd ==
    ASSUME IInv, Paired(peers, Air(inbox), link, nextKey), NEW c \in Centrals,
           NEW own, Freed(own, peers[c]), Cleared(own, peers[c], 0),
           peers' = [peers EXCEPT ![Hub] = FreePeer(@, link[c].hub_handle), ![c] = own],
           link' = [link EXCEPT ![c].stage = "down"], inbox' = inbox
    PROVE  PairedNext(nextKey)
  <1>. DEFINE left == FreePeer(peers[Hub], link[c].hub_handle)
              down == [link EXCEPT ![c].stage = "down"]
              air == Air(inbox)
  <1>1. Hub \in Nodes /\ c \in Nodes /\ c # Hub /\ link \in LinkType /\ DOMAIN peers = Nodes
    BY HubIsNode, PeerAssumption DEF IInv, Tables
  <1>2. /\ down[c].stage = "down" /\ down[c].handle = link[c].handle
        /\ down[c].hub_handle = link[c].hub_handle
        /\ \A d \in Centrals \ {c} : down[d] = link[d]
    BY <1>1 DEF LinkType
  <1>. HIDE DEF down
  <1>3. IsTable(Hub, peers[Hub])
    BY <1>1 DEF IInv, Tables
  <1>4. Freed(left, peers[Hub]) /\ Cleared(left, peers[Hub], link[c].hub_handle)
    BY <1>3, FreeClears DEF Cleared
  <1>5. peers' = [peers EXCEPT ![Hub] = left, ![c] = own]
    BY <1>1
  <1>. HIDE DEF left, air
  <1>. SUFFICES ASSUME NEW Q, Q = peers' PROVE Paired(Q, air, down, nextKey)
    BY DEF PairedNext, air, down
  <1>6. Q[Hub] = left /\ Q[c] = own /\ \A m \in Nodes \ {Hub, c} : Q[m] = peers[m]
    BY <1>1, <1>5
  <1>7. Paired(peers, air, link, nextKey)
    BY DEF air
  <1>8. ASSUME NEW m \in Nodes PROVE Freed(Q[m], peers[m])
    <2>1. CASE m \notin {Hub, c}
      BY <1>6, <2>1 DEF Freed
    <2>. QED
      BY <1>4, <1>6, <2>1
  <1>9. ASSUME NEW d \in Centrals PROVE Ends(Q, peers, down, link, d)
    <2>1. CASE d = c
      BY <1>2, <1>4, <1>6, <2>1 DEF Ends
    <2>2. CASE d # c
      BY <1>2, <2>2 DEF Ends
    <2>. QED
      BY <2>1, <2>2
  <1>. QED
    BY <1>7, <1>8, <1>9, FreedStep

LEMMA LinkDownPaired ==
    ASSUME IInv, Paired(peers, Air(inbox), link, nextKey), NEW c \in Centrals, LinkDown(c)
    PROVE  PairedNext(nextKey')
  <1>. DEFINE own == FreePeer(peers[c], 0)
  <1>1. link[c].handle = 0
    BY HandlesZero
  <1>2. IsTable(c, peers[c]) /\ c # Hub /\ c \in Nodes /\ DOMAIN peers = Nodes
    BY HubIsNode, PeerAssumption DEF IInv, Tables
  <1>3. /\ peers' = [peers EXCEPT ![Hub] = FreePeer(@, link[c].hub_handle), ![c] = own]
        /\ link' = [link EXCEPT ![c].stage = "down"] /\ inbox' = inbox /\ nextKey' = nextKey
    BY <1>1, <1>2 DEF LinkDown, Down
  <1>4. Freed(own, peers[c]) /\ Cleared(own, peers[c], 0)
    BY <1>2, FreeClears DEF Cleared
  <1>. HIDE DEF own
  <1>5. PairedNext(nextKey)
    BY <1>3, <1>4, BothEnd
  <1>. QED
    BY <1>3, <1>5

\* Of a central's slots _find_peer returns the one with the client, and then the
\* connection ends; the Hub only clears the slot.
LEMMA TimeoutPaired ==
    ASSUME IInv, Paired(peers, Air(inbox), link, nextKey),
           NEW n \in Nodes, NEW s \in Slots, HandshakeTimeout(n, s)
    PROVE  PairedNext(nextKey')
  <1>. DEFINE g == peers[n][s].handle
              once == FreePeer(peers[n], g)
              twice == FreePeer(once, g)
              found == FindPeer(peers[n], g)
              ends == peers[n][found].client /\ link[n].stage # "down"
              air == Air(inbox)
  <1>1. /\ peers[n][s].active /\ inbox' = inbox /\ nextKey' = nextKey
        /\ IF ends
           THEN /\ peers' = [peers EXCEPT ![n] = FreePeer(FreePeer(@, g), g),
                                          ![Hub] = FreePeer(@, link[n].hub_handle)]
                /\ link' = Down(n)
           ELSE /\ peers' = [peers EXCEPT ![n] = FreePeer(@, g)]
                /\ link' = link
    BY DEF HandshakeTimeout
  <1>2. IsTable(n, peers[n]) /\ link \in LinkType /\ DOMAIN peers = Nodes
    BY DEF IInv, Tables
  <1>3. found \in Slots
    <2>1. ~Vacant(peers[n], g)
      BY <1>1 DEF Vacant
    <2>. HIDE DEF g
    <2>. QED
      BY <2>1, FindFirst
  <1>. HIDE DEF found
  <1>4. IsTable(n, once) /\ Freed(once, peers[n]) /\ Cleared(once, peers[n], g)
    <2>. HIDE DEF g
    <2>1. IsTable(n, once)
      BY <1>2, FreeIs
    <2>. QED
      BY <1>2, <2>1, FreeClears DEF Cleared
  <1>5. Freed(twice, peers[n]) /\ Cleared(twice, peers[n], g)
    <2>. HIDE DEF once, g
    <2>1. Freed(twice, once)
      BY <1>4, FreeClears
    <2>2. Freed(twice, peers[n])
      BY <1>4, <2>1, FreedTwice
    <2>3. ASSUME NEW x \in Slots, FirstAt(peers[n], x, g) PROVE twice[x] = FreeSlot
      BY <1>4, <2>1, <2>3 DEF Freed, Cleared
    <2>. QED
      BY <2>2, <2>3 DEF Cleared
  <1>6. CASE ends
    <2>1. n \in Centrals /\ n # Hub
      BY <1>2, <1>3, <1>6, PeerAssumption DEF IsTable, IsPeer
    <2>2. g = 0
      BY <2>1 DEF Paired, CentralFrame
    <2>3. /\ peers' = [peers EXCEPT ![Hub] = FreePeer(@, link[n].hub_handle), ![n] = twice]
          /\ link' = [link EXCEPT ![n].stage = "down"]
      <3>. DEFINE left == FreePeer(peers[Hub], link[n].hub_handle)
      <3>1. peers' = [peers EXCEPT ![n] = twice, ![Hub] = left] /\ link' = Down(n)
        BY <1>1, <1>2, <1>6, <2>1
      <3>2. [peers EXCEPT ![Hub] = FreePeer(@, link[n].hub_handle), ![n] = twice]
              = [peers EXCEPT ![Hub] = left, ![n] = twice]
        OBVIOUS
      <3>. HIDE DEF left, twice
      <3>3. [peers EXCEPT ![n] = twice, ![Hub] = left] = [peers EXCEPT ![Hub] = left, ![n] = twice]
        BY <2>1
      <3>. QED
        BY <3>1, <3>2, <3>3 DEF Down
    <2>4. Cleared(twice, peers[n], 0)
      BY <1>5, <2>2
    <2>. HIDE DEF twice
    <2>5. PairedNext(nextKey)
      BY <1>1, <1>5, <2>1, <2>3, <2>4, BothEnd
    <2>. QED
      BY <1>1, <2>5
  <1>7. CASE ~ends
    <2>1. peers' = [peers EXCEPT ![n] = once] /\ link' = link
      BY <1>1, <1>7
    <2>. HIDE DEF once, air
    <2>. SUFFICES ASSUME NEW Q, Q = peers' PROVE Paired(Q, air, link, nextKey)
      BY <1>1, <2>1 DEF PairedNext, air
    <2>2. Q[n] = once /\ \A m \in Nodes \ {n} : Q[m] = peers[m]
      BY <1>2, <2>1
    <2>3. \A m \in Nodes : Freed(Q[m], peers[m])
      BY <1>4, <2>2 DEF Freed
    <2>4. Paired(peers, air, link, nextKey)
      BY DEF air
    <2>5. \A d \in Centrals : Ends(Q, peers, link, link, d)
      BY DEF Ends
    <2>. QED
      BY <2>3, <2>4, <2>5, FreedStep
  <1>. QED
    BY <1>6, <1>7

-----------------------------------------------------------------------------
(* Steps that make and end no connection                                    *)

\* Slots keep their places and handshakes, and no handshake packet is new.
LEMMA CalmPaired ==
    ASSUME Paired(peers, Air(inbox), link, nextKey), link' = link,
           \A m \in Nodes : \A t \in Slots : Framed(peers'[m][t], peers[m][t]),
           \A m \in Nodes : \A t \in Slots : Calm(peers'[m][t].hs, peers[m][t].hs),
           \A m \in Nodes : \A y \in Air(inbox')[m] : y \in Air(inbox)[m] \/ Plain(m, y)
    PROVE  PairedNext(nextKey)
  <1>. DEFINE air == Air(inbox)
              later == Air(inbox')
  <1>1. Paired(peers, air, link, nextKey)
    OBVIOUS
  <1>2. \A m \in Nodes : \A y \in later[m] : y \in air[m] \/ Plain(m, y)
    OBVIOUS
  <1>. HIDE DEF air, later
  <1>. SUFFICES ASSUME NEW Q, Q = peers' PROVE Paired(Q, later, link, nextKey)
    BY DEF PairedNext, later
  <1>3. /\ \A m \in Nodes : \A t \in Slots : Framed(Q[m][t], peers[m][t])
        /\ \A m \in Nodes : \A t \in Slots : Calm(Q[m][t].hs, peers[m][t].hs)
    OBVIOUS
  <1>. QED
    BY <1>1, <1>2, <1>3, FramedStep

LEMMA StillPaired ==
    ASSUME Paired(peers, Air(inbox), link, nextKey), link' = link, peers' = peers,
           \A m \in Nodes : \A y \in Air(inbox')[m] : y \in Air(inbox)[m] \/ Plain(m, y)
    PROVE  PairedNext(nextKey)
  <1>1. \A m \in Nodes : \A t \in Slots : Framed(peers'[m][t], peers[m][t])
    BY DEF Framed
  <1>2. \A m \in Nodes : \A t \in Slots : Calm(peers'[m][t].hs, peers[m][t].hs)
    BY DEF Calm
  <1>. QED
    BY <1>1, <1>2, CalmPaired

LEMMA BroadcastPaired ==
    ASSUME IInv, Paired(peers, Air(inbox), link, nextKey), NEW n \in Nodes,
           NEW slots, slots \subseteq Slots, NEW pkt, IsPacket(pkt), pkt.type # "HANDSHAKE",
           inbox' = SendToPeers(link, n, ToAll(peers[n], slots, pkt), inbox),
           peers' = peers, link' = link
    PROVE  PairedNext(nextKey)
  <1>. DEFINE list == ToAll(peers[n], slots, pkt)
  <1>1. IsTable(n, peers[n]) /\ link \in LinkType /\ \A c \in Centrals : link[c].handle = 0
    BY HandlesZero DEF IInv, Tables
  <1>2. Sends(n, list)
    BY <1>1, ToAllSends
  <1>3. Shakes(list, {})
    BY ToAllShakes
  <1>. HIDE DEF list
  <1>4. ASSUME NEW m \in Nodes, NEW y \in Air(inbox')[m] PROVE y \in Air(inbox)[m] \/ Plain(m, y)
    <2>1. y \in Air(SendToPeers(link, n, list, inbox))[m]
      BY DEF list
    <2>. QED
      BY <1>1, <1>2, <1>3, <2>1, SendsPlain
  <1>. QED
    BY <1>4, StillPaired

LEMMA ReannouncePaired ==
    ASSUME IInv, Paired(peers, Air(inbox), link, nextKey), NEW n \in Nodes, Reannounce(n)
    PROVE  PairedNext(nextKey')
  <1>. DEFINE slots == {s \in Active(peers[n]) : peers[n][s].announce_sent}
  <1>1. /\ inbox' = SendToPeers(link, n, ToAll(peers[n], slots, Announce(n)), inbox)
        /\ peers' = peers /\ link' = link /\ nextKey' = nextKey
    BY DEF Reannounce
  <1>2. slots \subseteq Slots /\ IsPacket(Announce(n)) /\ Announce(n).type # "HANDSHAKE"
    BY PacketIs, TypesOfPackets DEF Active, Announce
  <1>. HIDE DEF slots
  <1>3. PairedNext(nextKey)
    BY <1>1, <1>2, BroadcastPaired
  <1>. QED
    BY <1>1, <1>3

LEMMA AnnounceVirtualPaired ==
    ASSUME IInv, Paired(peers, Air(inbox), link, nextKey), AnnounceVirtual
    PROVE  PairedNext(nextKey')
  <1>1. /\ inbox' = SendToPeers(link, Hub, ToAll(peers[Hub], Active(peers[Hub]), Announce(Virtual)), inbox)
        /\ peers' = peers /\ link' = link /\ nextKey' = nextKey
    BY DEF AnnounceVirtual
  <1>2. /\ Active(peers[Hub]) \subseteq Slots /\ IsPacket(Announce(Virtual)) /\ Hub \in Nodes
        /\ Announce(Virtual).type # "HANDSHAKE"
    BY PacketIs, HubIsNode, TypesOfPackets DEF Active, Announce
  <1>3. PairedNext(nextKey)
    BY <1>1, <1>2, BroadcastPaired
  <1>. QED
    BY <1>1, <1>3

LEMMA SendTextAsPaired ==
    ASSUME IInv, Paired(peers, Air(inbox), link, nextKey), SendTextAs
    PROVE  PairedNext(nextKey')
  <1>. DEFINE pkt == Packet("MESSAGE", Virtual)
  <1>1. /\ inbox' = SendToPeers(link, Hub, ToAll(peers[Hub], Active(peers[Hub]), pkt), inbox)
        /\ peers' = peers /\ link' = link /\ nextKey' = nextKey
    BY DEF SendTextAs
  <1>2. Active(peers[Hub]) \subseteq Slots /\ IsPacket(pkt) /\ Hub \in Nodes /\ pkt.type # "HANDSHAKE"
    BY PacketIs, HubIsNode, TypesOfPackets DEF Active
  <1>. HIDE DEF pkt
  <1>3. PairedNext(nextKey)
    BY <1>1, <1>2, BroadcastPaired
  <1>. QED
    BY <1>1, <1>3

LEMMA RequestSyncPaired ==
    ASSUME IInv, Paired(peers, Air(inbox), link, nextKey), NEW c \in Centrals, RequestSync(c)
    PROVE  PairedNext(nextKey')
  <1>. DEFINE box == inbox[Hub]
              asked == [handle |-> link[c].hub_handle, pkt |-> Packet("REQUEST_SYNC", c)]
              more == Append(box, asked)
  <1>1. /\ inbox' = [inbox EXCEPT ![Hub] = more]
        /\ peers' = peers /\ link' = link /\ nextKey' = nextKey
    BY DEF RequestSync
  <1>2. Hub \in Nodes /\ Hub \notin Centrals /\ IsBox(box) /\ DOMAIN inbox = Nodes
    BY HubIsNode, PeerAssumption DEF IInv, Boxes
  <1>3. Plain(Hub, asked)
    BY <1>2, TypesOfPackets DEF Plain, Shake
  <1>4. PICK S : box \in Seq(S)
    BY <1>2 DEF IsBox, IsSeq
  <1>. HIDE DEF asked, box
  <1>5. box \in Seq(S \cup {asked}) /\ asked \in S \cup {asked}
    BY <1>4
  <1>6. /\ Len(box) \in Nat /\ DOMAIN more = 1 .. Len(box) + 1 /\ DOMAIN box = 1 .. Len(box)
        /\ more[Len(box) + 1] = asked /\ \A i \in 1 .. Len(box) : more[i] = box[i]
    BY <1>5
  <1>. HIDE DEF more
  <1>7. \A i \in DOMAIN more : more[i] = asked \/ (i \in DOMAIN box /\ more[i] = box[i])
    BY <1>6
  <1>8. ASSUME NEW m \in Nodes, NEW y \in Air(inbox')[m] PROVE y \in Air(inbox)[m] \/ Plain(m, y)
    <2>1. y \in Entries(inbox'[m]) /\ Air(inbox)[m] = Entries(inbox[m])
      BY DEF Air
    <2>2. CASE m = Hub
      BY <1>1, <1>2, <1>3, <1>7, <2>1, <2>2 DEF Entries, box
    <2>3. CASE m # Hub
      BY <1>1, <1>2, <2>1, <2>3
    <2>. QED
      BY <2>2, <2>3
  <1>9. PairedNext(nextKey)
    BY <1>1, <1>8, StillPaired
  <1>. QED
    BY <1>1, <1>9

LEMMA LosePaired ==
    ASSUME IInv, Paired(peers, Air(inbox), link, nextKey), NEW n \in Nodes, Lose(n)
    PROVE  PairedNext(nextKey')
  <1>. DEFINE box == inbox[n]
  <1>1. PICK k \in DOMAIN box : inbox' = [inbox EXCEPT ![n] = SubSeq(@, 1, k - 1) \o SubSeq(@, k + 1, Len(@))]
    BY DEF Lose
  <1>2. /\ peers' = peers /\ link' = link /\ nextKey' = nextKey
    BY DEF Lose
  <1>. DEFINE front == SubSeq(box, 1, k - 1)
              back == SubSeq(box, k + 1, Len(box))
              less == front \o back
  <1>3. inbox' = [inbox EXCEPT ![n] = less] /\ IsBox(box) /\ DOMAIN inbox = Nodes
    BY <1>1 DEF IInv, Boxes
  <1>4. PICK S : box \in Seq(S)
    BY <1>3 DEF IsBox, IsSeq
  <1>. HIDE DEF box
  <1>5. Len(box) \in Nat /\ k \in 1 .. Len(box) /\ DOMAIN box = 1 .. Len(box)
    BY <1>4
  <1>6. /\ front \in Seq(S) /\ DOMAIN front = 1 .. k - 1
        /\ \A j \in 1 .. k - 1 : front[j] = box[j] /\ j \in DOMAIN box
    BY <1>4, <1>5
  <1>7. /\ back \in Seq(S) /\ DOMAIN back = 1 .. Len(box) - k
        /\ \A j \in 1 .. Len(box) - k : back[j] = box[k + j] /\ k + j \in DOMAIN box
    <2>1. back \in Seq(S)
      BY <1>4, <1>5
    <2>2. DOMAIN back = 1 .. Len(box) - k
      BY <1>4, <1>5
    <2>3. \A j \in 1 .. Len(box) - k : back[j] = box[k + 1 + j - 1]
      BY <1>4, <1>5
    <2>4. \A j \in 1 .. Len(box) - k : k + 1 + j - 1 = k + j /\ k + j \in 1 .. Len(box)
      BY <1>5
    <2>. HIDE DEF back
    <2>. QED
      BY <1>5, <2>1, <2>2, <2>3, <2>4
  <1>. HIDE DEF front, back
  <1>8. \A j \in DOMAIN less : \/ j \in DOMAIN front /\ less[j] = front[j]
                               \/ j - Len(front) \in DOMAIN back /\ less[j] = back[j - Len(front)]
    BY <1>6, <1>7, ConcatSeq DEF IsSeq
  <1>. HIDE DEF less
  <1>9. Entries(less) \subseteq Entries(box)
    <2>1. \A j \in DOMAIN front : front[j] \in Entries(box)
      BY <1>6 DEF Entries
    <2>2. \A j \in DOMAIN back : back[j] \in Entries(box)
      BY <1>7 DEF Entries
    <2>. QED
      BY <1>8, <2>1, <2>2 DEF Entries
  <1>10. ASSUME NEW m \in Nodes, NEW y \in Air(inbox')[m] PROVE y \in Air(inbox)[m] \/ Plain(m, y)
    <2>1. y \in Entries(inbox'[m]) /\ Air(inbox)[m] = Entries(inbox[m])
      BY DEF Air
    <2>2. inbox'[m] = IF m = n THEN less ELSE inbox[m]
      BY <1>3
    <2>. QED
      BY <1>9, <2>1, <2>2 DEF box
  <1>11. PairedNext(nextKey)
    BY <1>2, <1>10, StillPaired
  <1>. QED
    BY <1>2, <1>11

\* send_text: nonces advance, and what is sent is encrypted or a message.
LEMMA SendTextPaired ==
    ASSUME IInv, Paired(peers, Air(inbox), link, nextKey), NEW n \in Nodes, SendText(n)
    PROVE  PairedNext(nextKey')
  <1>. DEFINE table == peers[n]
              id == events["text"] + 1
              pt(p) == [kind |-> "PRIVATE_MSG", id |-> id, from |-> n, to |-> p.hs.rs]
              pkts == [s \in Slots |-> IF table[s].hs.phase = "TRANSPORT"
                                       THEN Encrypted(n, CipherText(table[s].hs.send_cs, pt(table[s])))
                                       ELSE Packet("MESSAGE", n)]
              after == [s \in Slots |-> IF table[s].active /\ table[s].hs.phase = "TRANSPORT"
                                      THEN Advanced(table[s]) ELSE table[s]]
              list == ToEach(table, Active(table), pkts)
  <1>1. /\ peers' = [peers EXCEPT ![n] = after]
        /\ inbox' = SendToPeers(link, n, list, inbox)
        /\ link' = link /\ nextKey' = nextKey
    BY DEF SendText
  <1>2. /\ IsTable(n, table) /\ link \in LinkType /\ DOMAIN peers = Nodes
        /\ \A c \in Centrals : link[c].handle = 0
    BY HandlesZero DEF IInv, Tables
  <1>. HIDE DEF id
  <1>3. ASSUME NEW s \in Slots
        PROVE  Framed(after[s], table[s]) /\ Calm(after[s].hs, table[s].hs)
    <2>. DEFINE entry == table[s]
    <2>1. IsPeer(n, entry)
      BY <1>2 DEF IsTable
    <2>2. after[s] \in {Advanced(entry), entry}
      OBVIOUS
    <2>. HIDE DEF entry, after
    <2>3. Framed(Advanced(entry), entry) /\ Calm(Advanced(entry).hs, entry.hs)
      BY <2>1, AdvancedCalm
    <2>4. Framed(entry, entry) /\ Calm(entry.hs, entry.hs)
      BY DEF Framed, Calm
    <2>5. Framed(after[s], entry) /\ Calm(after[s].hs, entry.hs)
      BY <2>2, <2>3, <2>4
    <2>. QED
      BY <2>5 DEF entry
  <1>. HIDE DEF after
  <1>4. ASSUME NEW s \in Slots PROVE IsPacket(pkts[s]) /\ pkts[s].type # "HANDSHAKE"
    <2>. DEFINE entry == table[s]
                plain == pt(entry)
    <2>1. Shape(n, entry.hs)
      BY <1>2 DEF IsTable, IsPeer
    <2>2. DOMAIN plain = PlainFields /\ plain.from = n /\ plain.to = entry.hs.rs
      BY DEF PlainFields
    <2>3. pkts[s] = IF entry.hs.phase = "TRANSPORT"
                    THEN Encrypted(n, CipherText(entry.hs.send_cs, plain)) ELSE Packet("MESSAGE", n)
      OBVIOUS
    <2>. HIDE DEF entry, plain, pkts
    <2>4. CASE entry.hs.phase = "TRANSPORT"
      <3>1. Sealed(CipherText(entry.hs.send_cs, plain))
        BY <2>1, <2>2, <2>4, SessionSeals
      <3>2. IsPacket(pkts[s])
        BY <2>3, <2>4, <3>1, EncryptedIs
      <3>. QED
        BY <2>3, <2>4, <3>2, TypesOfPackets
    <2>5. CASE entry.hs.phase # "TRANSPORT"
      <3>1. IsPacket(Packet("MESSAGE", n)) /\ Packet("MESSAGE", n).type = "MESSAGE"
        BY PacketIs, TypesOfPackets
      <3>. QED
        BY <2>3, <2>5, <3>1
    <2>. QED
      BY <2>4, <2>5
  <1>. HIDE DEF pkts
  <1>5. Active(table) \subseteq Slots
    BY DEF Active
  <1>. HIDE DEF table
  <1>6. Sends(n, list) /\ Shakes(list, {})
    <2>1. Sends(n, list)
      BY <1>2, <1>4, <1>5, ToEachSends
    <2>2. Shakes(list, {})
      BY <1>4, <1>5, ToEachShakes
    <2>. QED
      BY <2>1, <2>2
  <1>. HIDE DEF list
  <1>7. ASSUME NEW m \in Nodes, NEW y \in Air(inbox')[m] PROVE y \in Air(inbox)[m] \/ Plain(m, y)
    <2>1. y \in Air(SendToPeers(link, n, list, inbox))[m]
      BY <1>1
    <2>. QED
      BY <1>2, <1>6, <2>1, SendsPlain
  <1>8. ASSUME NEW m \in Nodes, NEW t \in Slots
        PROVE  Framed(peers'[m][t], peers[m][t]) /\ Calm(peers'[m][t].hs, peers[m][t].hs)
    <2>1. CASE m = n
      BY <1>1, <1>2, <1>3, <2>1 DEF table
    <2>2. CASE m # n
      <3>1. peers'[m][t] = peers[m][t]
        BY <1>1, <1>2, <2>2
      <3>. QED
        BY <3>1 DEF Framed, Calm
    <2>. QED
      BY <2>1, <2>2
  <1>9. PairedNext(nextKey)
    BY <1>1, <1>7, <1>8, CalmPaired
  <1>. QED
    BY <1>1, <1>9

-----------------------------------------------------------------------------
(* Sessions and connections: the invariant                                  *)

SInv == IInv /\ Paired(peers, Air(inbox), link, nextKey)

LEMMA InitSInv == Init => SInv
  <1>. SUFFICES ASSUME Init PROVE Paired(peers, Air(inbox), link, nextKey)
    BY InitIInv DEF SInv
  <1>1. \A n \in Nodes : \A s \in Slots : peers[n][s] = FreeSlot
    BY DEF Init
  <1>2. \A m \in Nodes : Air(inbox)[m] = {}
    BY DEF Init, Air, Entries
  <1>3. \A c \in Centrals : link[c].handle = 0
    BY DEF Init
  <1>4. Hub \in Nodes /\ Centrals \subseteq Nodes
    BY HubIsNode
  <1>5. /\ \A c \in Centrals : \A s \in Slots : CentralFrame(peers, link, c, s)
        /\ \A c \in Centrals : \A s \in Slots : CentralHs(peers[c][s])
    BY <1>1, <1>4, FreeSlotFields DEF CentralFrame, CentralHs
  <1>6. /\ \A x \in Slots : HubHs(peers, link, nextKey, x)
        /\ \A x \in Slots : \A c \in Centrals : \A s \in Slots : Answering(peers, link, x, c, s)
    BY <1>1, <1>4, FreeSlotFields DEF HubHs, Answering
  <1>. QED
    BY <1>2, <1>3, <1>4, <1>5, <1>6 DEF Paired

LEMMA NextSInv == SInv /\ [Next]_vars => SInv'
  <1>. SUFFICES ASSUME IInv, Paired(peers, Air(inbox), link, nextKey), [Next]_vars
                PROVE  SInv'
    BY DEF SInv
  <1>. SUFFICES PairedNext(nextKey')
    BY NextIInv DEF SInv, PairedNext, Air, Paired
  <1>1. ASSUME NEW c \in Centrals, Connections(c) \/ RequestSync(c) PROVE PairedNext(nextKey')
    BY <1>1, LinkUpPaired, SubscribePaired, LinkDownPaired, RequestSyncPaired DEF Connections
  <1>2. ASSUME NEW n \in Nodes, Incoming(n) PROVE PairedNext(nextKey')
    BY <1>2, IncomingPaired
  <1>3. ASSUME NEW n \in Nodes, Lose(n) PROVE PairedNext(nextKey')
    BY <1>3, LosePaired
  <1>4. ASSUME NEW n \in Nodes, NEW s \in Slots, HandshakeTimeout(n, s) PROVE PairedNext(nextKey')
    BY <1>4, TimeoutPaired
  <1>5. ASSUME NEW n \in Nodes, Reannounce(n) PROVE PairedNext(nextKey')
    BY <1>5, ReannouncePaired
  <1>6. ASSUME NEW n \in Nodes, SendText(n) PROVE PairedNext(nextKey')
    BY <1>6, SendTextPaired
  <1>7. CASE AnnounceVirtual
    BY <1>7, AnnounceVirtualPaired
  <1>8. CASE SendTextAs
    BY <1>8, SendTextAsPaired
  <1>9. CASE UNCHANGED vars
    BY <1>9 DEF vars, PairedNext
  <1>. QED
    BY <1>1, <1>2, <1>3, <1>4, <1>5, <1>6, <1>7, <1>8, <1>9 DEF Next

\* A session is with the device at the other end of a connection that is up,
\* although packets outlive their connection in the ring, the controller gives
\* handles out again, and a late packet gets a slot of its own: the callbacks
\* free both slots of a connection, notifications go to every subscriber but
\* noise_hs_read_msg2_write_msg3 opens only an answer to its own key, and that key
\* left the central on its connection's handle alone.
THEOREM PeerSessionOfConnection == Spec => []SessionOfConnection
  <1>1. SInv => SessionOfConnection
    <2>. SUFFICES ASSUME IInv, Paired(peers, Air(inbox), link, nextKey),
                         NEW n \in Nodes, NEW s \in Slots, peers[n][s].hs.phase = "TRANSPORT"
                  PROVE  IF n = Hub
                         THEN \E c \in Centrals : /\ link[c].stage # "down"
                                                  /\ link[c].hub_handle = peers[n][s].handle
                                                  /\ peers[n][s].hs.rs = Static(c)
                         ELSE link[n].stage # "down" /\ peers[n][s].hs.rs = Static(Hub)
      BY DEF SInv, SessionOfConnection, Sessions
    <2>1. CASE n = Hub
      BY <2>1 DEF Paired, HubHs, Serves, FirstAt
    <2>2. CASE n # Hub
      <3>1. n \in Centrals
        BY <2>2 DEF Nodes
      <3>. QED
        BY <2>2, <3>1 DEF Paired, CentralHs, CentralFrame
    <2>. QED
      BY <2>1, <2>2
  <1>2. Spec => []SInv
    BY InitSInv, NextSInv, PTL DEF Spec
  <1>. QED
    BY <1>1, <1>2, PTL
=============================================================================
