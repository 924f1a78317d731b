--------------------------- MODULE MeshLinkProofs ---------------------------
(***************************************************************************)
(* Proofs about MeshLink, for every value of its constants: no frame mixes  *)
(* two sessions, and the radio is told the bridge's NodeInfo by the second  *)
(* pass through _mesh.loop() of every session.                              *)
(***************************************************************************)
EXTENDS MeshLink, TLAPS

\* While connect() runs the bridge counts the link as down, and the session
\* that connect() opens has not been through _mesh.loop().
ConnectStartsOver ==
    /\ phase \in {"begin", "begin_handshake", "retry", "retry_handshake"} => ~was
    /\ phase \in {"begin", "retry"} => ~IsConnected
    /\ InHandshake => loops = 0

\* A session that is up and has been through _mesh.loop() has been seen by the
\* reconnect phase, unless that phase comes next for the first time.
SeenAfterLoop ==
    IsConnected /\ loops > 0 => was \/ (phase = "reconnect" /\ loops = 1)

\* A session that is up and has been seen has been told, or will be by the
\* next pass through _mesh.loop().
SeenIsPublished ==
    IsConnected /\ was => told \/ (info.named /\ info.pending)

\* ... and by the second pass it has been told.
IInv ==
    /\ TypeOK
    /\ FramesAreOfOneSession
    /\ ConnectStartsOver
    /\ SeenAfterLoop
    /\ SeenIsPublished
    /\ NodeInfoPrompt

\* The session, the parser and the bookkeeping of connect(), as one formula.
Control == FramesAreOfOneSession /\ ConnectStartsOver /\ SeenAfterLoop
               /\ SeenIsPublished /\ NodeInfoPrompt

LEMMA InitIInv == ASSUME Init PROVE IInv
  <1>1. TypeOK
    <2>1. millis \in Nat /\ radio \in {"up", "mute", "down"}
      BY LinkAssumption DEF Init
    <2>2. retry \in [at : Nat, interval : Nat]
      BY LinkAssumption DEF Init
    <2>3. sock \in BOOLEAN /\ connected \in BOOLEAN /\ configured \in BOOLEAN
      BY DEF Init
    <2>4. was \in BOOLEAN /\ told \in BOOLEAN
      BY DEF Init
    <2> QED
      BY <2>1, <2>2, <2>3, <2>4 DEF Init, TypeOK
  <1>2. Control
    BY DEF Init, Control, FramesAreOfOneSession, ConnectStartsOver, SeenAfterLoop,
           SeenIsPublished, NodeInfoPrompt, IsConnected, InHandshake
  <1> QED
    BY <1>1, <1>2 DEF IInv, Control

LEMMA ClockTicks ==
    ASSUME TypeOK
    PROVE  (millis + 1) % CLOCK_MOD \in Nat
  BY LinkAssumption DEF TypeOK

LEMMA ReadsTyped ==
    ASSUME TypeOK, Reads
    PROVE  parser' \in [mid : BOOLEAN, of : {0, 1}]
  <1>1. [mid |-> FALSE, of |-> 0] \in [mid : BOOLEAN, of : {0, 1}]
    OBVIOUS
  <1>2. [mid |-> TRUE, of |-> session] \in [mid : BOOLEAN, of : {0, 1}]
    BY DEF TypeOK
  <1>3. parser \in [mid : BOOLEAN, of : {0, 1}]
    BY DEF TypeOK
  <1> QED
    BY <1>1, <1>2, <1>3, Zenon DEF Reads

\* Each action preserves the types.  Only the fields an action assigns matter.
LEMMA NextTypeOK == ASSUME TypeOK, [Next]_vars PROVE TypeOK'
  <1> USE DEF TypeOK, link
  <1>1. CASE BeginFails
    BY <1>1, LinkAssumption, ClockTicks DEF BeginFails
  <1>2. CASE ConnectRefused
    BY <1>2, LinkAssumption, ClockTicks DEF ConnectRefused, Return, Backoff
  <1>3. CASE ConnectOpens
    <2>1. sock' \in BOOLEAN /\ connected' \in BOOLEAN /\ configured' \in BOOLEAN
      BY <1>3 DEF ConnectOpens
    <2>2. parser' \in [mid : BOOLEAN, of : {0, 1}]
      BY <1>3 DEF ConnectOpens, ResetParser
    <2>3. session' \in {0, 1}
      BY <1>3 DEF ConnectOpens
    <2>4. told' \in BOOLEAN
      BY <1>3 DEF ConnectOpens
    <2> QED
      BY <1>3, <2>1, <2>2, <2>3, <2>4, ClockTicks DEF ConnectOpens
  <1>4. CASE HandshakeWaits
    <2>1. parser' \in [mid : BOOLEAN, of : {0, 1}]
      BY <1>4, ReadsTyped DEF HandshakeWaits
    <2> QED
      BY <1>4, <2>1, ClockTicks DEF HandshakeWaits
  <1>5. CASE HandshakeDone
    BY <1>5, LinkAssumption, ClockTicks DEF HandshakeDone, Return, Backoff, Caller
  <1>6. CASE HandshakeTimeout
    <2>1. sock' \in BOOLEAN /\ connected' \in BOOLEAN /\ configured' \in BOOLEAN
      BY <1>6 DEF HandshakeTimeout
    <2>2. retry' \in [at : Nat, interval : Nat]
      BY <1>6, LinkAssumption DEF HandshakeTimeout, Return, Backoff, Caller
    <2> QED
      BY <1>6, <2>1, <2>2, ClockTicks DEF HandshakeTimeout, Return
  <1>7. CASE MeshIdle
    BY <1>7, LinkAssumption, ClockTicks DEF MeshIdle
  <1>8. CASE MeshLost
    BY <1>8, LinkAssumption, ClockTicks DEF MeshLost, ResetParser
  <1>9. CASE MeshReads
    <2>1. parser' \in [mid : BOOLEAN, of : {0, 1}]
      BY <1>9, ReadsTyped DEF MeshReads
    <2> QED
      BY <1>9, <2>1, ClockTicks DEF MeshReads
  <1>10. CASE MeshSends
    <2>1. told' \in BOOLEAN
      BY <1>10 DEF MeshSends
    <2>2. info' \in [named : BOOLEAN, pending : BOOLEAN, at : Nat]
      BY <1>10 DEF MeshSends
    <2>3. loops' \in 0 .. 2 /\ beat' \in Nat
      BY <1>10 DEF MeshSends
    <2> QED
      BY <1>10, <2>1, <2>2, <2>3, ClockTicks DEF MeshSends
  <1>11. CASE ReconnectWaits
    <2>1. was' \in BOOLEAN
      BY <1>11 DEF ReconnectWaits, SeenDown
    <2> QED
      BY <1>11, <2>1 DEF ReconnectWaits
  <1>12. CASE ReconnectTries
    <2>1. was' \in BOOLEAN
      BY <1>12 DEF ReconnectTries, SeenDown
    <2>2. retry' \in [at : Nat, interval : Nat]
      BY <1>12 DEF ReconnectTries
    <2> QED
      BY <1>12, <2>1, <2>2 DEF ReconnectTries
  <1>13. CASE LinkIsUp
    BY <1>13, LinkAssumption, ClockTicks DEF LinkIsUp
  <1>14. CASE Delay
    BY <1>14, LinkAssumption, ClockTicks DEF Delay
  <1>15. CASE DelayTicks
    BY <1>15, LinkAssumption, ClockTicks DEF DelayTicks
  <1>16. CASE SocketDrops
    <2>1. sock' \in BOOLEAN
      BY <1>16 DEF SocketDrops
    <2> QED
      BY <1>16, <2>1 DEF SocketDrops
  <1>17. CASE RadioChanges
    BY <1>17, LinkAssumption, ClockTicks DEF RadioChanges
  <1>18. CASE UNCHANGED vars
    BY <1>18 DEF vars
  <1> QED
    BY <1>1, <1>2, <1>3, <1>4, <1>5, <1>6, <1>7, <1>8, <1>9, <1>10, <1>11, <1>12, <1>13, <1>14, <1>15, <1>16, <1>17, <1>18
    DEF Next, Task, Connect, MeshLoop, Reconnect

LEMMA NextControl == ASSUME IInv, [Next]_vars PROVE Control'
  <1> USE DEF IInv, TypeOK, Control, FramesAreOfOneSession, ConnectStartsOver,
              SeenAfterLoop, SeenIsPublished, NodeInfoPrompt, IsConnected,
              InHandshake, link
  <1>1. CASE BeginFails
    BY <1>1 DEF BeginFails
  <1>2. CASE ConnectRefused
    BY <1>2 DEF ConnectRefused, Return
  <1>3. CASE ConnectOpens
    BY <1>3 DEF ConnectOpens, ResetParser
  <1>4. CASE HandshakeWaits
    BY <1>4 DEF HandshakeWaits, Reads
  <1>5. CASE HandshakeDone
    BY <1>5 DEF HandshakeDone, Return, Caller
  <1>6. CASE HandshakeTimeout
    BY <1>6 DEF HandshakeTimeout, Return, Caller
  <1>7. CASE MeshIdle
    BY <1>7 DEF MeshIdle
  <1>8. CASE MeshLost
    BY <1>8 DEF MeshLost, ResetParser
  <1>9. CASE MeshReads
    BY <1>9 DEF MeshReads, Reads
  <1>10. CASE MeshSends
    BY <1>10 DEF MeshSends
  <1>11. CASE ReconnectWaits
    BY <1>11 DEF ReconnectWaits, SeenDown
  <1>12. CASE ReconnectTries
    BY <1>12 DEF ReconnectTries, SeenDown
  <1>13. CASE LinkIsUp
    BY <1>13 DEF LinkIsUp
  <1>14. CASE Delay
    BY <1>14 DEF Delay
  <1>15. CASE DelayTicks
    BY <1>15 DEF DelayTicks
  <1>16. CASE SocketDrops
    BY <1>16 DEF SocketDrops
  <1>17. CASE RadioChanges
    BY <1>17 DEF RadioChanges
  <1>18. CASE UNCHANGED vars
    BY <1>18 DEF vars
  <1> QED
    BY <1>1, <1>2, <1>3, <1>4, <1>5, <1>6, <1>7, <1>8, <1>9, <1>10, <1>11, <1>12, <1>13, <1>14, <1>15, <1>16, <1>17, <1>18
    DEF Next, Task, Connect, MeshLoop, Reconnect

LEMMA LinkCorrect == Spec => []IInv
  <1>1. Init => IInv
    BY InitIInv
  <1>2. IInv /\ [Next]_vars => IInv'
    BY NextTypeOK, NextControl DEF IInv, Control
  <1> QED
    BY <1>1, <1>2, PTL DEF Spec

-----------------------------------------------------------------------------

\* Whatever the radio and the network do, no frame that _handle_from_radio gets
\* is put together from the bytes of two TCP sessions.
THEOREM LinkFramesWhole == Spec => []FramesAreOfOneSession
  <1>1. IInv => FramesAreOfOneSession
    BY DEF IInv
  <1> QED
    BY <1>1, LinkCorrect, PTL

\* Whatever the radio and the network do, a session that is up after its second
\* pass through _mesh.loop() has been sent the bridge's NodeInfo.
THEOREM LinkNodeInfoPrompt == Spec => []NodeInfoPrompt
  <1>1. IInv => NodeInfoPrompt
    BY DEF IInv
  <1> QED
    BY <1>1, LinkCorrect, PTL
=============================================================================
