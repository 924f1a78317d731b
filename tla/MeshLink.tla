------------------------------ MODULE MeshLink ------------------------------
(***************************************************************************)
(* The TCP session with the Meshtastic node: MeshtasticTCP's connect, config *)
(* handshake, loop and NodeInfo upload, and the reconnect phase of           *)
(* BridgeManager::loop() with its exponential backoff.                       *)
(*                                                                           *)
(* All of it runs on the one Arduino task: begin() connects once, then every *)
(* iteration runs _mesh.loop() and the reconnect phase and ends in delay().  *)
(* connect() blocks the task until the handshake is over.  The radio and the *)
(* network are concurrent: the socket may drop between any two steps.        *)
(*                                                                           *)
(* Frames are abstracted to whether the parser is inside one, and of which   *)
(* session its bytes are.                                                    *)
(***************************************************************************)
EXTENDS Naturals

CONSTANTS
    CLOCK_MOD,               \* millis() counts modulo this (2^32)
    RETRY_BASE,              \* the first retry interval (5 s)
    RETRY_CAP,               \* the interval after which it stops doubling (5 min)
    HANDSHAKE_TIMEOUT,       \* how long connect() waits for config_complete
    MESH_HEARTBEAT,
    BRIDGE_NODEINFO_INTERVAL,
    RadioStates,             \* the states the radio may be in
    SetupTime                \* longest time setup() takes until begin()

ASSUME LinkAssumption ==
    /\ CLOCK_MOD \in Nat \ {0}
    /\ RETRY_BASE \in Nat \ {0}
    /\ RETRY_CAP \in Nat
    /\ HANDSHAKE_TIMEOUT \in Nat
    /\ MESH_HEARTBEAT \in Nat
    /\ BRIDGE_NODEINFO_INTERVAL \in Nat
    /\ RadioStates \subseteq {"up", "mute", "down"}
    /\ SetupTime \in 0 .. CLOCK_MOD - 1

VARIABLES
    phase,       \* where the task is
    millis,      \* the clock
    radio,       \* the node: "up", "mute" (accepts, never configures) or "down"
    sock,        \* _client.connected()
    connected,   \* _connected
    configured,  \* _config_complete
    parser,      \* [mid, of]: inside a frame, and the session it began in
    session,     \* number of the TCP session, modulo 2
    since,       \* when the handshake's wait started
    beat,        \* _last_heartbeat_ms
    info,        \* [named, pending, at]: _bridge_node_num # 0,
                 \* _bridge_nodeinfo_pending and _last_nodeinfo_ms
    retry,       \* [at, interval]: _mesh_retry_ms and _mesh_retry_interval
    was,         \* _mesh_was_connected
    told,        \* history: NodeInfo was written to this session
    loops        \* history: sends of _mesh.loop() in this session, up to 2

vars == <<phase, millis, radio, sock, connected, configured, parser, session,
          since, beat, info, retry, was, told, loops>>

link == <<sock, connected, configured, session>>

Age(then) == (millis + CLOCK_MOD - then) % CLOCK_MOD

IsConnected == connected /\ configured /\ sock

Init ==
    /\ phase = "begin"
    /\ millis \in 0 .. SetupTime
    /\ radio \in RadioStates
    /\ sock = FALSE
    /\ connected = FALSE
    /\ configured = FALSE
    /\ parser = [mid |-> FALSE, of |-> 0]
    /\ session = 0
    /\ since = 0
    /\ beat = 0
    /\ info = [named |-> FALSE, pending |-> FALSE, at |-> 0]
    /\ retry = [at |-> 0, interval |-> RETRY_BASE]
    /\ was = FALSE
    /\ told = FALSE
    /\ loops = 0

-----------------------------------------------------------------------------
(* begin() and connect().  A phase says who called: "begin" ignores the      *)
(* outcome, "retry" adjusts the backoff to it.                               *)

\* Bitchat BLE fails to start: begin() returns before it connects.
BeginFails ==
    /\ phase = "begin"
    /\ phase' = "mesh"
    /\ UNCHANGED <<millis, radio, link, parser, since, beat, info, retry, was, told, loops>>

\* Mutant of Backoff: the interval doubles without end.
BackoffUncapped(interval) == interval * 2

\* The interval after a failed attempt.
Backoff(interval) == IF interval < RETRY_CAP THEN interval * 2 ELSE RETRY_CAP

\* connect() returns to its caller.
Return(caller, success) ==
    /\ phase' = IF caller = "begin" THEN "mesh" ELSE "delay"
    /\ retry' = CASE caller = "begin" -> retry
                  [] caller # "begin" /\ success -> [retry EXCEPT !.interval = RETRY_BASE]
                  [] OTHER -> [retry EXCEPT !.interval = Backoff(@)]

\* The host does not resolve, or refuses the connection.
ConnectRefused ==
    /\ phase \in {"begin", "retry"}
    /\ Return(phase, FALSE)
    /\ UNCHANGED <<millis, radio, link, parser, since, beat, info, was, told, loops>>

\* Mutant of ResetParser: the parser goes on where the last session left it.
KeepParser(p) == p

ResetParser(p) == [mid |-> FALSE, of |-> 0]

\* The TCP connection opens and the config request is sent.
ConnectOpens ==
    /\ phase \in {"begin", "retry"}
    /\ radio # "down"
    /\ phase' = IF phase = "begin" THEN "begin_handshake" ELSE "retry_handshake"
    /\ sock' = TRUE
    /\ connected' = TRUE
    /\ configured' = FALSE
    /\ parser' = ResetParser(parser)
    /\ session' = 1 - session
    /\ since' = millis
    /\ told' = FALSE
    /\ loops' = 0
    /\ UNCHANGED <<millis, radio, beat, info, retry, was>>

InHandshake == phase \in {"begin_handshake", "retry_handshake"}

Caller == IF phase = "begin_handshake" THEN "begin" ELSE "retry"

\* Bytes of this session go through the parser, which may finish its frame and
\* may start another.
Reads ==
    parser' \in {parser, [mid |-> FALSE, of |-> 0], [mid |-> TRUE, of |-> session]}

\* One turn of the wait: what has arrived is read, and a unit of time passes.
HandshakeWaits ==
    /\ InHandshake
    /\ Age(since) < HANDSHAKE_TIMEOUT
    /\ Reads
    /\ millis' = (millis + 1) % CLOCK_MOD
    /\ UNCHANGED <<phase, radio, link, since, beat, info, retry, was, told, loops>>

\* config_complete with our nonce is read; it may have been received before
\* the socket dropped.
HandshakeDone ==
    /\ InHandshake
    /\ radio # "mute"
    /\ Age(since) < HANDSHAKE_TIMEOUT
    /\ configured' = TRUE
    /\ parser' = [mid |-> FALSE, of |-> 0]
    /\ beat' = millis
    /\ since' = 0
    /\ Return(Caller, TRUE)
    /\ UNCHANGED <<millis, radio, sock, connected, session, info, was, told, loops>>

\* The wait is over without an answer: connect() disconnects and fails.
HandshakeTimeout ==
    /\ InHandshake
    /\ Age(since) >= HANDSHAKE_TIMEOUT
    /\ sock' = FALSE
    /\ connected' = FALSE
    /\ configured' = FALSE
    /\ since' = 0
    /\ Return(Caller, FALSE)
    /\ UNCHANGED <<millis, radio, parser, session, beat, info, was, told, loops>>

-----------------------------------------------------------------------------
(* _mesh.loop()                                                              *)

MeshIdle ==
    /\ phase = "mesh"
    /\ ~connected
    /\ phase' = "reconnect"
    /\ UNCHANGED <<millis, radio, link, parser, since, beat, info, retry, was, told, loops>>

MeshLost ==
    /\ phase = "mesh"
    /\ connected /\ ~sock
    /\ phase' = "reconnect"
    /\ connected' = FALSE
    /\ configured' = FALSE
    /\ parser' = ResetParser(parser)
    /\ UNCHANGED <<millis, radio, sock, session, since, beat, info, retry, was, told, loops>>

MeshReads ==
    /\ phase = "mesh"
    /\ connected /\ sock
    /\ phase' = "send"
    /\ Reads
    /\ UNCHANGED <<millis, radio, link, since, beat, info, retry, was, told, loops>>

\* Heartbeat, and the bridge's NodeInfo when it is pending or due again.  If
\* the socket has dropped meanwhile, _emit_node_info writes nothing, and its
\* result is not looked at.
MeshSends ==
    LET emits == /\ configured /\ info.named
                 /\ info.pending \/ Age(info.at) > BRIDGE_NODEINFO_INTERVAL
    IN  /\ phase = "send"
        /\ phase' = "reconnect"
        /\ beat' = IF configured /\ Age(beat) > MESH_HEARTBEAT THEN millis ELSE beat
        /\ info' = IF emits THEN [info EXCEPT !.pending = FALSE, !.at = millis] ELSE info
        /\ told' = (told \/ (emits /\ IsConnected))
        /\ loops' = IF loops < 2 THEN loops + 1 ELSE 2
        /\ UNCHANGED <<millis, radio, link, parser, since, retry, was>>

-----------------------------------------------------------------------------
(* The reconnect phase of BridgeManager::loop()                              *)

\* Mutant of SeenDown: the bridge does not notice that the link went down.
SeenUp(w) == w

\* _mesh_was_connected after the link is seen down.
SeenDown(w) == FALSE

\* The link is down, and it is not yet time to try again.
ReconnectWaits ==
    /\ phase = "reconnect"
    /\ ~IsConnected
    /\ Age(retry.at) <= retry.interval
    /\ was' = SeenDown(was)
    /\ phase' = "delay"
    /\ UNCHANGED <<millis, radio, link, parser, since, beat, info, retry, told, loops>>

\* The link is down and the interval is over: connect().
ReconnectTries ==
    /\ phase = "reconnect"
    /\ ~IsConnected
    /\ Age(retry.at) > retry.interval
    /\ was' = SeenDown(was)
    /\ retry' = [retry EXCEPT !.at = millis]
    /\ phase' = "retry"
    /\ UNCHANGED <<millis, radio, link, parser, since, beat, info, told, loops>>

\* The link is up.  On the rising edge the NodeInfo is handed to MeshtasticTCP,
\* which sends it from its loop().
LinkIsUp ==
    /\ phase = "reconnect"
    /\ IsConnected
    /\ retry' = [retry EXCEPT !.interval = RETRY_BASE]
    /\ was' = TRUE
    /\ info' = IF was THEN info ELSE [info EXCEPT !.named = TRUE, !.pending = TRUE]
    /\ phase' = "delay"
    /\ UNCHANGED <<millis, radio, link, parser, since, beat, told, loops>>

\* delay(10) of the Arduino loop.  The unit of time is coarser: an iteration
\* may end within it or take the clock on to the next.
Delay ==
    /\ phase = "delay"
    /\ phase' = "mesh"
    /\ UNCHANGED <<millis, radio, link, parser, since, beat, info, retry, was, told, loops>>

DelayTicks ==
    /\ phase = "delay"
    /\ phase' = "mesh"
    /\ millis' = (millis + 1) % CLOCK_MOD
    /\ UNCHANGED <<radio, link, parser, since, beat, info, retry, was, told, loops>>

-----------------------------------------------------------------------------
(* The radio and the network                                                 *)

SocketDrops ==
    /\ sock
    /\ sock' = FALSE
    /\ UNCHANGED <<phase, millis, radio, connected, configured, parser, session,
                   since, beat, info, retry, was, told, loops>>

RadioChanges ==
    /\ radio' \in RadioStates \ {radio}
    /\ UNCHANGED <<phase, millis, link, parser, since, beat, info, retry, was, told, loops>>

Connect == ConnectRefused \/ ConnectOpens \/ HandshakeWaits \/ HandshakeDone
               \/ HandshakeTimeout

MeshLoop == MeshIdle \/ MeshLost \/ MeshReads \/ MeshSends

Reconnect == ReconnectWaits \/ ReconnectTries \/ LinkIsUp

Task == BeginFails \/ Connect \/ MeshLoop \/ Reconnect \/ Delay \/ DelayTicks

Next == Task \/ SocketDrops \/ RadioChanges

\* The task runs forever, the clock advances, and a radio that stays up
\* accepts one of many attempts and configures one of many open sessions in time.
Fairness ==
    /\ WF_vars(Task)
    /\ SF_vars(DelayTicks)
    /\ SF_vars(ConnectOpens)
    /\ SF_vars(radio = "up" /\ sock /\ HandshakeDone)

Spec == Init /\ [][Next]_vars /\ Fairness

-----------------------------------------------------------------------------
(* Properties                                                                *)

\* Every variable keeps its type.
TypeOK ==
    /\ phase \in {"begin", "begin_handshake", "retry", "retry_handshake",
                  "mesh", "send", "reconnect", "delay"}
    /\ millis \in Nat /\ since \in Nat /\ beat \in Nat
    /\ radio \in {"up", "mute", "down"}
    /\ sock \in BOOLEAN /\ connected \in BOOLEAN /\ configured \in BOOLEAN
    /\ was \in BOOLEAN /\ told \in BOOLEAN
    /\ parser \in [mid : BOOLEAN, of : {0, 1}]
    /\ session \in {0, 1}
    /\ info \in [named : BOOLEAN, pending : BOOLEAN, at : Nat]
    /\ retry \in [at : Nat, interval : Nat]
    /\ loops \in 0 .. 2

\* No frame is put together from the bytes of two sessions: what the parser
\* holds began in the session that is open or was last open, also when the
\* bridge reconnects before _mesh.loop() has noticed the loss.
FramesAreOfOneSession == parser.mid => parser.of = session

\* The radio learns the bridge's NodeInfo early in every session: a session
\* that is up after its second pass through _mesh.loop() has been told.
NodeInfoPrompt == IsConnected /\ loops = 2 => told

\* If the radio is up for good, the bridge is connected again and again, no
\* matter how often the socket drops or how long the radio was down before.
Reconnects == <>[](radio = "up") => []<>IsConnected
=============================================================================
