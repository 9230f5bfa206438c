--------------------------- MODULE GatewaySessions ---------------------------
(***************************************************************************)
(* WebSocket sessions (gateway/gateway.ts): the channel's map of sessions, *)
(* the gateway's map that sendToSession looks in, and the set of active    *)
(* sessions of the runtime monitor, which handleConnect and                *)
(* handleDisconnect of start.ts keep. Clients connect, send and leave; the *)
(* heartbeat ends idle sessions; turns send to their session whenever they *)
(* have something to say, also after it has ended.                         *)
(*                                                                         *)
(* A socket that is terminated or that its client closes emits its close   *)
(* event later. Session ids are random, so a connection is never repeated. *)
(***************************************************************************)
EXTENDS Integers, FiniteSets

CONSTANTS Connections,
          Timeout,    \* connectionTimeout
          MaxTurns    \* bound: turns of a session under way

VARIABLES server,     \* "down", "up" or "closing"
          socket,     \* of each connection: "none", "open", "dying" or "closed"
          sessions,   \* the channel's sessions
          gateway,    \* the gateway's: "none", "real", or "auto" if made by a send
          active,     \* the monitor's active sessions
          idle,       \* ticks since the client's last message, up to Timeout + 1
          turns       \* how many turns of each session are under way

vars == <<server, socket, sessions, gateway, active, idle, turns>>

Init == /\ server = "down"
        /\ socket = [c \in Connections |-> "none"]
        /\ sessions = {} /\ active = {}
        /\ gateway = [c \in Connections |-> "none"]
        /\ idle = [c \in Connections |-> 0] /\ turns = [c \in Connections |-> 0]
-----------------------------------------------------------------------------
Start == /\ server = "down" /\ server' = "up"
         /\ UNCHANGED <<socket, sessions, gateway, active, idle, turns>>

\* The channel's onConnect is the gateway's, which calls handleConnect; all of
\* it runs before anything waits.
Connect(c) == /\ server = "up" /\ socket[c] = "none"
              /\ socket' = [socket EXCEPT ![c] = "open"]
              /\ sessions' = sessions \cup {c} /\ active' = active \cup {c}
              /\ gateway' = [gateway EXCEPT ![c] = "real"]
              /\ UNCHANGED <<server, idle, turns>>

Message(c) == /\ socket[c] = "open" /\ turns[c] < MaxTurns
              /\ idle' = [idle EXCEPT ![c] = 0]
              /\ turns' = [turns EXCEPT ![c] = @ + 1]
              /\ UNCHANGED <<server, socket, sessions, gateway, active>>

\* sendToSession: a session it does not find is made on the spot, without a
\* transport, and the send throws.
Send(c) == /\ turns[c] > 0
           /\ gateway' = [gateway EXCEPT ![c] = IF @ = "none" THEN "auto" ELSE @]
           /\ UNCHANGED <<server, socket, sessions, active, idle, turns>>

EndTurn(c) == /\ turns[c] > 0
              /\ turns' = [turns EXCEPT ![c] = @ - 1]
              /\ UNCHANGED <<server, socket, sessions, gateway, active, idle>>

ClientCloses(c) == /\ socket[c] = "open"
                   /\ socket' = [socket EXCEPT ![c] = "dying"]
                   /\ UNCHANGED <<server, sessions, gateway, active, idle, turns>>

\* onDisconnect of the gateway, with handleDisconnect.
Disconnects(C) == /\ sessions' = sessions \ C /\ active' = active \ C
                  /\ gateway' = [c \in Connections |-> IF c \in C THEN "none"
                                                                  ELSE gateway[c]]

\* Mutant: a session the heartbeat has ended is not looked at again.
CloseEventOnce(c) ==
    /\ socket[c] = "dying"
    /\ socket' = [socket EXCEPT ![c] = "closed"]
    /\ IF c \in sessions THEN Disconnects({c}) ELSE UNCHANGED <<sessions, gateway, active>>
    /\ UNCHANGED <<server, idle, turns>>

CloseEvent(c) == /\ socket[c] = "dying"
                 /\ socket' = [socket EXCEPT ![c] = "closed"]
                 /\ Disconnects({c})
                 /\ UNCHANGED <<server, idle, turns>>

\* The heartbeat looks at open sockets only. A client that answers pings and
\* waits for a long turn is idle all the same.
Heartbeat ==
    LET late == {c \in sessions : socket[c] = "open" /\ idle[c] > Timeout} IN
    /\ server = "up" /\ late # {}
    /\ socket' = [c \in Connections |-> IF c \in late THEN "dying" ELSE socket[c]]
    /\ Disconnects(late)
    /\ UNCHANGED <<server, idle, turns>>

\* stop() terminates the sockets of the sessions it knows and forgets them.
Stop == /\ server = "up" /\ server' = "closing"
        /\ socket' = [c \in Connections |-> IF c \in sessions THEN "dying" ELSE socket[c]]
        /\ sessions' = {}
        /\ UNCHANGED <<gateway, active, idle, turns>>

\* The HTTP server is closed when no connection is left.
Closed == /\ server = "closing"
          /\ \A c \in Connections : socket[c] \in {"none", "closed"}
          /\ server' = "down"
          /\ UNCHANGED <<socket, sessions, gateway, active, idle, turns>>

Tick == /\ \E c \in Connections : socket[c] = "open" /\ idle[c] <= Timeout
        /\ idle' = [c \in Connections |-> IF socket[c] = "open" /\ idle[c] <= Timeout
                                          THEN idle[c] + 1 ELSE idle[c]]
        /\ UNCHANGED <<server, socket, sessions, gateway, active, turns>>

Next == \/ Start \/ Stop \/ Closed \/ Heartbeat \/ Tick
        \/ \E c \in Connections : \/ Connect(c) \/ Message(c) \/ Send(c) \/ EndTurn(c)
                                  \/ ClientCloses(c) \/ CloseEvent(c)

Spec == Init /\ [][Next]_vars
-----------------------------------------------------------------------------
\* The three maps and the sockets: the channel knows no session that the gateway
\* does not; the gateway and the monitor hold the same connected sessions, each
\* of a socket whose close event is still to come; and once the server is down
\* nobody holds one. A send to a session that has ended may leave an entry in
\* the gateway's map, which never takes the place of a connected one.
SessionsFollowSockets ==
    /\ \A c \in sessions : gateway[c] = "real" /\ socket[c] \in {"open", "dying"}
    /\ active = {c \in Connections : gateway[c] = "real"}
    /\ \A c \in active : socket[c] \in {"open", "dying"}
    /\ \A c \in Connections : socket[c] = "open" => c \in sessions
    /\ server = "down" => active = {}

\* Types of the state.
TypeOK == /\ server \in {"down", "up", "closing"}
          /\ socket \in [Connections -> {"none", "open", "dying", "closed"}]
          /\ sessions \subseteq Connections /\ active \subseteq Connections
          /\ gateway \in [Connections -> {"none", "real", "auto"}]
          /\ idle \in [Connections -> 0..(Timeout + 1)]
          /\ turns \in [Connections -> 0..MaxTurns]
=============================================================================
