--------------------------- MODULE WorkspaceHealth ---------------------------
(***************************************************************************)
(* The health report of the workspace (start.ts getHealthReport, which the *)
(* probes /api/ready and /api/health of the WebSocket channel answer with) *)
(* over the state it is read from: the status of the runtime monitor, what *)
(* initialize has made, the statistics of the gateway and the counts of    *)
(* its channels. A start or a stop is under way at most once (OneAtATime   *)
(* of WorkspaceLifecycle); turns fail and channels refuse messages at any  *)
(* time, and an embedding program may stop the gateway by itself           *)
(* (getGateway).                                                           *)
(*                                                                         *)
(* Left out: the details and metadata of the checks, and the reload of the *)
(* adapters' configuration file; WorkspaceLifecycle has the adapters.      *)
(***************************************************************************)
EXTENDS Integers, FiniteSets

CONSTANTS NumChannels,   \* channels of a gateway, started in order
          Guarded,       \* those of 1..NumChannels with an ingress guard
          MaxFailures, MaxStarts, MaxTurns   \* bounds

VARIABLES config,      \* what the configuration says of memory and adapters
          place,       \* where the start or stop under way stands
          left,        \* the channels that it still has to stop
          running, stopped, monitor, memory,
          made,        \* how many of the parts below exist
          gateway,     \* NoGateway, or its running flag and whether it has an error
          up,          \* the channels of this gateway that serve
          rejecting,   \* those that have refused a message
          turns, failedTurn,   \* turns under way; one failed since the last change
          failures, starts

vars == <<config, place, left, running, stopped, monitor, memory, made, gateway,
          up, rejecting, turns, failedTurn, failures, starts>>

Channels == 1..NumChannels

\* The governance of Phoenix, permissions, tools, the provider and the skills are
\* made in this order and never taken down.
Governance == 1
Tools == 3
AllParts == 5

NoGateway == [made |-> FALSE, running |-> FALSE, errors |-> FALSE]
NewGateway == [made |-> TRUE, running |-> FALSE, errors |-> FALSE]

Init == /\ config \in [memory : {"off", "any", "required"},
                       adapters : {"disabled", "ok", "degraded"}]
        /\ place = "down" /\ left = {} /\ running = FALSE /\ stopped = FALSE
        /\ monitor = "none" /\ memory = "none" /\ made = 0
        /\ gateway = NoGateway /\ up = {} /\ rejecting = {}
        /\ turns = 0 /\ failedTurn = FALSE /\ failures = 0 /\ starts = 0
-----------------------------------------------------------------------------
\* The checks, each "ok", "degraded", "unavailable" or "disabled".
RuntimeCheck == IF monitor = "degraded" THEN "degraded" ELSE "ok"

PartsCheck == IF made = AllParts THEN "ok" ELSE "unavailable"

MemoryCheck == IF config.memory = "off" THEN "disabled"
               ELSE IF memory = "open" THEN "ok" ELSE "unavailable"

GatewayCheck == IF ~gateway.made THEN "unavailable"
                ELSE IF gateway.errors \/ (running /\ ~gateway.running) THEN "degraded"
                ELSE "ok"

IngressCheck == IF ~gateway.made \/ Guarded = {} THEN "disabled"
                ELSE IF rejecting # {} THEN "degraded" ELSE "ok"

Checks == {RuntimeCheck, PartsCheck, MemoryCheck, GatewayCheck, config.adapters,
           IngressCheck}

Report == IF "unavailable" \in Checks THEN "unavailable"
          ELSE IF "degraded" \in Checks THEN "degraded" ELSE "ok"
-----------------------------------------------------------------------------
AtLeast(n) == IF made < n THEN n ELSE made

\* What every failing start ends with. Closing the memory manager may fail too, and
\* then it stays.
Fails == /\ place' = "down" /\ running' = FALSE /\ monitor' = "degraded"
         /\ memory' \in {"none", memory}

\* initialize up to its first await.
Begin == /\ place = "down" /\ ~running /\ starts < MaxStarts
         /\ starts' = starts + 1 /\ stopped' = FALSE /\ failedTurn' = FALSE
         /\ \/ /\ place' = "llm" /\ monitor' = "starting" /\ made' = AtLeast(Tools)
               /\ UNCHANGED <<running, memory, failures>>
            \/ /\ failures < MaxFailures /\ failures' = failures + 1
               /\ made' = AtLeast(Governance) /\ Fails
         /\ UNCHANGED <<config, left, gateway, up, rejecting, turns>>

HasProvider == /\ place = "llm" /\ place' = "skills" /\ made' = AllParts
               /\ UNCHANGED <<config, left, running, stopped, monitor, memory, gateway, up,
                              rejecting, turns, failedTurn, failures, starts>>

\* A memory manager that cannot be made is done without, unless a backend is
\* required. The channels of the gateway before are out of this report's sight.
HasGateway ==
    /\ place = "skills" /\ place' = "opens"
    /\ \/ memory' = IF config.memory = "off" THEN memory ELSE "open"
       \/ config.memory = "any" /\ memory' = "none"
    /\ gateway' = NewGateway /\ up' = {} /\ rejecting' = {}
    /\ UNCHANGED <<config, left, running, stopped, monitor, made, turns, failedTurn,
                   failures, starts>>

\* Adapters that cannot be registered make it fail with the gateway already there.
InitializeFails == /\ place \in {"llm", "skills"} \/ (place = "opens" /\ up = {})
                   /\ failures < MaxFailures /\ failures' = failures + 1
                   /\ Fails
                   /\ UNCHANGED <<config, left, stopped, made, gateway, up, rejecting,
                                  turns, failedTurn, starts>>

NextUp == Cardinality(up) + 1

ChannelStarts == /\ place = "opens" /\ NextUp \in Channels
                 /\ up' = up \cup {NextUp}
                 /\ UNCHANGED <<config, place, left, running, stopped, monitor, memory, made,
                                gateway, rejecting, turns, failedTurn, failures, starts>>

ChannelFails == /\ place = "opens" /\ NextUp \in Channels
                /\ failures < MaxFailures /\ failures' = failures + 1
                /\ place' = "rollsBack" /\ left' = up
                /\ gateway' = [gateway EXCEPT !.errors = TRUE]
                /\ UNCHANGED <<config, running, stopped, monitor, memory, made, up, rejecting,
                               turns, failedTurn, starts>>

\* One channel is stopped, the last one first in a rollback, the first one first
\* in a stop; what its stop throws is counted.
StopsChannel ==
    /\ place \in {"rollsBack", "closes"}
    /\ \E c \in left :
          /\ IF place = "closes" THEN \A d \in left : c <= d ELSE \A d \in left : d <= c
          /\ left' = left \ {c}
          /\ \/ up' = up \ {c} /\ UNCHANGED <<gateway, failures>>
             \/ /\ failures < MaxFailures /\ failures' = failures + 1
                /\ gateway' = [gateway EXCEPT !.errors = TRUE] /\ UNCHANGED up
    /\ UNCHANGED <<config, place, running, stopped, monitor, memory, made, rejecting,
                   turns, failedTurn, starts>>

RolledBack == /\ place = "rollsBack" /\ left = {} /\ Fails
              /\ UNCHANGED <<config, left, stopped, made, gateway, up, rejecting, turns,
                             failedTurn, failures, starts>>

\* markRunning, whatever happened to turns while the channels were opening.
Opened == /\ place = "opens" /\ up = Channels
          /\ place' = "up" /\ running' = TRUE /\ monitor' = "running"
          /\ gateway' = [gateway EXCEPT !.running = TRUE] /\ failedTurn' = FALSE
          /\ UNCHANGED <<config, left, stopped, memory, made, up, rejecting, turns,
                         failures, starts>>

\* A stop of a workspace that runs, or that failed to start.
Stop == /\ place \in {"down", "up"} /\ ~stopped
        /\ place' = "closes" /\ left' = IF gateway.running THEN Channels ELSE {}
        /\ UNCHANGED <<config, running, stopped, monitor, memory, made, gateway, up,
                       rejecting, turns, failedTurn, failures, starts>>

Closed == /\ place = "closes" /\ left = {}
          /\ place' = "down" /\ running' = FALSE /\ stopped' = TRUE
          /\ monitor' = IF monitor = "none" THEN "none" ELSE "stopped"
          /\ gateway' = [gateway EXCEPT !.running = FALSE]
          /\ memory' = "none" /\ failedTurn' = FALSE
          /\ UNCHANGED <<config, left, made, up, rejecting, turns, failures, starts>>

\* Gateway.stop called by the program that embeds the workspace, all of it.
GatewayStopsAlone ==
    /\ place = "up" /\ gateway.running
    /\ \/ up' = {} /\ UNCHANGED failures /\ gateway' = [gateway EXCEPT !.running = FALSE]
       \/ /\ failures < MaxFailures /\ failures' = failures + 1
          /\ \E c \in up : up' = {c}
          /\ gateway' = [gateway EXCEPT !.running = FALSE, !.errors = TRUE]
    /\ UNCHANGED <<config, place, left, running, stopped, monitor, memory, made, rejecting,
                   turns, failedTurn, starts>>
-----------------------------------------------------------------------------
\* A turn of handleMessage outlives the channel that it came from, and the run of
\* the workspace.
TurnBegins == /\ up # {} /\ turns < MaxTurns /\ turns' = turns + 1
              /\ UNCHANGED <<config, place, left, running, stopped, monitor, memory, made,
                             gateway, up, rejecting, failedTurn, failures, starts>>

TurnEnds == /\ turns > 0 /\ turns' = turns - 1
            /\ UNCHANGED <<config, place, left, running, stopped, monitor, memory, made,
                           gateway, up, rejecting, failedTurn, failures, starts>>

TurnFails == /\ turns > 0 /\ turns' = turns - 1
             /\ failures < MaxFailures /\ failures' = failures + 1
             /\ monitor' = "degraded" /\ failedTurn' = TRUE
             /\ UNCHANGED <<config, place, left, running, stopped, memory, made, gateway,
                            up, rejecting, starts>>

Rejects(c) == /\ c \in up \cap Guarded
              /\ rejecting' = rejecting \cup {c}
              /\ UNCHANGED <<config, place, left, running, stopped, monitor, memory, made,
                             gateway, up, turns, failedTurn, failures, starts>>

Next == \/ Begin \/ HasProvider \/ HasGateway \/ InitializeFails
        \/ ChannelStarts \/ ChannelFails \/ StopsChannel \/ RolledBack \/ Opened
        \/ Stop \/ Closed \/ GatewayStopsAlone
        \/ TurnBegins \/ TurnEnds \/ TurnFails
        \/ \E c \in Guarded : Rejects(c)

Spec == Init /\ [][Next]_vars
-----------------------------------------------------------------------------
TypeOK == /\ config \in [memory : {"off", "any", "required"},
                         adapters : {"disabled", "ok", "degraded"}]
          /\ place \in {"down", "llm", "skills", "opens", "rollsBack", "up", "closes"}
          /\ left \subseteq Channels /\ up \subseteq Channels /\ rejecting \subseteq Guarded
          /\ running \in BOOLEAN /\ stopped \in BOOLEAN /\ failedTurn \in BOOLEAN
          /\ monitor \in {"none", "starting", "running", "degraded", "stopped"}
          /\ memory \in {"none", "open"} /\ made \in 0..AllParts
          /\ gateway \in [made : BOOLEAN, running : BOOLEAN, errors : BOOLEAN]
          /\ turns \in 0..MaxTurns /\ failures \in 0..MaxFailures /\ starts \in 0..MaxStarts

\* A report of "ok" is true whenever no start or stop is under way. Of a workspace
\* that runs: all channels serve, memory is open if it is enabled, no turn has failed
\* since it runs, and no channel refuses messages. Of one that does not: it was
\* stopped, not left by a failed start, none of its channels serves, and no turn
\* failed after the stop. A report that forgets one of these would have a
\* supervisor send traffic to a workspace that cannot take it.
HealthIsTrue ==
    Report = "ok" =>
        /\ place = "up" => /\ up = Channels /\ rejecting = {} /\ ~failedTurn
                           /\ config.memory # "off" => memory = "open"
        /\ place = "down" => stopped /\ up = {} /\ ~failedTurn
=============================================================================
