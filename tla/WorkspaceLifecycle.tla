------------------------- MODULE WorkspaceLifecycle -------------------------
(***************************************************************************)
(* FusionWorkspace.start and FusionWorkspace.stop (start.ts), called at    *)
(* any time by any number of callers, with what they do to the memory      *)
(* manager, to the gateway's channels (gateway/gateway.ts) and to the      *)
(* adapters that AdapterFactory.registerAll starts before the gateway does *)
(* (gateway/adapterFactory.ts).  Channels 1..NumOwn are the workspace's    *)
(* own, those after them are adapters.  Every channel listens on a port of *)
(* its own; a start makes a new gateway with new channel objects, which    *)
(* want the same ports.                                                    *)
(*                                                                         *)
(* A step is one run of code up to an await of something outside.  A chain *)
(* of promises settles in one step: no I/O callback runs in between.  What *)
(* follows the last channel of a loop is a step apart from it, so the size *)
(* of the loop may be zero.                                                *)
(***************************************************************************)
EXTENDS Naturals, FiniteSets

CONSTANTS Starters, Stoppers,   \* callers of start() and of stop()
          NumOwn, NumAdapters,
          MaxFailures           \* bound: operations that throw of themselves

ASSUME CallerAssumption == Starters \cap Stoppers = {}
ASSUME ChannelAssumption == NumOwn \in Nat /\ NumAdapters \in Nat
ASSUME FailureAssumption == MaxFailures \in Nat

VARIABLES pc,        \* where each caller stands
          at,        \* the channel that the run under way awaits
          auto,      \* externalAdapterAutoRegister, with adapters configured
          size,      \* channels in the gateway's map: those up to size
          running,   \* of the workspace and of its gateway
          stopped,
          memory,    \* the memory manager: "none", "open" or its close "threw"
          up,        \* channels of the gateway that serve
          lost,      \* channels that serve but no gateway knows any more
          stuck,     \* channels a stop of which has thrown (history)
          failures   \* operations that threw so far

vars == <<pc, at, auto, size, running, stopped, memory, up, lost, stuck, failures>>

Callers == Starters \cup Stoppers
Channels == 1..(NumOwn + NumAdapters)

\* Places of the caller whose startInternal or stopInternal the promise is.
StartPlaces == {"initializes", "loadsConfig", "registers", "unregisters",
                "startsGateway", "rollsBack", "fails"}
StopPlaces == {"awaitsStart", "startOver", "stopsGateway"}
Places == {"idle", "awaitsStop", "stopOver", "joinsStart", "joinsStop"}
          \cup StartPlaces \cup StopPlaces

Init == /\ pc = [c \in Callers |-> "idle"]
        /\ at = 1
        /\ auto \in BOOLEAN
        /\ size = 0
        /\ running = FALSE /\ stopped = FALSE
        /\ memory = "none"
        /\ up = {} /\ lost = {} /\ stuck = {}
        /\ failures = 0
-----------------------------------------------------------------------------
\* startPromise and stopPromise are defined.
StartUnderWay == \E c \in Callers : pc[c] \in StartPlaces
StopUnderWay == \E c \in Callers : pc[c] \in StopPlaces

\* No continuation is queued: the event loop may run code that makes a call.
Quiet == \A c \in Callers : pc[c] \notin {"fails", "startOver", "stopOver"}

Goes(c, place) == pc' = [pc EXCEPT ![c] = place]

Throws == failures < MaxFailures /\ failures' = failures + 1

\* Mutant: a stop that waits for the start is not told when it fails.
StartSettlesForJoined(c) ==
    pc' = [d \in Callers |-> IF d = c \/ pc[d] = "joinsStart" THEN "idle" ELSE pc[d]]

\* startPromise settles: its caller and those that joined it return, a stop
\* that waits for it is about to go on.
StartSettles(c) ==
    pc' = [d \in Callers |-> CASE d = c \/ pc[d] = "joinsStart" -> "idle"
                               [] pc[d] = "awaitsStart" -> "startOver"
                               [] OTHER -> pc[d]]

StopSettles(c) ==
    pc' = [d \in Callers |-> CASE d = c \/ pc[d] = "joinsStop" -> "idle"
                               [] pc[d] = "awaitsStop" -> "stopOver"
                               [] OTHER -> pc[d]]

\* memoryManager.close() throws or not.
ClosesMemory ==
    \/ memory # "open" /\ UNCHANGED <<memory, failures>>
    \/ memory = "open" /\ memory' = "none" /\ UNCHANGED failures
    \/ memory = "open" /\ memory' = "threw" /\ Throws

\* A new listener cannot have the port of one that is still open.
PortTaken(i) == i \in up \cup lost

\* channel.stop() of channel i: a stop that throws leaves it listening.
StopsChannel(i) ==
    \/ up' = up \ {i} /\ UNCHANGED <<stuck, failures>>
    \/ i \in up /\ stuck' = stuck \cup {i} /\ Throws /\ UNCHANGED up
-----------------------------------------------------------------------------
\* Mutant: start() does not look for a start under way.
EnterStartAlone(c) ==
    /\ \/ running /\ Goes(c, "idle") /\ UNCHANGED stopped
       \/ ~running /\ Goes(c, "initializes") /\ stopped' = FALSE
    /\ UNCHANGED <<at, auto, size, running, memory, up, lost, stuck, failures>>

\* start() after it has waited for a stop under way.
EnterStart(c) ==
    /\ \/ StartUnderWay /\ Goes(c, "joinsStart") /\ UNCHANGED stopped
       \/ ~StartUnderWay /\ running /\ Goes(c, "idle") /\ UNCHANGED stopped
       \/ ~StartUnderWay /\ ~running /\ Goes(c, "initializes") /\ stopped' = FALSE
    /\ UNCHANGED <<at, auto, size, running, memory, up, lost, stuck, failures>>

CallStart(c) ==
    /\ pc[c] = "idle" /\ Quiet
    /\ \/ /\ StopUnderWay
          /\ Goes(c, "awaitsStop")
          /\ UNCHANGED <<at, auto, size, running, stopped, memory, up, lost,
                         stuck, failures>>
       \/ ~StopUnderWay /\ EnterStart(c)

ResumeStart(c) == pc[c] = "stopOver" /\ EnterStart(c)

\* initialize() opens the memory manager; without one it may go on.
OpensMemory(c) ==
    /\ pc[c] = "initializes"
    /\ Goes(c, "loadsConfig")
    /\ \/ memory' = "open" /\ UNCHANGED failures
       \/ memory' = "none" /\ Throws
    /\ UNCHANGED <<at, auto, size, running, stopped, up, lost, stuck>>

\* initialize() makes the gateway and registers the channels; the channels of
\* the gateway before are forgotten as they are.
BuildsGateway(c) ==
    /\ pc[c] = "loadsConfig"
    /\ lost' = lost \cup up /\ up' = {}
    /\ \/ auto /\ size' = NumOwn + NumAdapters /\ at' = NumOwn + 1 /\ Goes(c, "registers")
       \/ ~auto /\ size' = NumOwn /\ at' = 1 /\ Goes(c, "startsGateway")
    /\ UNCHANGED <<auto, running, stopped, memory, stuck, failures>>

\* initialize() throws: a provider, the skills or the configuration file.
InitializeThrows(c) ==
    /\ pc[c] \in {"initializes", "loadsConfig"}
    /\ Throws
    /\ Goes(c, "fails")
    /\ UNCHANGED <<at, auto, size, running, stopped, memory, up, lost, stuck>>

\* Mutant: the memory manager of a failed start stays open.
FailsKeepingMemory(c) ==
    /\ pc[c] = "fails"
    /\ StartSettles(c)
    /\ running' = FALSE
    /\ UNCHANGED <<at, auto, size, stopped, memory, up, lost, stuck, failures>>

\* The catch and finally clauses of start().
StartFails(c) ==
    /\ pc[c] = "fails"
    /\ StartSettles(c)
    /\ running' = FALSE
    /\ ClosesMemory
    /\ UNCHANGED <<at, auto, size, stopped, up, lost, stuck>>
-----------------------------------------------------------------------------
\* registerAll starts the adapters one after the other.
AdapterStarts(c) ==
    /\ pc[c] = "registers" /\ at <= size /\ ~PortTaken(at)
    /\ up' = up \cup {at}
    /\ at' = at + 1
    /\ UNCHANGED <<pc, auto, size, running, stopped, memory, lost, stuck, failures>>

AdaptersRegistered(c) ==
    /\ pc[c] = "registers" /\ at > size
    /\ at' = 1
    /\ Goes(c, "startsGateway")
    /\ UNCHANGED <<auto, size, running, stopped, memory, up, lost, stuck, failures>>

\* The start of an adapter throws: it is stopped, then those of the batch
\* that were started, the last one first.
AdapterFails(c) ==
    /\ pc[c] = "registers" /\ at <= size
    /\ \/ PortTaken(at) /\ UNCHANGED failures
       \/ ~PortTaken(at) /\ Throws
    /\ Goes(c, "unregisters")
    /\ UNCHANGED <<at, auto, size, running, stopped, memory, up, lost, stuck>>

\* When the batch is stopped its adapters are removed from the gateway.
Unregisters(c) ==
    /\ pc[c] = "unregisters"
    /\ \/ /\ at > NumOwn + 1
          /\ at' = at - 1
          /\ StopsChannel(at - 1)
          /\ UNCHANGED <<pc, size, lost>>
       \/ /\ at = NumOwn + 1
          /\ size' = NumOwn
          /\ lost' = lost \cup up /\ up' = {}
          /\ Goes(c, "fails")
          /\ UNCHANGED <<at, stuck, failures>>
    /\ UNCHANGED <<auto, running, stopped, memory>>

\* Gateway.start starts the channels one after the other.
ChannelStarts(c) ==
    /\ pc[c] = "startsGateway" /\ at <= size /\ ~PortTaken(at)
    /\ up' = up \cup {at}
    /\ at' = at + 1
    /\ UNCHANGED <<pc, auto, size, running, stopped, memory, lost, stuck, failures>>

\* Mutant: the gateway runs as soon as a channel does.
RunsEarly(c) ==
    /\ pc[c] = "startsGateway" /\ at >= size
    /\ at' = 1
    /\ running' = TRUE
    /\ StartSettles(c)
    /\ UNCHANGED <<auto, size, stopped, memory, up, lost, stuck, failures>>

\* The gateway runs, and with it the workspace.
GatewayStarts(c) ==
    /\ pc[c] = "startsGateway" /\ at > size
    /\ at' = 1
    /\ running' = TRUE
    /\ StartSettles(c)
    /\ UNCHANGED <<auto, size, stopped, memory, up, lost, stuck, failures>>

\* A channel throws, of itself or because its port is taken.  An adapter that
\* registerAll has started already takes its own port: start() has put a new
\* server in the place of the one that listens, which nothing can close now.
ChannelFails(c) ==
    /\ pc[c] = "startsGateway" /\ at <= size
    /\ \/ PortTaken(at) /\ UNCHANGED failures
       \/ ~PortTaken(at) /\ Throws
    /\ lost' = lost \cup (up \cap {at}) /\ up' = up \ {at}
    /\ Goes(c, "rollsBack")
    /\ UNCHANGED <<at, auto, size, running, stopped, memory, stuck>>

\* The channels this start has started are stopped, the last one first.
RollsBack(c) ==
    /\ pc[c] = "rollsBack"
    /\ \/ /\ at > 1
          /\ at' = at - 1
          /\ StopsChannel(at - 1)
          /\ UNCHANGED pc
       \/ at = 1 /\ Goes(c, "fails") /\ UNCHANGED <<at, up, stuck, failures>>
    /\ UNCHANGED <<auto, size, running, stopped, memory, lost>>
-----------------------------------------------------------------------------
\* The end of stopInternal, after the gateway has stopped.
StopEnds(c) == /\ StopSettles(c)
               /\ running' = FALSE
               /\ stopped' = TRUE
               /\ ClosesMemory

\* stopInternal after it has waited for a start under way.
EnterStop(c) ==
    /\ \/ /\ stopped
          /\ StopSettles(c)
          /\ UNCHANGED <<at, running, stopped, memory, failures>>
       \/ /\ ~stopped /\ running
          /\ at' = 1
          /\ Goes(c, "stopsGateway")
          /\ UNCHANGED <<running, stopped, memory, failures>>
       \/ ~stopped /\ ~running /\ StopEnds(c) /\ UNCHANGED at
    /\ UNCHANGED <<auto, size, up, lost, stuck>>

CallStop(c) ==
    /\ pc[c] = "idle" /\ Quiet
    /\ \/ /\ StopUnderWay
          /\ Goes(c, "joinsStop")
          /\ UNCHANGED <<at, auto, size, running, stopped, memory, up, lost,
                         stuck, failures>>
       \/ /\ ~StopUnderWay /\ StartUnderWay
          /\ Goes(c, "awaitsStart")
          /\ UNCHANGED <<at, auto, size, running, stopped, memory, up, lost,
                         stuck, failures>>
       \/ ~StopUnderWay /\ ~StartUnderWay /\ EnterStop(c)

ResumeStop(c) == pc[c] = "startOver" /\ EnterStop(c)

\* Mutant: the loop takes one turn more than there are channels.
ChannelStopsOnceMore(c) ==
    /\ pc[c] = "stopsGateway"
    /\ at <= size + 1
    /\ StopsChannel(at)
    /\ at' = at + 1
    /\ UNCHANGED <<pc, auto, size, running, stopped, memory, lost>>

\* Gateway.stop stops one channel after the other, whether they throw or not.
ChannelStops(c) ==
    /\ pc[c] = "stopsGateway"
    /\ at <= size
    /\ StopsChannel(at)
    /\ at' = at + 1
    /\ UNCHANGED <<pc, auto, size, running, stopped, memory, lost>>

GatewayStops(c) ==
    /\ pc[c] = "stopsGateway" /\ at > size
    /\ StopEnds(c)
    /\ at' = 1
    /\ UNCHANGED <<auto, size, up, lost, stuck>>
-----------------------------------------------------------------------------
StarterGoesOn(c) ==
    \/ ResumeStart(c) \/ OpensMemory(c) \/ BuildsGateway(c) \/ InitializeThrows(c)
    \/ AdapterStarts(c) \/ AdaptersRegistered(c) \/ AdapterFails(c) \/ Unregisters(c)
    \/ ChannelStarts(c) \/ GatewayStarts(c) \/ ChannelFails(c) \/ RollsBack(c)
    \/ StartFails(c)
StopperGoesOn(c) == ResumeStop(c) \/ ChannelStops(c) \/ GatewayStops(c)

Next == \/ \E c \in Starters : CallStart(c) \/ StarterGoesOn(c)
        \/ \E c \in Stoppers : CallStop(c) \/ StopperGoesOn(c)

\* What is awaited settles, and continuations run.
Fairness == /\ \A c \in Starters : WF_vars(StarterGoesOn(c))
            /\ \A c \in Stoppers : WF_vars(StopperGoesOn(c))

Spec == Init /\ [][Next]_vars
FairSpec == Spec /\ Fairness
-----------------------------------------------------------------------------
\* Types of the state.
TypeOK == /\ pc \in [Callers -> Places]
          /\ at \in 1..(size + 1)
          /\ auto \in BOOLEAN
          /\ size \in {0, NumOwn, NumOwn + NumAdapters}
          /\ running \in BOOLEAN /\ stopped \in BOOLEAN
          /\ memory \in {"none", "open", "threw"}
          /\ up \subseteq 1..size /\ lost \subseteq Channels
          /\ stuck \subseteq Channels
          /\ failures \in 0..MaxFailures

\* Callers that change the workspace: inside startInternal, or past the wait
\* of stopInternal.
Working == {c \in Callers : pc[c] \in StartPlaces \cup {"startOver", "stopsGateway"}}

\* docs/PHOENIX_RUNTIME.md: start and stop are single-flight and wait for each
\* other.  Of all callers one at a time initialises, starts, rolls back or
\* stops, so the gateway below never sees two calls of stop() at once.
OneAtATime == \A c, d \in Working : c = d

\* A workspace that says it runs, with no stop under way, has every channel of
\* its gateway up and is not marked as stopped.
RunningMeansServing ==
    running /\ Working = {} => up = 1..size /\ ~stopped

\* With nothing under way and nothing running the memory manager is closed,
\* and if no adapters were registered by the start itself no channel listens
\* except those whose stop threw.
DownMeansReleased ==
    ~running /\ Working = {} =>
        /\ memory # "open"
        /\ ~auto => up \cup lost \subseteq stuck

\* docs/PHOENIX_RUNTIME.md: a failed startup is recoverable and leaves nothing
\* behind, with adapters as well.
FailedStartLeavesNothing ==
    ~running /\ Working = {} => up \cup lost \subseteq stuck

\* Every call of start() and stop() returns.
CallsReturn == \A c \in Callers : pc[c] # "idle" ~> pc[c] = "idle"
=============================================================================
