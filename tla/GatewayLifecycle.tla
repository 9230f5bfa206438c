-------------------------- MODULE GatewayLifecycle --------------------------
(***************************************************************************)
(* Gateway.start and Gateway.stop (gateway/gateway.ts), called at any time *)
(* by any number of callers.  Each call is an async function that runs     *)
(* until it awaits a channel or one of the two promises by which calls     *)
(* join a start or a stop under way; a step of the model is one such run.  *)
(* A promise is named by the caller whose startChannels or stopChannels it *)
(* stands for.  When it settles, its caller's finally clause runs first    *)
(* (it awaited first), so both are one step; the other calls waiting for   *)
(* it go on one by one, in any order, before the event loop turns to the   *)
(* next timer, message or call from outside.                               *)
(***************************************************************************)
EXTENDS Naturals, FiniteSets

CONSTANTS Starters, Stoppers,  \* callers of start() and of stop()
          Nobody,              \* the promise is undefined
          NumChannels,         \* channels registered, in the order of the Map
          MaxFailures          \* bound: channel starts and stops that throw

ASSUME CallerAssumption == /\ Starters \cap Stoppers = {}
                           /\ Nobody \notin Starters \cup Stoppers
ASSUME ChannelAssumption == NumChannels \in Nat \ {0} /\ MaxFailures \in Nat

VARIABLES pc,            \* where each caller stands
          at,            \* the channel its loop awaits
          waitsFor,      \* whose promise it awaits
          startPromise, stopPromise,
          running,
          up,            \* channels that serve
          stuck,         \* channels whose last stop threw
          failures       \* channel starts and stops that threw so far

vars == <<pc, at, waitsFor, startPromise, stopPromise, running, up, stuck, failures>>

\* A caller makes one call after the other.
Callers == Starters \cup Stoppers
Channels == 1..NumChannels
Places == {"idle", "awaitsStop", "stopOver", "joinsStart", "starting", "rollsBack",
           "awaitsStart", "startOver", "joinsStop", "stopping"}

Init == /\ pc = [c \in Callers |-> "idle"]
        /\ at = [c \in Callers |-> 1]
        /\ waitsFor = [c \in Callers |-> Nobody]
        /\ startPromise = Nobody /\ stopPromise = Nobody
        /\ running = FALSE
        /\ up = {} /\ stuck = {}
        /\ failures = 0
-----------------------------------------------------------------------------
Awaits(c, place, owner) == /\ pc' = [pc EXCEPT ![c] = place]
                           /\ waitsFor' = [waitsFor EXCEPT ![c] = owner]
                           /\ UNCHANGED at

Returns(c) == pc' = [pc EXCEPT ![c] = "idle"] /\ UNCHANGED <<at, waitsFor>>

Loops(c, place) == /\ pc' = [pc EXCEPT ![c] = place]
                   /\ at' = [at EXCEPT ![c] = 1]
                   /\ UNCHANGED waitsFor

\* Mutant: the promise never settles for the calls that wait for it.
SettlesForOwner(owner) == pc' = [pc EXCEPT ![owner] = "idle"]

\* Owner's promise settles: owner and the calls that joined it return, the
\* calls that only waited for it to be over are about to go on.
Settles(owner) ==
    pc' = [c \in Callers |->
              IF c = owner THEN "idle"
              ELSE IF waitsFor[c] # owner THEN pc[c]
              ELSE CASE pc[c] \in {"joinsStart", "joinsStop"} -> "idle"
                     [] pc[c] = "awaitsStart" -> "startOver"
                     [] pc[c] = "awaitsStop" -> "stopOver"
                     [] OTHER -> pc[c]]
\* No continuation is queued: the event loop may run code that makes a call.
Quiet == \A c \in Callers : pc[c] \notin {"startOver", "stopOver"}
-----------------------------------------------------------------------------
\* Mutant: a start does not join the start under way.
EnterStartAlone(c) ==
    /\ \/ running /\ Returns(c) /\ UNCHANGED startPromise
       \/ ~running /\ startPromise' = c /\ Loops(c, "starting")
    /\ UNCHANGED <<stopPromise, running, up, stuck, failures>>

\* start() from its check of running on.
EnterStart(c) ==
    /\ \/ running /\ Returns(c) /\ UNCHANGED startPromise
       \/ /\ ~running /\ startPromise # Nobody
          /\ Awaits(c, "joinsStart", startPromise)
          /\ UNCHANGED startPromise
       \/ /\ ~running /\ startPromise = Nobody
          /\ startPromise' = c
          /\ Loops(c, "starting")
    /\ UNCHANGED <<stopPromise, running, up, stuck, failures>>

CallStart(c) ==
    /\ pc[c] = "idle" /\ Quiet
    /\ \/ /\ stopPromise # Nobody
          /\ Awaits(c, "awaitsStop", stopPromise)
          /\ UNCHANGED <<startPromise, stopPromise, running, up, stuck, failures>>
       \/ stopPromise = Nobody /\ EnterStart(c)

ResumeStart(c) == pc[c] = "stopOver" /\ EnterStart(c)

\* Mutant: the loop runs one channel too far.
PastLast(c) == at[c] > NumChannels

\* The loop of c is at the last channel.
AtLast(c) == at[c] = NumChannels

\* channel.start() fulfils; after the last channel the gateway runs.
ChannelStarts(c) ==
    /\ pc[c] = "starting"
    /\ up' = up \cup {at[c]} /\ stuck' = stuck \ {at[c]}
    /\ \/ /\ ~AtLast(c)
          /\ at' = [at EXCEPT ![c] = @ + 1]
          /\ UNCHANGED <<pc, startPromise, running>>
       \/ /\ AtLast(c)
          /\ running' = TRUE
          /\ startPromise' = Nobody
          /\ Settles(c)
          /\ UNCHANGED at
    /\ UNCHANGED <<waitsFor, stopPromise, failures>>

\* The startup has failed: the promise rejects.
StartFails(c) == /\ running' = FALSE
                 /\ startPromise' = Nobody
                 /\ Settles(c)
                 /\ UNCHANGED at

\* Mutant: the channels started before the failure are left as they are.
FailsWithoutRollback(c) ==
    /\ pc[c] = "starting" /\ failures < MaxFailures
    /\ failures' = failures + 1
    /\ StartFails(c)
    /\ UNCHANGED <<waitsFor, stopPromise, up, stuck>>

\* channel.start() rejects: the channels started before are stopped, the last
\* one first.
ChannelStartFails(c) ==
    /\ pc[c] = "starting" /\ failures < MaxFailures
    /\ failures' = failures + 1
    /\ \/ at[c] = 1 /\ StartFails(c)
       \/ /\ at[c] > 1
          /\ pc' = [pc EXCEPT ![c] = "rollsBack"]
          /\ at' = [at EXCEPT ![c] = @ - 1]
          /\ UNCHANGED <<startPromise, running>>
    /\ UNCHANGED <<waitsFor, stopPromise, up, stuck>>

\* What channel.stop() does to the channel: a stop that throws leaves it up.
StopsChannel(i) ==
    \/ up' = up \ {i} /\ stuck' = stuck \ {i} /\ UNCHANGED failures
    \/ /\ failures < MaxFailures /\ i \in up
       /\ failures' = failures + 1
       /\ stuck' = stuck \cup {i}
       /\ UNCHANGED up

RollsBack(c) ==
    /\ pc[c] = "rollsBack"
    /\ StopsChannel(at[c])
    /\ \/ at[c] = 1 /\ StartFails(c)
       \/ /\ at[c] > 1
          /\ at' = [at EXCEPT ![c] = @ - 1]
          /\ UNCHANGED <<pc, startPromise, running>>
    /\ UNCHANGED <<waitsFor, stopPromise>>
-----------------------------------------------------------------------------
\* stop() from its check of running on; stopPromise is not looked at again.
EnterStop(c) ==
    /\ \/ ~running /\ Returns(c) /\ UNCHANGED stopPromise
       \/ running /\ stopPromise' = c /\ Loops(c, "stopping")
    /\ UNCHANGED <<startPromise, running, up, stuck, failures>>

CallStop(c) ==
    /\ pc[c] = "idle" /\ Quiet
    /\ \/ /\ stopPromise # Nobody
          /\ Awaits(c, "joinsStop", stopPromise)
          /\ UNCHANGED <<startPromise, stopPromise, running, up, stuck, failures>>
       \/ /\ stopPromise = Nobody /\ startPromise # Nobody
          /\ Awaits(c, "awaitsStart", startPromise)
          /\ UNCHANGED <<startPromise, stopPromise, running, up, stuck, failures>>
       \/ stopPromise = Nobody /\ startPromise = Nobody /\ EnterStop(c)

ResumeStop(c) == pc[c] = "startOver" /\ EnterStop(c)

\* After the last channel the gateway is stopped, and whatever stopPromise
\* holds by now is cleared.
StopEnds(c) == /\ running' = FALSE
               /\ stopPromise' = Nobody
               /\ Settles(c)
               /\ UNCHANGED at

\* channel.stop() settles either way.
ChannelStops(c) ==
    /\ pc[c] = "stopping"
    /\ StopsChannel(at[c])
    /\ \/ /\ ~AtLast(c)
          /\ at' = [at EXCEPT ![c] = @ + 1]
          /\ UNCHANGED <<pc, stopPromise, running>>
       \/ AtLast(c) /\ StopEnds(c)
    /\ UNCHANGED <<waitsFor, startPromise>>
-----------------------------------------------------------------------------
StarterGoesOn(c) == \/ ResumeStart(c) \/ ChannelStarts(c) \/ ChannelStartFails(c)
                    \/ RollsBack(c)
StopperGoesOn(c) == ResumeStop(c) \/ ChannelStops(c)

Next == \/ \E c \in Starters : CallStart(c) \/ StarterGoesOn(c)
        \/ \E c \in Stoppers : CallStop(c) \/ StopperGoesOn(c)

\* Channels settle what they are asked, and continuations run.
Fairness == /\ \A c \in Starters : WF_vars(StarterGoesOn(c))
            /\ \A c \in Stoppers : WF_vars(StopperGoesOn(c))

Spec == Init /\ [][Next]_vars
FairSpec == Spec /\ Fairness
-----------------------------------------------------------------------------
\* Types of the state.
TypeOK == /\ pc \in [Callers -> Places]
          /\ at \in [Callers -> Channels]
          /\ waitsFor \in [Callers -> Callers \cup {Nobody}]
          /\ startPromise \in Starters \cup {Nobody}
          /\ stopPromise \in Stoppers \cup {Nobody}
          /\ running \in BOOLEAN
          /\ up \subseteq Channels /\ stuck \subseteq Channels
          /\ failures \in 0..MaxFailures

Starting == {c \in Callers : pc[c] \in {"starting", "rollsBack"}}
Stopping == {c \in Callers : pc[c] = "stopping"}

\* tests/testGatewayStartup.ts, "concurrent gateway.start calls start channels
\* only once": no two calls start channels at the same time.
OneStartRun == \A c, d \in Starting : c = d

\* The same test of gateway.stop: no two calls stop channels at the same time.
OneStopRun == \A c, d \in Stopping : c = d

\* Channels are not started while they are being stopped, nor the other way.
StartStopExclude == Starting = {} \/ Stopping = {}

\* However calls of start() and stop() overlap, one start at a time moves channels,
\* and no stop meanwhile.
OneAtATime == OneStartRun /\ StartStopExclude

\* While the gateway says it runs and no stop is under way, every channel is up.
RunningMeansUp == running /\ Stopping = {} => up = Channels

\* While it says it is stopped and nothing is under way, no channel is left up
\* except those whose stop threw: a failed start rolls back, and a stop that
\* hits an error goes on with the other channels.
StoppedMeansDown == ~running /\ Starting = {} /\ Stopping = {} => up \subseteq stuck

\* What the gateway says of itself is true of its channels.
FlagIsTrue == RunningMeansUp /\ StoppedMeansDown

\* Every call of start() and stop() returns.
CallsReturn == \A c \in Callers : pc[c] # "idle" ~> pc[c] = "idle"
=============================================================================
