---------------------- MODULE WorkspaceLifecycleProofs ----------------------
(***************************************************************************)
(* The safety of start() and stop() of the workspace, for any number of    *)
(* callers, channels and adapters.                                         *)
(***************************************************************************)
EXTENDS WorkspaceLifecycle, TLAPS

\* Who may be where: starters start and stoppers stop.
RightPlaces ==
    /\ pc \in [Callers -> Places]
    /\ \A c \in Starters : pc[c] \in StartPlaces \cup {"idle", "awaitsStop", "stopOver", "joinsStart"}
    /\ \A c \in Stoppers : pc[c] \in StopPlaces \cup {"idle", "joinsStop"}

\* Each promise has one owner, and a stop goes on when no start is under way.
OneOwner ==
    /\ \A c, d \in Callers : pc[c] \in StartPlaces /\ pc[d] \in StartPlaces => c = d
    /\ \A c, d \in Callers : pc[c] \in StopPlaces /\ pc[d] \in StopPlaces => c = d
    /\ \A c, d \in Callers : pc[c] \in {"startOver", "stopsGateway"} => pc[d] \notin StartPlaces
    /\ \A c, d \in Callers : pc[c] = "stopOver" => pc[d] \notin StopPlaces

OrderInv == RightPlaces /\ OneOwner

\* What the loops over the channels have done so far.
Loops ==
    /\ size \in Nat /\ at \in Nat \ {0}
    /\ up \subseteq 1..size
    /\ \A c \in Callers : pc[c] = "startsGateway" => \A i \in 1..size : i < at => i \in up

\* The flags of a workspace while no stop changes them.
Flags ==
    /\ running => \A c \in Callers : pc[c] \notin StartPlaces
    /\ (\E c \in Callers : pc[c] = "stopsGateway") => running
    /\ (\E c \in Callers : pc[c] \in StartPlaces) => ~stopped
    /\ running => ~stopped
    /\ running /\ (\A c \in Callers : pc[c] # "stopsGateway") => up = 1..size

IInv == OrderInv /\ Loops /\ Flags
-----------------------------------------------------------------------------
\* The owner of the start promise goes to another place.
LEMMA StarterMoves ==
    ASSUME OrderInv, NEW c \in Starters, pc[c] \in StartPlaces,
           NEW place \in StartPlaces, Goes(c, place)
    PROVE OrderInv'
  BY CallerAssumption
     DEF OrderInv, RightPlaces, OneOwner, Goes, Callers, Places, StartPlaces, StopPlaces

\* The start promise settles: nothing is under way but a stop that goes on.
LEMMA StartSettled ==
    ASSUME OrderInv, NEW c \in Starters, pc[c] \in StartPlaces, StartSettles(c)
    PROVE /\ OrderInv'
          /\ \A d \in Callers : pc'[d] \notin StartPlaces /\ pc'[d] # "stopsGateway"
  BY CallerAssumption
     DEF OrderInv, RightPlaces, OneOwner, StartSettles, Callers, Places, StartPlaces, StopPlaces

\* A call of start() that goes on enters only while no stop is under way.
LEMMA StartEntered ==
    ASSUME OrderInv, NEW c \in Starters, EnterStart(c),
           \/ pc[c] = "idle" /\ Quiet /\ ~StopUnderWay
           \/ pc[c] = "stopOver"
    PROVE /\ OrderInv'
          /\ \A d \in Callers : pc'[d] = "stopsGateway" <=> pc[d] = "stopsGateway"
          /\ \A d \in Callers : pc'[d] = "startsGateway" <=> pc[d] = "startsGateway"
  BY CallerAssumption
     DEF OrderInv, RightPlaces, OneOwner, EnterStart, Goes, Quiet, StopUnderWay,
         StartUnderWay, Callers, Places, StartPlaces, StopPlaces

\* The stop promise settles: starts that waited for it may go on.
LEMMA StopSettled ==
    ASSUME OrderInv, NEW c \in Stoppers, StopSettles(c),
           \/ pc[c] \in {"startOver", "stopsGateway"}
           \/ pc[c] = "idle" /\ ~StopUnderWay /\ ~StartUnderWay
    PROVE /\ OrderInv'
          /\ \A d \in Callers : pc'[d] \notin StartPlaces /\ pc'[d] # "stopsGateway"
  BY CallerAssumption
     DEF OrderInv, RightPlaces, OneOwner, StopSettles, StopUnderWay, StartUnderWay,
         Callers, Places, StartPlaces, StopPlaces

\* A stop begins to stop the gateway when no start is under way.
LEMMA StopsGateway ==
    ASSUME OrderInv, NEW c \in Stoppers, Goes(c, "stopsGateway"),
           \/ pc[c] = "startOver"
           \/ pc[c] = "idle" /\ Quiet /\ ~StopUnderWay /\ ~StartUnderWay
    PROVE /\ OrderInv'
          /\ \A d \in Callers : pc'[d] \notin StartPlaces
          /\ pc'[c] = "stopsGateway"
  BY CallerAssumption
     DEF OrderInv, RightPlaces, OneOwner, Goes, Quiet, StopUnderWay, StartUnderWay,
         Callers, Places, StartPlaces, StopPlaces

\* A call that finds a promise of the other kind, or of its own, waits for it.
LEMMA CallWaits ==
    ASSUME OrderInv, Quiet, NEW c \in Callers, pc[c] = "idle", NEW place, Goes(c, place),
           \/ c \in Starters /\ place = "awaitsStop"
           \/ c \in Stoppers /\ place = "joinsStop"
           \/ c \in Stoppers /\ place = "awaitsStart" /\ ~StopUnderWay
    PROVE /\ OrderInv'
          /\ \A d \in Callers : /\ pc'[d] = "stopsGateway" <=> pc[d] = "stopsGateway"
                                /\ pc'[d] = "startsGateway" <=> pc[d] = "startsGateway"
                                /\ pc'[d] \in StartPlaces <=> pc[d] \in StartPlaces
<1>1. place \in {"awaitsStop", "joinsStop", "awaitsStart"} /\ c \in Callers
  BY DEF Callers
<1>2. \A d \in Callers : pc'[d] = IF d = c THEN place ELSE pc[d]
  BY DEF Goes, OrderInv, RightPlaces
<1>3. pc' \in [Callers -> Places]
  BY <1>1 DEF Goes, OrderInv, RightPlaces, Places, StopPlaces
<1>4. RightPlaces'
  BY <1>1, <1>2, <1>3, CallerAssumption
     DEF OrderInv, RightPlaces, Callers, StartPlaces, StopPlaces
<1>5. OneOwner'
  BY <1>1, <1>2, CallerAssumption
     DEF OrderInv, OneOwner, Quiet, StopUnderWay, StartPlaces, StopPlaces
<1>6. \A d \in Callers : /\ pc'[d] = "stopsGateway" <=> pc[d] = "stopsGateway"
                         /\ pc'[d] = "startsGateway" <=> pc[d] = "startsGateway"
                         /\ pc'[d] \in StartPlaces <=> pc[d] \in StartPlaces
  BY <1>1, <1>2 DEF StartPlaces
<1> QED BY <1>4, <1>5, <1>6 DEF OrderInv
-----------------------------------------------------------------------------
\* The invariant holds initially.
LEMMA InitIInv == Init => IInv
  BY CallerAssumption
     DEF Init, IInv, OrderInv, RightPlaces, OneOwner, Loops, Flags, Callers, Places,
         StartPlaces, StopPlaces

\* While a start is under way nothing runs and no stop moves the channels.
LEMMA WhileStarting ==
    ASSUME IInv, NEW c \in Starters, pc[c] \in StartPlaces
    PROVE /\ ~running /\ ~stopped
          /\ \A d \in Callers : pc[d] # "stopsGateway"
          /\ \A d \in Callers : pc[d] = "startsGateway" => d = c
  BY DEF IInv, OrderInv, OneOwner, Flags, Callers, StartPlaces

\* Every step of a start that leaves the promise unsettled keeps the invariant.
LEMMA StarterStep ==
    ASSUME IInv, NEW c \in Starters,
           \/ OpensMemory(c) \/ BuildsGateway(c) \/ InitializeThrows(c)
           \/ AdapterStarts(c) \/ AdaptersRegistered(c) \/ AdapterFails(c) \/ Unregisters(c)
           \/ ChannelStarts(c) \/ ChannelFails(c) \/ RollsBack(c)
    PROVE IInv'
<1>1. pc[c] \in StartPlaces /\ UNCHANGED <<running, stopped>>
  BY DEF OpensMemory, BuildsGateway, InitializeThrows, AdapterStarts, AdaptersRegistered,
         AdapterFails, Unregisters, ChannelStarts, ChannelFails, RollsBack, StartPlaces
<1>2. ~running /\ ~stopped /\ \A d \in Callers : pc[d] = "startsGateway" => d = c
  BY <1>1, WhileStarting
<1>3. UNCHANGED pc \/ \E place \in StartPlaces : Goes(c, place)
  BY DEF OpensMemory, BuildsGateway, InitializeThrows, AdapterStarts, AdaptersRegistered,
         AdapterFails, Unregisters, ChannelStarts, ChannelFails, RollsBack, StartPlaces
<1>4. OrderInv' /\ pc'[c] \in StartPlaces
  <2>1. CASE UNCHANGED pc
    BY <1>1, <2>1 DEF IInv, OrderInv, RightPlaces, OneOwner
  <2>2. CASE \E place \in StartPlaces : Goes(c, place)
    BY <1>1, <2>2, StarterMoves DEF IInv, OrderInv, RightPlaces, Goes, Callers
  <2> QED BY <1>3, <2>1, <2>2
<1>5. \A d \in Callers : pc'[d] = "startsGateway" => d = c
  BY <1>4 DEF OrderInv, OneOwner, Callers, StartPlaces
<1>6. \A d \in Callers : pc'[d] # "stopsGateway"
  BY <1>4 DEF OrderInv, OneOwner, Callers
<1>7. Flags'
  BY <1>1, <1>2, <1>6 DEF Flags
<1>8. Loops'
  <2>1. CASE \/ OpensMemory(c) \/ InitializeThrows(c) \/ AdapterFails(c)
    BY <1>1, <1>5, <2>1 DEF IInv, OrderInv, RightPlaces, Loops, OpensMemory,
       InitializeThrows, AdapterFails, Goes, Callers
  <2>2. CASE BuildsGateway(c)
    BY <1>1, <1>5, <2>2, ChannelAssumption DEF IInv, OrderInv, RightPlaces, Loops,
       BuildsGateway, Goes, Callers
  <2>3. CASE AdapterStarts(c)
    BY <1>1, <1>5, <2>3, ChannelAssumption DEF IInv, Loops, AdapterStarts
  <2>4. CASE AdaptersRegistered(c)
    BY <1>1, <1>5, <2>4 DEF IInv, Loops, AdaptersRegistered
  <2>5. CASE Unregisters(c)
    <3>1. \A d \in Callers : pc'[d] # "startsGateway"
      BY <1>5, <2>5 DEF IInv, OrderInv, RightPlaces, Unregisters, Goes, Callers
    <3>2. at' \in Nat \ {0} /\ size' \in Nat
      BY <2>5, ChannelAssumption DEF IInv, Loops, Unregisters
    <3>3. up' = {} \/ (up' \subseteq up /\ size' = size)
      BY <2>5 DEF Unregisters, StopsChannel
    <3>4. up' \subseteq 1..size'
      BY <3>3 DEF IInv, Loops
    <3> QED BY <3>1, <3>2, <3>4 DEF Loops
  <2>6. CASE ChannelStarts(c)
    BY <1>1, <1>5, <2>6 DEF IInv, Loops, ChannelStarts
  <2>7. CASE ChannelFails(c)
    BY <1>1, <1>5, <2>7 DEF IInv, OrderInv, RightPlaces, Loops, ChannelFails, Goes, Callers
  <2>8. CASE RollsBack(c)
    <3>1. \A d \in Callers : pc'[d] # "startsGateway"
      BY <1>5, <2>8 DEF IInv, OrderInv, RightPlaces, RollsBack, Goes, Callers
    <3>2. at' \in Nat \ {0} /\ size' \in Nat
      BY <2>8, ChannelAssumption DEF IInv, Loops, RollsBack
    <3>3. up' = {} \/ (up' \subseteq up /\ size' = size)
      BY <2>8 DEF RollsBack, StopsChannel
    <3>4. up' \subseteq 1..size'
      BY <3>3 DEF IInv, Loops
    <3> QED BY <3>1, <3>2, <3>4 DEF Loops
  <2> QED BY <2>1, <2>2, <2>3, <2>4, <2>5, <2>6, <2>7, <2>8
<1> QED BY <1>4, <1>7, <1>8 DEF IInv

\* The end of a start, and the settling of its promise, keep the invariant.
LEMMA StartEnds ==
    ASSUME IInv, NEW c \in Starters, GatewayStarts(c) \/ StartFails(c)
    PROVE IInv'
<1>1. pc[c] \in StartPlaces /\ StartSettles(c) /\ UNCHANGED <<size, stopped, up>>
  BY DEF GatewayStarts, StartFails, StartPlaces
<1>2. OrderInv' /\ \A d \in Callers : pc'[d] \notin StartPlaces /\ pc'[d] # "stopsGateway"
  BY <1>1, StartSettled DEF IInv
<1>3. ~stopped
  BY <1>1, WhileStarting
<1>4. at' \in Nat \ {0} /\ (running' => up = 1..size)
  <2>1. CASE GatewayStarts(c)
    <3>1. /\ size \in Nat /\ at \in Nat /\ at > size /\ up \subseteq 1..size
          /\ \A i \in 1..size : i < at => i \in up
      BY <2>1 DEF IInv, Loops, GatewayStarts, Callers
    <3>2. \A i \in 1..size : i \in up
      BY <3>1
    <3>3. up = 1..size
      BY <3>1, <3>2, Zenon
    <3> QED BY <2>1, <3>3 DEF GatewayStarts
  <2>2. CASE StartFails(c)
    BY <2>2 DEF IInv, Loops, StartFails
  <2> QED BY <2>1, <2>2
<1>5. Loops'
  BY <1>1, <1>2, <1>4 DEF IInv, Loops, StartPlaces
<1>6. Flags'
  BY <1>1, <1>2, <1>3, <1>4 DEF Flags
<1> QED BY <1>2, <1>5, <1>6 DEF IInv

\* A call that only waits keeps the invariant.
LEMMA WaitsStep ==
    ASSUME IInv, Quiet, NEW c \in Callers, pc[c] = "idle", NEW place, Goes(c, place),
           \/ c \in Starters /\ place = "awaitsStop"
           \/ c \in Stoppers /\ place = "joinsStop"
           \/ c \in Stoppers /\ place = "awaitsStart" /\ ~StopUnderWay,
           UNCHANGED <<at, size, running, stopped, up>>
    PROVE IInv'
<1>1. /\ OrderInv'
      /\ \A d \in Callers : /\ pc'[d] = "stopsGateway" <=> pc[d] = "stopsGateway"
                            /\ pc'[d] = "startsGateway" <=> pc[d] = "startsGateway"
                            /\ pc'[d] \in StartPlaces <=> pc[d] \in StartPlaces
  BY CallWaits DEF IInv
<1>2. Loops'
  BY <1>1 DEF IInv, Loops
<1>3. Flags'
  BY <1>1 DEF IInv, Flags
<1> QED BY <1>1, <1>2, <1>3 DEF IInv

\* A call of start() that enters keeps the invariant.
LEMMA EnterStartStep ==
    ASSUME IInv, NEW c \in Starters, EnterStart(c),
           \/ pc[c] = "idle" /\ Quiet /\ ~StopUnderWay
           \/ pc[c] = "stopOver"
    PROVE IInv'
<1>1. /\ OrderInv'
      /\ \A d \in Callers : pc'[d] = "stopsGateway" <=> pc[d] = "stopsGateway"
      /\ \A d \in Callers : pc'[d] = "startsGateway" <=> pc[d] = "startsGateway"
  BY StartEntered DEF IInv
<1>2. UNCHANGED <<at, size, running, up>>
  BY DEF EnterStart
<1>3. Loops'
  BY <1>1, <1>2 DEF IInv, Loops
<1>4. CASE /\ stopped' = stopped
           /\ Goes(c, "joinsStart") \/ Goes(c, "idle")
  <2>1. \A d \in Callers : pc'[d] \in StartPlaces => pc[d] \in StartPlaces
    BY <1>4 DEF IInv, OrderInv, RightPlaces, Goes, Callers, StartPlaces
  <2>2. Flags'
    BY <1>1, <1>2, <1>4, <2>1 DEF IInv, Flags
  <2> QED BY <1>1, <1>3, <2>2 DEF IInv
<1>5. CASE Goes(c, "initializes") /\ ~running /\ stopped' = FALSE
  <2>1. Flags'
    BY <1>1, <1>2, <1>5 DEF IInv, Flags
  <2> QED BY <1>1, <1>3, <2>1 DEF IInv
<1> QED BY <1>4, <1>5 DEF EnterStart

\* The end of a stop, and the settling of its promise, keep the invariant.
LEMMA StopEndsStep ==
    ASSUME IInv, NEW c \in Stoppers, StopEnds(c), UNCHANGED <<size, up>>,
           at' \in Nat \ {0},
           \/ pc[c] \in {"startOver", "stopsGateway"}
           \/ pc[c] = "idle" /\ ~StopUnderWay /\ ~StartUnderWay
    PROVE IInv'
<1>1. OrderInv' /\ \A d \in Callers : pc'[d] \notin StartPlaces /\ pc'[d] # "stopsGateway"
  BY StopSettled DEF IInv, StopEnds
<1>2. ~running'
  BY DEF StopEnds
<1>3. Loops'
  BY <1>1 DEF IInv, Loops, StartPlaces
<1>4. Flags'
  BY <1>1, <1>2 DEF Flags
<1> QED BY <1>1, <1>3, <1>4 DEF IInv

\* A call of stop() that enters keeps the invariant.
LEMMA EnterStopStep ==
    ASSUME IInv, NEW c \in Stoppers, EnterStop(c),
           \/ pc[c] = "startOver"
           \/ pc[c] = "idle" /\ Quiet /\ ~StopUnderWay /\ ~StartUnderWay
    PROVE IInv'
<1>1. UNCHANGED <<size, up>>
  BY DEF EnterStop
<1>2. CASE stopped /\ StopSettles(c) /\ UNCHANGED <<at, running, stopped>>
  <2>1. OrderInv' /\ \A d \in Callers : pc'[d] \notin StartPlaces /\ pc'[d] # "stopsGateway"
    BY <1>2, StopSettled DEF IInv
  <2>2. Loops'
    BY <1>1, <1>2, <2>1 DEF IInv, Loops, StartPlaces
  <2>3. Flags'
    BY <1>1, <1>2, <2>1 DEF IInv, Flags
  <2> QED BY <2>1, <2>2, <2>3 DEF IInv
<1>3. CASE running /\ ~stopped /\ at' = 1 /\ Goes(c, "stopsGateway") /\ UNCHANGED <<running, stopped>>
  <2>1. /\ OrderInv' /\ pc'[c] = "stopsGateway"
        /\ \A d \in Callers : pc'[d] \notin StartPlaces
    BY <1>3, StopsGateway DEF IInv
  <2>2. Loops'
    BY <1>1, <1>3, <2>1 DEF IInv, Loops, StartPlaces
  <2>3. Flags'
    BY <1>1, <1>3, <2>1 DEF IInv, Flags, Callers
  <2> QED BY <2>1, <2>2, <2>3 DEF IInv
<1>4. CASE StopEnds(c) /\ UNCHANGED at
  BY <1>1, <1>4, StopEndsStep DEF IInv, Loops
<1> QED BY <1>2, <1>3, <1>4 DEF EnterStop

\* Stopping a channel keeps the invariant.
LEMMA ChannelStopsStep ==
    ASSUME IInv, NEW c \in Stoppers, ChannelStops(c)
    PROVE IInv'
<1>1. /\ UNCHANGED <<pc, size, running, stopped>> /\ pc[c] = "stopsGateway"
      /\ up' \subseteq up /\ at' = at + 1
  BY DEF ChannelStops, StopsChannel
<1>2. OrderInv'
  BY <1>1 DEF IInv, OrderInv, RightPlaces, OneOwner
<1>3. \A d \in Callers : pc[d] # "startsGateway"
  BY <1>1 DEF IInv, OrderInv, OneOwner, Callers, StartPlaces
<1>4. Loops'
  BY <1>1, <1>3 DEF IInv, Loops
<1>5. Flags'
  BY <1>1 DEF IInv, Flags, Callers
<1> QED BY <1>2, <1>4, <1>5 DEF IInv

\* Every step keeps the invariant.
LEMMA NextIInv == IInv /\ [Next]_vars => IInv'
<1> SUFFICES ASSUME IInv, [Next]_vars PROVE IInv'
  OBVIOUS
<1>1. ASSUME NEW c \in Starters, CallStart(c) PROVE IInv'
  <2>1. pc[c] = "idle" /\ Quiet /\ c \in Callers
    BY <1>1 DEF CallStart, Callers
  <2>2. CASE Goes(c, "awaitsStop") /\ UNCHANGED <<at, size, running, stopped, up>>
    BY <2>1, <2>2, WaitsStep
  <2>3. CASE ~StopUnderWay /\ EnterStart(c)
    BY <2>1, <2>3, EnterStartStep
  <2> QED BY <1>1, <2>2, <2>3 DEF CallStart
<1>2. ASSUME NEW c \in Starters, StarterGoesOn(c) PROVE IInv'
  <2>1. CASE ResumeStart(c)
    BY <2>1, EnterStartStep DEF ResumeStart
  <2>2. CASE GatewayStarts(c) \/ StartFails(c)
    BY <2>2, StartEnds
  <2> QED BY <1>2, <2>1, <2>2, StarterStep DEF StarterGoesOn
<1>3. ASSUME NEW c \in Stoppers, CallStop(c) PROVE IInv'
  <2>1. pc[c] = "idle" /\ Quiet /\ c \in Callers
    BY <1>3 DEF CallStop, Callers
  <2>2. CASE Goes(c, "joinsStop") /\ UNCHANGED <<at, size, running, stopped, up>>
    BY <2>1, <2>2, WaitsStep
  <2>3. CASE ~StopUnderWay /\ Goes(c, "awaitsStart") /\ UNCHANGED <<at, size, running, stopped, up>>
    BY <2>1, <2>3, WaitsStep
  <2>4. CASE ~StopUnderWay /\ ~StartUnderWay /\ EnterStop(c)
    BY <2>1, <2>4, EnterStopStep
  <2> QED BY <1>3, <2>2, <2>3, <2>4 DEF CallStop
<1>4. ASSUME NEW c \in Stoppers, StopperGoesOn(c) PROVE IInv'
  <2>1. CASE ResumeStop(c)
    BY <2>1, EnterStopStep DEF ResumeStop
  <2>2. CASE ChannelStops(c)
    BY <2>2, ChannelStopsStep
  <2>3. CASE GatewayStops(c)
    <3>1. /\ StopEnds(c) /\ UNCHANGED <<size, up>> /\ at' \in Nat \ {0}
          /\ pc[c] = "stopsGateway"
      BY <2>3 DEF GatewayStops
    <3> QED BY <3>1, StopEndsStep
  <2> QED BY <1>4, <2>1, <2>2, <2>3 DEF StopperGoesOn
<1>5. CASE UNCHANGED vars
  BY <1>5 DEF vars, IInv, OrderInv, RightPlaces, OneOwner, Loops, Flags
<1> QED BY <1>1, <1>2, <1>3, <1>4, <1>5 DEF Next

\* The invariant is one of every behaviour.
LEMMA Invariance == Spec => []IInv
  BY InitIInv, NextIInv, PTL DEF Spec
-----------------------------------------------------------------------------
\* However calls of start() and stop() overlap, one at a time changes the
\* workspace.
THEOREM StartAndStopExclude == Spec => []OneAtATime
<1>1. IInv => OneAtATime
  BY DEF IInv, OrderInv, RightPlaces, OneOwner, OneAtATime, Working, StartPlaces, StopPlaces
<1> QED BY <1>1, Invariance, PTL

\* A workspace that runs, and is not being stopped, serves on all channels.
THEOREM RunningIsServing == Spec => []RunningMeansServing
<1>1. IInv => RunningMeansServing
  <2> SUFFICES ASSUME IInv, running, Working = {} PROVE up = 1..size /\ ~stopped
    BY DEF RunningMeansServing
  <2>1. \A c \in Callers : pc[c] # "stopsGateway"
    BY DEF Working
  <2> QED BY <2>1 DEF IInv, Flags
<1> QED BY <1>1, Invariance, PTL
-----------------------------------------------------------------------------
\* The types of the flags, and the others given the places that IInv has.
FlagTypes == auto \in BOOLEAN /\ running \in BOOLEAN /\ stopped \in BOOLEAN

Numbers ==
    /\ size \in {0, NumOwn, NumOwn + NumAdapters}
    /\ at \in 1..(size + 1)
    /\ failures \in 0..MaxFailures
    /\ memory \in {"none", "open", "threw"}

ChannelSets == up \subseteq 1..size /\ lost \subseteq Channels /\ stuck \subseteq Channels

LEMMA NextFlagTypes == FlagTypes /\ [Next]_vars => FlagTypes'
<1> SUFFICES ASSUME FlagTypes, [Next]_vars PROVE FlagTypes'
  OBVIOUS
<1>1. auto' = auto
  BY DEF Next, StarterGoesOn, StopperGoesOn, CallStart, ResumeStart, EnterStart, OpensMemory,
     BuildsGateway, InitializeThrows, AdapterStarts, AdaptersRegistered, AdapterFails,
     Unregisters, ChannelStarts, GatewayStarts, ChannelFails, RollsBack, StartFails, CallStop,
     ResumeStop, EnterStop, ChannelStops, GatewayStops, vars
<1>2. running' \in {running, TRUE, FALSE}
  BY DEF Next, StarterGoesOn, StopperGoesOn, CallStart, ResumeStart, EnterStart, OpensMemory,
     BuildsGateway, InitializeThrows, AdapterStarts, AdaptersRegistered, AdapterFails,
     Unregisters, ChannelStarts, GatewayStarts, ChannelFails, RollsBack, StartFails, CallStop,
     ResumeStop, EnterStop, ChannelStops, GatewayStops, StopEnds, vars
<1>3. stopped' \in {stopped, TRUE, FALSE}
  BY DEF Next, StarterGoesOn, StopperGoesOn, CallStart, ResumeStart, EnterStart, OpensMemory,
     BuildsGateway, InitializeThrows, AdapterStarts, AdaptersRegistered, AdapterFails,
     Unregisters, ChannelStarts, GatewayStarts, ChannelFails, RollsBack, StartFails, CallStop,
     ResumeStop, EnterStop, ChannelStops, GatewayStops, StopEnds, vars
<1> QED BY <1>1, <1>2, <1>3, Zenon DEF FlagTypes

LEMMA NextNumbers == Numbers /\ [Next]_vars => Numbers'
<1> SUFFICES ASSUME Numbers, [Next]_vars PROVE Numbers'
  OBVIOUS
<1>0. /\ size \in Nat /\ at \in Nat /\ 1 <= at /\ at <= size + 1 /\ failures \in Nat
      /\ NumOwn \in Nat /\ NumAdapters \in Nat /\ MaxFailures \in Nat
  BY ChannelAssumption, FailureAssumption DEF Numbers
<1>1. ASSUME Throws \/ UNCHANGED failures PROVE failures' \in 0..MaxFailures
  BY <1>0, <1>1 DEF Throws, Numbers
<1>2. ASSUME NEW i, StopsChannel(i) PROVE failures' \in 0..MaxFailures
  BY <1>1, <1>2 DEF StopsChannel
<1>3. ASSUME ClosesMemory
      PROVE memory' \in {"none", "open", "threw"} /\ failures' \in 0..MaxFailures
  BY <1>1, <1>3 DEF ClosesMemory, Numbers
<1>4. ASSUME NEW c \in Callers, StarterGoesOn(c) \/ CallStart(c) PROVE Numbers'
  <2>1. CASE EnterStart(c) \/ CallStart(c) \/ ResumeStart(c)
    BY <2>1 DEF CallStart, ResumeStart, EnterStart, Numbers
  <2>2. CASE OpensMemory(c) \/ InitializeThrows(c)
    <3>1. failures' \in 0..MaxFailures /\ UNCHANGED <<size, at>>
      BY <1>1, <2>2 DEF OpensMemory, InitializeThrows
    <3>2. memory' \in {"none", "open", "threw"}
      BY <2>2 DEF OpensMemory, InitializeThrows, Numbers
    <3> QED BY <3>1, <3>2 DEF Numbers
  <2>3. CASE BuildsGateway(c)
    BY <1>0, <2>3 DEF BuildsGateway, Numbers
  <2>4. CASE StartFails(c) \/ GatewayStarts(c)
    <3>1. UNCHANGED size /\ at' \in {1, at}
      BY <2>4 DEF StartFails, GatewayStarts
    <3>2. memory' \in {"none", "open", "threw"} /\ failures' \in 0..MaxFailures
      BY <1>3, <2>4 DEF StartFails, GatewayStarts, Numbers
    <3> QED BY <1>0, <3>1, <3>2 DEF Numbers
  <2>5. CASE AdapterStarts(c) \/ AdaptersRegistered(c) \/ ChannelStarts(c)
    <3>1. UNCHANGED <<size, memory, failures>> /\ (at' = 1 \/ (at' = at + 1 /\ at <= size))
      BY <2>5 DEF AdapterStarts, AdaptersRegistered, ChannelStarts
    <3> QED BY <1>0, <3>1 DEF Numbers
  <2>6. CASE AdapterFails(c) \/ ChannelFails(c)
    <3>1. failures' \in 0..MaxFailures /\ UNCHANGED <<size, at, memory>>
      BY <1>1, <2>6 DEF AdapterFails, ChannelFails
    <3> QED BY <3>1 DEF Numbers
  <2>7. CASE Unregisters(c)
    <3>1. failures' \in 0..MaxFailures /\ UNCHANGED memory
      BY <1>1, <1>2, <2>7 DEF Unregisters
    <3>2. \/ size' = size /\ at' = at - 1 /\ at > NumOwn + 1
          \/ size' = NumOwn /\ at' = at /\ at = NumOwn + 1
      BY <2>7 DEF Unregisters
    <3> QED BY <1>0, <3>1, <3>2 DEF Numbers
  <2>8. CASE RollsBack(c)
    <3>1. failures' \in 0..MaxFailures /\ UNCHANGED <<size, memory>>
      BY <1>1, <1>2, <2>8 DEF RollsBack
    <3>2. at' = at \/ (at > 1 /\ at' = at - 1)
      BY <2>8 DEF RollsBack
    <3> QED BY <1>0, <3>1, <3>2 DEF Numbers
  <2> QED BY <1>4, <2>1, <2>2, <2>3, <2>4, <2>5, <2>6, <2>7, <2>8 DEF StarterGoesOn
<1>5. ASSUME NEW c \in Callers, StopperGoesOn(c) \/ CallStop(c) PROVE Numbers'
  <2>1. CASE ChannelStops(c)
    <3>1. /\ failures' \in 0..MaxFailures /\ UNCHANGED <<size, memory>>
          /\ at' = at + 1 /\ at <= size
      BY <1>2, <2>1 DEF ChannelStops
    <3> QED BY <1>0, <3>1 DEF Numbers
  <2>2. CASE EnterStop(c) \/ CallStop(c) \/ ResumeStop(c) \/ GatewayStops(c)
    <3>1. UNCHANGED size /\ at' \in {1, at}
      BY <2>2 DEF CallStop, ResumeStop, EnterStop, GatewayStops
    <3>2. ClosesMemory \/ UNCHANGED <<memory, failures>>
      BY <2>2 DEF CallStop, ResumeStop, EnterStop, GatewayStops, StopEnds
    <3>3. memory' \in {"none", "open", "threw"} /\ failures' \in 0..MaxFailures
      BY <1>1, <1>3, <3>2 DEF Numbers
    <3> QED BY <1>0, <3>1, <3>3 DEF Numbers
  <2> QED BY <1>5, <2>1, <2>2 DEF StopperGoesOn
<1>6. CASE UNCHANGED vars
  BY <1>6 DEF vars, Numbers
<1> QED BY <1>4, <1>5, <1>6 DEF Next, Callers

LEMMA NextChannelSets == Numbers /\ ChannelSets /\ [Next]_vars => ChannelSets'
<1> SUFFICES ASSUME Numbers, ChannelSets, [Next]_vars PROVE ChannelSets'
  OBVIOUS
<1>0. /\ size \in Nat /\ at \in Nat /\ 1 <= at /\ 1..size \subseteq Channels
      /\ NumOwn \in Nat
  BY ChannelAssumption DEF Numbers, Channels
<1>1. ASSUME NEW i \in 1..size, StopsChannel(i)
      PROVE up' \subseteq 1..size /\ stuck' \subseteq Channels
  BY <1>0, <1>1 DEF StopsChannel, ChannelSets
<1>2. ASSUME NEW c \in Callers, BuildsGateway(c) PROVE ChannelSets'
  BY <1>0, <1>2 DEF BuildsGateway, ChannelSets
<1>3. ASSUME NEW c \in Callers, AdapterStarts(c) \/ ChannelStarts(c) PROVE ChannelSets'
  <2>1. at <= size /\ up' = up \cup {at} /\ UNCHANGED <<size, lost, stuck>>
    BY <1>3 DEF AdapterStarts, ChannelStarts
  <2>2. at \in 1..size
    BY <1>0, <2>1
  <2> QED BY <2>1, <2>2 DEF ChannelSets
<1>4. ASSUME NEW c \in Callers, ChannelFails(c) PROVE ChannelSets'
  BY <1>0, <1>4 DEF ChannelFails, ChannelSets
<1>5. ASSUME NEW c \in Callers, Unregisters(c) PROVE ChannelSets'
  <2>1. CASE at > NumOwn + 1 /\ StopsChannel(at - 1) /\ UNCHANGED <<size, lost>>
    <3>1. at - 1 \in 1..size
      BY <1>0, <2>1 DEF Numbers
    <3> QED BY <1>1, <2>1, <3>1 DEF ChannelSets
  <2>2. CASE lost' = lost \cup up /\ up' = {} /\ UNCHANGED stuck
    BY <1>0, <2>2 DEF ChannelSets
  <2> QED BY <1>5, <2>1, <2>2 DEF Unregisters
<1>6. ASSUME NEW c \in Callers, RollsBack(c) PROVE ChannelSets'
  <2>1. CASE at > 1 /\ StopsChannel(at - 1) /\ UNCHANGED <<size, lost>>
    <3>1. at - 1 \in 1..size
      BY <1>0, <2>1 DEF Numbers
    <3> QED BY <1>1, <2>1, <3>1 DEF ChannelSets
  <2>2. CASE UNCHANGED <<size, up, lost, stuck>>
    BY <2>2 DEF ChannelSets
  <2> QED BY <1>6, <2>1, <2>2 DEF RollsBack
<1>7. ASSUME NEW c \in Callers, ChannelStops(c) PROVE ChannelSets'
  <2>1. at \in 1..size /\ StopsChannel(at) /\ UNCHANGED <<size, lost>>
    BY <1>0, <1>7 DEF ChannelStops
  <2> QED BY <1>1, <2>1 DEF ChannelSets
<1>8. CASE UNCHANGED <<size, up, lost, stuck>>
  BY <1>8 DEF ChannelSets
<1>9. \/ UNCHANGED <<size, up, lost, stuck>>
      \/ \E c \in Callers : \/ BuildsGateway(c) \/ AdapterStarts(c) \/ ChannelStarts(c)
                            \/ ChannelFails(c) \/ Unregisters(c) \/ RollsBack(c)
                            \/ ChannelStops(c)
  BY DEF Next, StarterGoesOn, StopperGoesOn, CallStart, ResumeStart, EnterStart, OpensMemory,
     InitializeThrows, AdaptersRegistered, AdapterFails, GatewayStarts, StartFails, CallStop,
     ResumeStop, EnterStop, GatewayStops, vars, Callers
<1> QED BY <1>2, <1>3, <1>4, <1>5, <1>6, <1>7, <1>8, <1>9

LEMMA TypesAndPlaces == Spec => [](FlagTypes /\ Numbers /\ ChannelSets /\ IInv)
<1>1. Init => FlagTypes
  BY Zenon DEF Init, FlagTypes
<1>2. Init => Numbers /\ ChannelSets
  BY ChannelAssumption, FailureAssumption DEF Init, Numbers, ChannelSets
<1> QED BY <1>1, <1>2, InitIInv, NextIInv, NextFlagTypes, NextNumbers, NextChannelSets, PTL
        DEF Spec

\* Every reachable state is well typed: the loops over the channels stay within
\* them, however starts and stops overlap.
THEOREM TypeCorrect == Spec => []TypeOK
<1>1. FlagTypes /\ Numbers /\ ChannelSets /\ IInv => TypeOK
  BY Zenon DEF FlagTypes, Numbers, ChannelSets, TypeOK, IInv, OrderInv, RightPlaces
<1> QED BY <1>1, TypesAndPlaces, PTL
-----------------------------------------------------------------------------
\* What a workspace still holds: an open memory manager belongs to a run or to a
\* start; without adapters a channel that nobody will stop is one that could not
\* be stopped.
Released ==
    /\ memory = "open" => running \/ StartUnderWay
    /\ ~auto => /\ lost \subseteq stuck
                /\ \A c \in Callers :
                      /\ pc[c] \notin {"registers", "unregisters"}
                      /\ pc[c] = "startsGateway" => up \subseteq 1..(at - 1)
                      /\ pc[c] = "rollsBack" => up \subseteq stuck \cup 1..(at - 1)
                      /\ pc[c] = "stopsGateway" => up \subseteq stuck \cup at..size
                /\ \/ running
                   \/ \E c \in Callers : pc[c] \in {"startsGateway", "rollsBack"}
                   \/ up \subseteq stuck

\* Places where somebody works on the channels.
Hands == {"registers", "unregisters", "startsGateway", "rollsBack", "stopsGateway"}

\* A step that leaves the channels alone, and after which nobody works on them.
LEMMA NobodyWorks ==
    ASSUME UNCHANGED <<auto, up, lost, stuck>>,
           ~auto => lost \subseteq stuck /\ (running' \/ up \subseteq stuck),
           memory' = "open" => running' \/ StartUnderWay',
           \A c \in Callers : pc'[c] \notin Hands
    PROVE Released'
  BY DEF Released, Hands

\* A call that waits or returns changes nothing of Released.
LEMMA PlacesStay ==
    ASSUME Released, UNCHANGED <<at, auto, size, running, memory, up, lost, stuck>>,
           \A c \in Callers : \/ pc'[c] = pc[c]
                              \/ pc[c] \notin StartPlaces \cup Hands /\ pc'[c] \notin Hands
    PROVE Released'
  BY DEF Released, StartUnderWay, StartPlaces, Hands

\* While a start is under way, only its caller works on the channels, and memory
\* may be open.
LEMMA StarterAlone ==
    ASSUME IInv, NEW c \in Starters, pc[c] \in StartPlaces
    PROVE ~running /\ \A d \in Callers : d # c => pc[d] \notin StartPlaces \cup Hands
<1>1. ~running /\ \A d \in Callers : pc[d] # "stopsGateway"
  BY WhileStarting
<1>2. \A d \in Callers : d # c => pc[d] \notin StartPlaces
  BY DEF IInv, OrderInv, OneOwner, Callers
<1> QED BY <1>1, <1>2 DEF StartPlaces, Hands

LEMMA StarterReleases ==
    ASSUME IInv, IInv', Numbers, ChannelSets, Released, NEW c \in Starters,
           \/ OpensMemory(c) \/ BuildsGateway(c) \/ InitializeThrows(c)
           \/ AdapterStarts(c) \/ AdaptersRegistered(c) \/ AdapterFails(c) \/ Unregisters(c)
           \/ ChannelStarts(c) \/ ChannelFails(c) \/ RollsBack(c)
    PROVE Released'
<1>1. pc[c] \in StartPlaces /\ UNCHANGED <<running, auto>> /\ c \in Callers
  BY DEF OpensMemory, BuildsGateway, InitializeThrows, AdapterStarts, AdaptersRegistered,
         AdapterFails, Unregisters, ChannelStarts, ChannelFails, RollsBack, StartPlaces, Callers
<1>2. UNCHANGED pc \/ \E place \in StartPlaces : Goes(c, place)
  BY DEF OpensMemory, BuildsGateway, InitializeThrows, AdapterStarts, AdaptersRegistered,
         AdapterFails, Unregisters, ChannelStarts, ChannelFails, RollsBack, StartPlaces
<1>3. /\ ~running /\ \A d \in Callers : d # c => pc[d] \notin StartPlaces \cup Hands
      /\ \A d \in Callers : d # c => pc'[d] = pc[d]
      /\ pc'[c] \in StartPlaces /\ StartUnderWay'
  BY <1>1, <1>2, StarterAlone DEF IInv, OrderInv, RightPlaces, Goes, StartUnderWay
<1>4. /\ size \in Nat /\ at \in Nat /\ 1 <= at
  BY ChannelAssumption DEF Numbers
<1>5. CASE auto
  BY <1>1, <1>3, <1>5 DEF Released
<1>6. CASE ~auto /\ (OpensMemory(c) \/ InitializeThrows(c))
  <2>1. pc[c] \notin Hands /\ pc'[c] \notin Hands /\ UNCHANGED <<auto, up, lost, stuck>>
    BY <1>1, <1>6 DEF OpensMemory, InitializeThrows, Goes, Hands, IInv, OrderInv, RightPlaces
  <2>2. lost \subseteq stuck /\ up \subseteq stuck
    BY <1>3, <1>6, <2>1 DEF Released, Hands
  <2> QED BY <1>3, <2>1, <2>2, NobodyWorks
<1>7. CASE ~auto /\ BuildsGateway(c)
  <2>1. lost \subseteq stuck /\ up \subseteq stuck
    BY <1>3, <1>7 DEF Released, Hands, BuildsGateway
  <2>2. /\ lost' = lost \cup up /\ up' = {} /\ UNCHANGED stuck
        /\ pc'[c] = "startsGateway"
    BY <1>1, <1>7 DEF BuildsGateway, Goes, IInv, OrderInv, RightPlaces
  <2> QED BY <1>1, <1>3, <2>1, <2>2 DEF Released, Hands
<1>8. CASE ~auto /\ ChannelStarts(c)
  <2>1. /\ up \subseteq 1..(at - 1) /\ at' = at + 1 /\ up' = up \cup {at}
        /\ pc[c] = "startsGateway" /\ UNCHANGED <<pc, lost, stuck>> /\ lost \subseteq stuck
    BY <1>1, <1>8 DEF Released, ChannelStarts
  <2>2. up' \subseteq 1..(at' - 1)
    BY <1>4, <2>1
  <2> QED BY <1>1, <1>3, <2>1, <2>2 DEF Released, Hands
<1>9. CASE ~auto /\ ChannelFails(c)
  <2>1. /\ up \subseteq 1..(at - 1) /\ at' = at /\ pc'[c] = "rollsBack"
        /\ lost \subseteq stuck /\ UNCHANGED stuck
        /\ lost' = lost \cup (up \cap {at}) /\ up' = up \ {at}
    BY <1>1, <1>9 DEF Released, ChannelFails, Goes, IInv, OrderInv, RightPlaces
  <2>2. at \notin up
    BY <1>4, <2>1
  <2>3. lost' = lost /\ up' = up
    BY <2>1, <2>2
  <2> QED BY <1>1, <1>3, <2>1, <2>3 DEF Released, Hands
<1>10. CASE ~auto /\ RollsBack(c)
  <2>1. up \subseteq stuck \cup 1..(at - 1) /\ lost \subseteq stuck /\ lost' = lost
    BY <1>1, <1>10 DEF Released, RollsBack
  <2>2. CASE at > 1 /\ at' = at - 1 /\ StopsChannel(at - 1) /\ UNCHANGED pc
    <3>1. stuck \subseteq stuck' /\ up' \subseteq stuck' \cup 1..(at' - 1)
      BY <1>4, <2>1, <2>2 DEF StopsChannel
    <3>2. pc'[c] = "rollsBack"
      BY <1>10, <2>2 DEF RollsBack
    <3> QED BY <1>1, <1>3, <2>1, <3>1, <3>2 DEF Released, Hands
  <2>3. CASE at = 1 /\ Goes(c, "fails") /\ UNCHANGED <<at, up, stuck>>
    <3>1. up \subseteq stuck
      BY <2>1, <2>3
    <3>2. pc'[c] = "fails"
      BY <1>1, <2>3 DEF Goes, IInv, OrderInv, RightPlaces
    <3> QED BY <1>1, <1>3, <2>1, <2>3, <3>1, <3>2 DEF Released, Hands
  <2> QED BY <1>10, <2>2, <2>3 DEF RollsBack
<1>11. CASE ~auto /\ \/ AdapterStarts(c) \/ AdaptersRegistered(c) \/ AdapterFails(c)
                     \/ Unregisters(c)
  BY <1>1, <1>11 DEF Released, AdapterStarts, AdaptersRegistered, AdapterFails, Unregisters
<1> QED BY <1>5, <1>6, <1>7, <1>8, <1>9, <1>10, <1>11

\* A start that ends leaves a workspace that runs or one that has let go.
LEMMA EndReleases ==
    ASSUME IInv, Released, NEW c \in Starters, GatewayStarts(c) \/ StartFails(c)
    PROVE Released'
<1>1. /\ pc[c] \in StartPlaces /\ StartSettles(c) /\ UNCHANGED <<auto, up, lost, stuck>>
      /\ c \in Callers
  BY DEF GatewayStarts, StartFails, StartPlaces, Callers
<1>2. \A d \in Callers : pc'[d] \notin StartPlaces /\ pc'[d] # "stopsGateway"
  BY <1>1, StartSettled DEF IInv
<1>3. \A d \in Callers : pc'[d] \notin Hands
  BY <1>2 DEF Hands, StartPlaces
<1>4. CASE GatewayStarts(c)
  <2>1. running' /\ (~auto => lost \subseteq stuck)
    BY <1>4 DEF GatewayStarts, Released
  <2> QED BY <1>1, <1>3, <2>1, NobodyWorks
<1>5. CASE StartFails(c)
  <2>1. memory' # "open"
    BY <1>5 DEF StartFails, ClosesMemory
  <2>2. \A d \in Callers : pc[d] \notin {"startsGateway", "rollsBack"}
    BY <1>1, <1>5, StarterAlone DEF StartFails, Hands
  <2>3. ~running
    BY <1>1, StarterAlone
  <2>4. ~auto => lost \subseteq stuck /\ up \subseteq stuck
    BY <2>2, <2>3 DEF Released
  <2> QED BY <1>1, <1>3, <2>1, <2>4, NobodyWorks
<1> QED BY <1>4, <1>5

LEMMA EnterStartReleases ==
    ASSUME IInv, Released, NEW c \in Starters, EnterStart(c), pc[c] \in {"idle", "stopOver"}
    PROVE Released'
<1>0. c \in Callers
  BY DEF Callers
<1>1. CASE /\ UNCHANGED <<at, auto, size, running, memory, up, lost, stuck>>
           /\ Goes(c, "joinsStart") \/ Goes(c, "idle")
  <2>1. \A d \in Callers : pc'[d] = pc[d] \/ (d = c /\ pc'[d] \in {"joinsStart", "idle"})
    BY <1>1 DEF Goes, IInv, OrderInv, RightPlaces
  <2> QED BY <1>1, <2>1, PlacesStay DEF StartPlaces, Hands
<1>2. CASE /\ ~StartUnderWay /\ ~running /\ Goes(c, "initializes")
           /\ UNCHANGED <<auto, memory, up, lost, stuck>>
  <2>1. \A d \in Callers : pc[d] \notin Hands
    BY <1>2 DEF IInv, Flags, StartUnderWay, StartPlaces, Hands
  <2>2. pc'[c] = "initializes" /\ \A d \in Callers : d # c => pc'[d] = pc[d]
    BY <1>0, <1>2 DEF Goes, IInv, OrderInv, RightPlaces
  <2>3. StartUnderWay' /\ \A d \in Callers : pc'[d] \notin Hands
    BY <1>0, <2>1, <2>2 DEF StartUnderWay, StartPlaces, Hands
  <2>4. ~auto => lost \subseteq stuck /\ up \subseteq stuck
    BY <1>2, <2>1 DEF Released, Hands
  <2> QED BY <1>2, <2>3, <2>4, NobodyWorks
<1> QED BY <1>1, <1>2 DEF EnterStart

\* A stop that ends with nobody at work, and the workspace down, has let go.
LEMMA StopEndReleases ==
    ASSUME IInv, NEW c \in Stoppers, StopSettles(c),
           UNCHANGED <<auto, up, lost, stuck>>,
           ~auto => lost \subseteq stuck /\ up \subseteq stuck,
           memory' # "open",
           \/ pc[c] \in {"startOver", "stopsGateway"}
           \/ pc[c] = "idle" /\ ~StopUnderWay /\ ~StartUnderWay
    PROVE Released'
<1>1. \A d \in Callers : pc'[d] \notin StartPlaces /\ pc'[d] # "stopsGateway"
  BY StopSettled DEF IInv
<1> QED BY <1>1, NobodyWorks DEF Hands, StartPlaces

LEMMA EnterStopReleases ==
    ASSUME IInv, IInv', ChannelSets, Released, NEW c \in Stoppers, EnterStop(c),
           \/ pc[c] = "startOver"
           \/ pc[c] = "idle" /\ ~StopUnderWay /\ ~StartUnderWay
    PROVE Released'
<1>0. c \in Callers /\ UNCHANGED <<auto, size, up, lost, stuck>>
  BY DEF Callers, EnterStop
<1>1. ~StartUnderWay
  BY <1>0 DEF IInv, OrderInv, OneOwner, StartUnderWay
<1>2. \A d \in Callers : pc[d] \notin {"startsGateway", "rollsBack"}
  BY <1>1 DEF StartUnderWay, StartPlaces
<1>3. ASSUME ~running PROVE memory # "open" /\ (~auto => lost \subseteq stuck /\ up \subseteq stuck)
  BY <1>1, <1>2, <1>3 DEF Released
<1>4. CASE stopped /\ StopSettles(c) /\ UNCHANGED memory
  <2>1. ~running
    BY <1>4 DEF IInv, Flags
  <2> QED BY <1>0, <1>3, <1>4, <2>1, StopEndReleases
<1>5. CASE running /\ at' = 1 /\ Goes(c, "stopsGateway") /\ UNCHANGED <<running, memory>>
  <2>1. pc'[c] = "stopsGateway" /\ \A d \in Callers : d # c => pc'[d] = pc[d]
    BY <1>0, <1>5 DEF Goes, IInv, OrderInv, RightPlaces
  <2>2. up \subseteq stuck \cup 1..size
    BY DEF ChannelSets
  <2>3. \A d \in Callers : pc'[d] \notin {"registers", "unregisters", "startsGateway", "rollsBack"}
    BY <1>1, <2>1 DEF StartUnderWay, StartPlaces
  <2>4. ~auto => lost \subseteq stuck
    BY DEF Released
  <2> QED BY <1>0, <1>5, <2>2, <2>3, <2>4 DEF Released
<1>6. CASE ~running /\ StopEnds(c)
  <2>1. memory' # "open" /\ StopSettles(c)
    BY <1>6 DEF StopEnds, ClosesMemory
  <2> QED BY <1>0, <1>3, <1>6, <2>1, StopEndReleases
<1> QED BY <1>4, <1>5, <1>6 DEF EnterStop

LEMMA StopperReleases ==
    ASSUME IInv, Numbers, ChannelSets, Released, NEW c \in Stoppers,
           ChannelStops(c) \/ GatewayStops(c)
    PROVE Released'
<1>1. /\ c \in Callers /\ pc[c] = "stopsGateway" /\ running /\ ~StartUnderWay
      /\ \A d \in Callers : pc[d] = "stopsGateway" => d = c
  BY DEF ChannelStops, GatewayStops, Callers, IInv, OrderInv, OneOwner, Flags, StartUnderWay,
         StopPlaces
<1>2. ~auto => lost \subseteq stuck /\ up \subseteq stuck \cup at..size
  BY <1>1 DEF Released
<1>3. size \in Nat /\ at \in Nat
  BY ChannelAssumption DEF Numbers
<1>4. CASE ChannelStops(c)
  <2>1. /\ UNCHANGED <<pc, auto, size, running, memory, lost>> /\ at' = at + 1
        /\ StopsChannel(at)
    BY <1>4 DEF ChannelStops
  <2>2. ~auto => up' \subseteq stuck' \cup at'..size /\ stuck \subseteq stuck'
    BY <1>2, <1>3, <2>1 DEF StopsChannel
  <2>3. \A d \in Callers : pc[d] \notin StartPlaces
    BY <1>1 DEF StartUnderWay
  <2> QED BY <1>1, <1>2, <2>1, <2>2, <2>3 DEF Released, StartPlaces
<1>5. CASE GatewayStops(c)
  <2>1. /\ StopSettles(c) /\ memory' # "open" /\ UNCHANGED <<auto, up, lost, stuck>>
        /\ at > size
    BY <1>5 DEF GatewayStops, StopEnds, ClosesMemory
  <2>2. at..size = {}
    BY <1>3, <2>1
  <2> QED BY <1>1, <1>2, <2>1, <2>2, StopEndReleases
<1> QED BY <1>4, <1>5

\* A call that only waits.
LEMMA WaitReleases ==
    ASSUME IInv, Released, NEW c \in Callers, pc[c] = "idle",
           NEW place \in {"awaitsStop", "joinsStop", "awaitsStart"}, Goes(c, place),
           UNCHANGED <<at, auto, size, running, memory, up, lost, stuck>>
    PROVE Released'
<1>1. \A d \in Callers : pc'[d] = pc[d] \/ (d = c /\ pc'[d] = place)
  BY DEF Goes, IInv, OrderInv, RightPlaces
<1> QED BY <1>1, PlacesStay DEF StartPlaces, Hands

LEMMA NextReleased ==
    Numbers /\ ChannelSets /\ IInv /\ IInv' /\ Released /\ [Next]_vars => Released'
<1> SUFFICES ASSUME Numbers, ChannelSets, IInv, IInv', Released, [Next]_vars PROVE Released'
  OBVIOUS
<1>1. ASSUME NEW c \in Starters, CallStart(c) PROVE Released'
  <2>1. CASE EnterStart(c)
    BY <1>1, <2>1, EnterStartReleases DEF CallStart
  <2>2. CASE ~EnterStart(c)
    BY <1>1, <2>2, WaitReleases DEF CallStart, Callers
  <2> QED BY <2>1, <2>2
<1>2. ASSUME NEW c \in Starters, StarterGoesOn(c) PROVE Released'
  <2>1. CASE ResumeStart(c)
    BY <2>1, EnterStartReleases DEF ResumeStart
  <2>2. CASE GatewayStarts(c) \/ StartFails(c)
    BY <2>2, EndReleases
  <2> QED BY <1>2, <2>1, <2>2, StarterReleases DEF StarterGoesOn
<1>3. ASSUME NEW c \in Stoppers, CallStop(c) PROVE Released'
  <2>1. CASE ~StopUnderWay /\ ~StartUnderWay /\ EnterStop(c)
    BY <1>3, <2>1, EnterStopReleases DEF CallStop
  <2>2. CASE \E place \in {"joinsStop", "awaitsStart"} : Goes(c, place)
             /\ UNCHANGED <<at, auto, size, running, memory, up, lost, stuck>>
    BY <1>3, <2>2, WaitReleases DEF CallStop, Callers
  <2> QED BY <1>3, <2>1, <2>2 DEF CallStop
<1>4. ASSUME NEW c \in Stoppers, StopperGoesOn(c) PROVE Released'
  <2>1. CASE ResumeStop(c)
    BY <2>1, EnterStopReleases DEF ResumeStop
  <2> QED BY <1>4, <2>1, StopperReleases DEF StopperGoesOn
<1>5. CASE UNCHANGED vars
  BY <1>5 DEF vars, Released, StartUnderWay
<1> QED BY <1>1, <1>2, <1>3, <1>4, <1>5 DEF Next

\* However starts and stops overlap and whatever throws, a workspace that is down
\* has closed its memory, and if no adapters were registered it has no channel
\* left that serves, except one whose own stop threw.
THEOREM DownIsReleased == Spec => []DownMeansReleased
<1>1. Init => Released
  BY DEF Init, Released
<1>2. Spec => [](Released /\ IInv)
  BY <1>1, TypesAndPlaces, NextReleased, PTL DEF Spec
<1>3. Released /\ IInv => DownMeansReleased
  <2> SUFFICES ASSUME Released, IInv, ~running, Working = {}
               PROVE memory # "open" /\ (~auto => up \cup lost \subseteq stuck)
    BY DEF DownMeansReleased
  <2>1. \A c \in Callers : pc[c] \notin StartPlaces
    BY DEF Working
  <2> QED BY <2>1 DEF Released, StartUnderWay, StartPlaces
<1> QED BY <1>2, <1>3, PTL
=============================================================================
