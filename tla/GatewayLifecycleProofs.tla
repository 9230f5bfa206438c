----------------------- MODULE GatewayLifecycleProofs -----------------------
(***************************************************************************)
(* The safety invariants of GatewayLifecycle for any number of channels,   *)
(* failures and callers of start(), and one caller of stop() at a time:    *)
(* with two, the run GatewayTwoStoppers shows OneStopRun violated.         *)
(***************************************************************************)
EXTENDS GatewayLifecycle, TLAPS

\* One caller of stop(): its calls do not overlap.
OneStopper == \A x, y \in Stoppers : x = y

\* A promise is set exactly while its caller's loop is under way.
PromisesMatch ==
    \A c \in Callers : /\ pc[c] \in {"starting", "rollsBack"} <=> startPromise = c
                       /\ pc[c] = "stopping" <=> stopPromise = c

\* The gateway runs exactly from the end of a start to the end of a stop.
PhasesExclude == /\ startPromise # Nobody => ~running
                 /\ stopPromise # Nobody => running

\* What is up in the middle of each loop: channels already passed, or stuck.
LoopProgress ==
    \A c \in Callers :
        /\ pc[c] = "starting" =>
              /\ \A i \in Channels : i < at[c] => i \in up
              /\ \A i \in up : i < at[c] \/ i \in stuck
        /\ pc[c] = "rollsBack" => \A i \in up : i <= at[c] \/ i \in stuck
        /\ pc[c] = "stopping" => \A i \in up : i >= at[c] \/ i \in stuck

\* What is up while nothing is under way.
AtRest == /\ running /\ stopPromise = Nobody => up = Channels
          /\ ~running /\ startPromise = Nobody => up \subseteq stuck

\* The inductive invariant.
IInv == TypeOK /\ PromisesMatch /\ PhasesExclude /\ LoopProgress /\ AtRest

\* The inductive invariant holds initially.
LEMMA InitIInv == Init => IInv
<1> SUFFICES ASSUME Init PROVE IInv
  OBVIOUS
<1>1. TypeOK
  <2>1. 1 \in Channels /\ 0 \in 0..MaxFailures
    BY ChannelAssumption DEF Channels
  <2> QED BY <2>1 DEF Init, TypeOK, Places
<1>2. PromisesMatch
  BY CallerAssumption DEF Init, PromisesMatch, Callers
<1>3. PhasesExclude /\ LoopProgress /\ AtRest
  BY DEF Init, PhasesExclude, LoopProgress, AtRest, Callers
<1> QED BY <1>1, <1>2, <1>3 DEF IInv

\* The first part of start(): returning, joining or starting the loop.
LEMMA EnterStartStep ==
  ASSUME IInv, NEW c \in Starters, pc[c] \in {"idle", "stopOver"}, EnterStart(c)
  PROVE  IInv'
  BY CallerAssumption, ChannelAssumption
     DEF IInv, TypeOK, PromisesMatch, PhasesExclude, LoopProgress, AtRest,
         Callers, Channels, Places, EnterStart, Returns, Awaits, Loops

\* A call that finds a promise to wait for only waits.
LEMMA AwaitsStep ==
  ASSUME IInv, NEW c \in Callers, pc[c] = "idle", NEW owner \in Callers,
         NEW place \in {"awaitsStop", "awaitsStart", "joinsStop"},
         Awaits(c, place, owner),
         UNCHANGED <<startPromise, stopPromise, running, up, stuck, failures>>
  PROVE  IInv'
<1>1. TypeOK'
  BY DEF IInv, TypeOK, Awaits, Places
<1>2. \A d \in Callers : pc'[d] = IF d = c THEN place ELSE pc[d]
  BY DEF IInv, TypeOK, Awaits
<1>3. at' = at
  BY DEF Awaits
<1>4. PromisesMatch'
  BY <1>2 DEF IInv, PromisesMatch
<1>5. PhasesExclude' /\ LoopProgress' /\ AtRest'
  BY <1>2, <1>3 DEF IInv, PhasesExclude, LoopProgress, AtRest
<1> QED BY <1>1, <1>4, <1>5 DEF IInv

\* A call of start() keeps the invariant, also when it waits for a stop.
LEMMA CallStartStep ==
  ASSUME IInv, NEW c \in Starters, CallStart(c)
  PROVE  IInv'
<1>1. CASE stopPromise = Nobody /\ EnterStart(c)
  BY <1>1, EnterStartStep DEF CallStart
<1>2. CASE /\ stopPromise # Nobody
           /\ Awaits(c, "awaitsStop", stopPromise)
           /\ UNCHANGED <<startPromise, stopPromise, running, up, stuck, failures>>
  <2>1. stopPromise \in Callers /\ c \in Callers /\ pc[c] = "idle"
    BY <1>2 DEF IInv, TypeOK, Callers, CallStart
  <2> QED BY <1>2, <2>1, AwaitsStep
<1> QED BY <1>1, <1>2 DEF CallStart

\* A start that waited for a stop keeps the invariant when it goes on.
LEMMA ResumeStartStep ==
  ASSUME IInv, NEW c \in Starters, ResumeStart(c)
  PROVE  IInv'
  BY EnterStartStep DEF ResumeStart

\* When the promise of a loop settles, its caller is idle, and every other
\* caller that was in a loop is still in it.
LEMMA SettlesEffect ==
  ASSUME TypeOK, NEW owner \in Callers, Settles(owner)
  PROVE  /\ pc' \in [Callers -> Places]
         /\ pc'[owner] = "idle"
         /\ \A d \in Callers \ {owner} :
               \/ pc'[d] = pc[d]
               \/ /\ pc[d] \notin {"starting", "rollsBack", "stopping"}
                  /\ pc'[d] \notin {"starting", "rollsBack", "stopping"}
  BY DEF TypeOK, Settles, Places

\* A channel that starts keeps the invariant: its loop moves on, or ends with
\* every channel up.
LEMMA ChannelStartsStep ==
  ASSUME IInv, NEW c \in Starters, ChannelStarts(c)
  PROVE  IInv'
<1>1. /\ c \in Callers /\ pc[c] = "starting" /\ startPromise = c
      /\ c # Nobody /\ stopPromise = Nobody /\ ~running
      /\ \A d \in Callers : d # c =>
            pc[d] \notin {"starting", "rollsBack", "stopping"}
  BY CallerAssumption
     DEF IInv, TypeOK, PromisesMatch, PhasesExclude, Callers, ChannelStarts
<1>2. CASE /\ at[c] < NumChannels
           /\ at' = [at EXCEPT ![c] = @ + 1]
           /\ UNCHANGED <<pc, startPromise, running>>
  <2>1. TypeOK'
    <3>1. at[c] \in Channels /\ at[c] + 1 \in Channels
      BY <1>1, <1>2, ChannelAssumption DEF IInv, TypeOK, Channels
    <3> QED BY <1>1, <1>2, <3>1 DEF IInv, TypeOK, ChannelStarts
  <2>2. LoopProgress'
    BY <1>1, <1>2, ChannelAssumption
       DEF IInv, TypeOK, LoopProgress, ChannelStarts, Channels
  <2> QED BY <1>1, <1>2, <2>1, <2>2
             DEF IInv, PromisesMatch, PhasesExclude, AtRest, ChannelStarts
<1>3. CASE /\ at[c] = NumChannels
           /\ running' = TRUE
           /\ startPromise' = Nobody
           /\ Settles(c)
           /\ UNCHANGED at
  <2>1. /\ pc' \in [Callers -> Places] /\ pc'[c] = "idle"
        /\ \A d \in Callers : pc'[d] \notin {"starting", "rollsBack", "stopping"}
    BY <1>1, <1>3, SettlesEffect DEF IInv
  <2>2. TypeOK'
    BY <2>1, <1>1, <1>3 DEF IInv, TypeOK, ChannelStarts
  <2>3. up' = Channels
    <3>1. at[c] \in Channels /\ up' = up \cup {at[c]} /\ up \subseteq Channels
      BY <1>1 DEF IInv, TypeOK, ChannelStarts
    <3>2. \A i \in Channels : i < at[c] => i \in up
      BY <1>1 DEF IInv, LoopProgress
    <3>3. \A i \in Channels : i = at[c] \/ i < at[c]
      BY <1>3, ChannelAssumption DEF Channels
    <3> QED BY <3>1, <3>2, <3>3
  <2>4. stopPromise' = Nobody
    BY <1>1 DEF ChannelStarts
  <2>5. PromisesMatch'
    BY <1>3, <2>1, <2>4, CallerAssumption DEF PromisesMatch, Callers
  <2> QED BY <1>3, <2>1, <2>2, <2>3, <2>4, <2>5
             DEF IInv, PhasesExclude, LoopProgress, AtRest
<1>4. at[c] = NumChannels \/ at[c] < NumChannels
  BY ChannelAssumption DEF IInv, TypeOK, Channels, Callers
<1> QED BY <1>2, <1>3, <1>4 DEF ChannelStarts, AtLast

\* The last step of a startup that fails.
LEMMA StartFailsStep ==
  ASSUME IInv, NEW c \in Starters, pc[c] \in {"starting", "rollsBack"},
         StartFails(c), UNCHANGED <<waitsFor, stopPromise>>,
         up' \subseteq Channels, stuck' \subseteq Channels,
         up' \subseteq stuck', failures' \in 0..MaxFailures
  PROVE  IInv'
<1>1. /\ c \in Callers /\ startPromise = c /\ c # Nobody /\ stopPromise = Nobody
      /\ \A d \in Callers : d # c =>
            pc[d] \notin {"starting", "rollsBack", "stopping"}
  BY CallerAssumption DEF IInv, TypeOK, PromisesMatch, PhasesExclude, Callers
<1>2. /\ pc' \in [Callers -> Places]
      /\ \A d \in Callers : pc'[d] \notin {"starting", "rollsBack", "stopping"}
  BY <1>1, SettlesEffect DEF IInv, StartFails
<1>3. TypeOK'
  BY <1>2 DEF IInv, TypeOK, StartFails
<1>4. PromisesMatch'
  BY <1>1, <1>2, CallerAssumption DEF PromisesMatch, StartFails, Callers
<1> QED BY <1>1, <1>2, <1>3, <1>4
           DEF IInv, PhasesExclude, LoopProgress, AtRest, StartFails

\* A channel start that throws keeps the invariant: the rollback begins below
\* the failed channel, or there is nothing to roll back.
LEMMA ChannelStartFailsStep ==
  ASSUME IInv, NEW c \in Starters, ChannelStartFails(c)
  PROVE  IInv'
<1>1. /\ c \in Callers /\ pc[c] = "starting" /\ UNCHANGED <<up, stuck>>
      /\ failures' \in 0..MaxFailures
  BY ChannelAssumption DEF IInv, TypeOK, ChannelStartFails, Callers
<1>2. CASE at[c] = 1 /\ StartFails(c)
  <2>1. up' \subseteq stuck'
    BY <1>1, <1>2 DEF IInv, TypeOK, LoopProgress, Channels
  <2> QED BY <1>1, <1>2, <2>1, StartFailsStep DEF IInv, TypeOK, ChannelStartFails
<1>3. CASE /\ at[c] > 1
           /\ pc' = [pc EXCEPT ![c] = "rollsBack"]
           /\ at' = [at EXCEPT ![c] = @ - 1]
           /\ UNCHANGED <<startPromise, running>>
  <2>1. TypeOK'
    BY <1>1, <1>3, ChannelAssumption
       DEF IInv, TypeOK, ChannelStartFails, Channels, Places
  <2>2. PromisesMatch' /\ PhasesExclude' /\ AtRest'
    BY <1>1, <1>3
       DEF IInv, TypeOK, PromisesMatch, PhasesExclude, AtRest, ChannelStartFails
  <2>3. LoopProgress'
    BY <1>1, <1>3, ChannelAssumption DEF IInv, TypeOK, LoopProgress, Channels
  <2> QED BY <2>1, <2>2, <2>3 DEF IInv
<1> QED BY <1>2, <1>3 DEF ChannelStartFails

\* Stopping a channel leaves it down or stuck, and the others as they are.
LEMMA StopsChannelEffect ==
  ASSUME TypeOK, NEW i \in Channels, StopsChannel(i)
  PROVE  /\ up' \subseteq Channels /\ stuck' \subseteq Channels
         /\ failures' \in 0..MaxFailures
         /\ \A k \in up' : k \in up /\ (k = i => k \in stuck')
         /\ \A k \in stuck : k # i => k \in stuck'
<1>1. failures' \in 0..MaxFailures
  BY ChannelAssumption DEF TypeOK, StopsChannel
<1>2. up' \subseteq Channels /\ stuck' \subseteq Channels
  BY DEF TypeOK, StopsChannel
<1>3. /\ \A k \in up' : k \in up /\ (k = i => k \in stuck')
      /\ \A k \in stuck : k # i => k \in stuck'
  BY DEF StopsChannel
<1> QED BY <1>1, <1>2, <1>3

\* A step of the rollback keeps the invariant; its last one leaves nothing up
\* but stuck channels.
LEMMA RollsBackStep ==
  ASSUME IInv, NEW c \in Starters, RollsBack(c)
  PROVE  IInv'
<1>1. c \in Callers /\ pc[c] = "rollsBack" /\ at[c] \in Channels
  BY DEF IInv, TypeOK, RollsBack, Callers
<1>2. /\ up' \subseteq Channels /\ stuck' \subseteq Channels
      /\ failures' \in 0..MaxFailures
      /\ \A k \in up' : k \in up /\ (k = at[c] => k \in stuck')
      /\ \A k \in stuck : k # at[c] => k \in stuck'
  BY <1>1, StopsChannelEffect DEF IInv, RollsBack
<1>3. \A k \in up' : k < at[c] \/ k \in stuck'
  BY <1>1, <1>2 DEF IInv, TypeOK, LoopProgress, Channels
<1>4. CASE at[c] = 1 /\ StartFails(c)
  <2>1. up' \subseteq stuck'
    BY <1>2, <1>3, <1>4 DEF Channels
  <2> QED BY <1>1, <1>2, <1>4, <2>1, StartFailsStep DEF RollsBack
<1>5. CASE /\ at[c] > 1
           /\ at' = [at EXCEPT ![c] = @ - 1]
           /\ UNCHANGED <<pc, startPromise, running>>
  <2>1. TypeOK'
    BY <1>1, <1>2, <1>5, ChannelAssumption DEF IInv, TypeOK, RollsBack, Channels
  <2>2. /\ startPromise = c /\ stopPromise = Nobody /\ c # Nobody
        /\ \A d \in Callers : d # c =>
              pc[d] \notin {"starting", "rollsBack", "stopping"}
    BY <1>1, CallerAssumption
       DEF IInv, TypeOK, PromisesMatch, PhasesExclude, Callers
  <2>3. PromisesMatch' /\ PhasesExclude' /\ AtRest'
    BY <1>5, <2>2, CallerAssumption
       DEF IInv, PromisesMatch, PhasesExclude, AtRest, RollsBack
  <2>4. LoopProgress'
    BY <1>1, <1>2, <1>3, <1>5, <2>2 DEF IInv, TypeOK, LoopProgress, Channels
  <2> QED BY <2>1, <2>3, <2>4 DEF IInv
<1> QED BY <1>4, <1>5 DEF RollsBack

\* The first part of stop(): returning, or starting the loop.
LEMMA EnterStopStep ==
  ASSUME OneStopper, IInv, NEW c \in Stoppers, pc[c] \in {"idle", "startOver"},
         EnterStop(c)
  PROVE  IInv'
<1>1. c \in Callers /\ c # Nobody /\ stopPromise = Nobody
  BY CallerAssumption DEF IInv, TypeOK, PromisesMatch, Callers, OneStopper
<1>2. CASE ~running /\ Returns(c) /\ UNCHANGED stopPromise
  BY <1>1, <1>2
     DEF IInv, TypeOK, PromisesMatch, PhasesExclude, LoopProgress, AtRest,
         Places, EnterStop, Returns
<1>3. CASE running /\ stopPromise' = c /\ Loops(c, "stopping")
  <2>1. TypeOK'
    BY <1>1, <1>3, ChannelAssumption
       DEF IInv, TypeOK, Places, EnterStop, Loops, Channels
  <2>2. PromisesMatch' /\ PhasesExclude' /\ AtRest'
    BY <1>1, <1>3
       DEF IInv, TypeOK, PromisesMatch, PhasesExclude, AtRest, EnterStop, Loops
  <2>3. LoopProgress'
    BY <1>1, <1>3 DEF IInv, TypeOK, LoopProgress, EnterStop, Loops, Channels
  <2> QED BY <2>1, <2>2, <2>3 DEF IInv
<1> QED BY <1>2, <1>3 DEF EnterStop

\* A call of stop() keeps the invariant, also when it waits for a promise.
LEMMA CallStopStep ==
  ASSUME OneStopper, IInv, NEW c \in Stoppers, CallStop(c)
  PROVE  IInv'
<1>1. CASE stopPromise = Nobody /\ startPromise = Nobody /\ EnterStop(c)
  BY <1>1, EnterStopStep DEF CallStop
<1>2. CASE /\ stopPromise # Nobody
           /\ Awaits(c, "joinsStop", stopPromise)
           /\ UNCHANGED <<startPromise, stopPromise, running, up, stuck, failures>>
  <2>1. stopPromise \in Callers /\ c \in Callers /\ pc[c] = "idle"
    BY <1>2 DEF IInv, TypeOK, Callers, CallStop
  <2> QED BY <1>2, <2>1, AwaitsStep
<1>3. CASE /\ startPromise # Nobody
           /\ Awaits(c, "awaitsStart", startPromise)
           /\ UNCHANGED <<startPromise, stopPromise, running, up, stuck, failures>>
  <2>1. startPromise \in Callers /\ c \in Callers /\ pc[c] = "idle"
    BY <1>3 DEF IInv, TypeOK, Callers, CallStop
  <2> QED BY <1>3, <2>1, AwaitsStep
<1> QED BY <1>1, <1>2, <1>3 DEF CallStop

\* A stop that waited for a start keeps the invariant when it goes on.
LEMMA ResumeStopStep ==
  ASSUME OneStopper, IInv, NEW c \in Stoppers, ResumeStop(c)
  PROVE  IInv'
  BY EnterStopStep DEF ResumeStop

\* A channel stop that settles keeps the invariant; the last one leaves nothing
\* up but stuck channels.
LEMMA ChannelStopsStep ==
  ASSUME IInv, NEW c \in Stoppers, ChannelStops(c)
  PROVE  IInv'
<1>1. /\ c \in Callers /\ pc[c] = "stopping" /\ at[c] \in Channels
      /\ stopPromise = c /\ c # Nobody /\ startPromise = Nobody /\ running
      /\ \A d \in Callers : d # c =>
            pc[d] \notin {"starting", "rollsBack", "stopping"}
  BY CallerAssumption
     DEF IInv, TypeOK, PromisesMatch, PhasesExclude, Callers, ChannelStops
<1>2. /\ up' \subseteq Channels /\ stuck' \subseteq Channels
      /\ failures' \in 0..MaxFailures
      /\ \A k \in up' : k \in up /\ (k = at[c] => k \in stuck')
      /\ \A k \in stuck : k # at[c] => k \in stuck'
  BY <1>1, StopsChannelEffect DEF IInv, ChannelStops
<1>3. \A k \in up' : k > at[c] \/ k \in stuck'
  BY <1>1, <1>2 DEF IInv, TypeOK, LoopProgress, Channels
<1>4. CASE /\ at[c] < NumChannels
           /\ at' = [at EXCEPT ![c] = @ + 1]
           /\ UNCHANGED <<pc, stopPromise, running>>
  <2>1. TypeOK'
    BY <1>1, <1>2, <1>4, ChannelAssumption DEF IInv, TypeOK, ChannelStops, Channels
  <2>2. PromisesMatch' /\ PhasesExclude' /\ AtRest'
    BY <1>1, <1>4 DEF IInv, PromisesMatch, PhasesExclude, AtRest, ChannelStops
  <2>3. LoopProgress'
    BY <1>1, <1>2, <1>3, <1>4, ChannelAssumption DEF IInv, TypeOK, LoopProgress, Channels
  <2> QED BY <2>1, <2>2, <2>3 DEF IInv
<1>5. CASE at[c] = NumChannels /\ StopEnds(c)
  <2>1. /\ pc' \in [Callers -> Places]
        /\ \A d \in Callers : pc'[d] \notin {"starting", "rollsBack", "stopping"}
    BY <1>1, <1>5, SettlesEffect DEF IInv, StopEnds
  <2>2. TypeOK'
    BY <1>2, <1>5, <2>1 DEF IInv, TypeOK, ChannelStops, StopEnds
  <2>3. up' \subseteq stuck'
    BY <1>2, <1>3, <1>5, ChannelAssumption DEF Channels
  <2>4. startPromise' = Nobody
    BY <1>1 DEF ChannelStops
  <2>5. PromisesMatch'
    BY <1>5, <2>1, <2>4, CallerAssumption DEF PromisesMatch, Callers, StopEnds
  <2> QED BY <1>5, <2>1, <2>2, <2>3, <2>4, <2>5
             DEF IInv, PhasesExclude, LoopProgress, AtRest, StopEnds
<1>6. at[c] = NumChannels \/ at[c] < NumChannels
  BY <1>1, ChannelAssumption DEF Channels
<1> QED BY <1>4, <1>5, <1>6 DEF ChannelStops, AtLast

\* Every step keeps the inductive invariant.
LEMMA NextIInv ==
  ASSUME OneStopper, IInv, [Next]_vars
  PROVE  IInv'
<1>1. CASE \E c \in Starters : CallStart(c) \/ StarterGoesOn(c)
  BY <1>1, CallStartStep, ResumeStartStep, ChannelStartsStep,
     ChannelStartFailsStep, RollsBackStep DEF StarterGoesOn
<1>2. CASE \E c \in Stoppers : CallStop(c) \/ StopperGoesOn(c)
  BY <1>2, CallStopStep, ResumeStopStep, ChannelStopsStep DEF StopperGoesOn
<1>3. CASE UNCHANGED vars
  BY <1>3 DEF vars, IInv, TypeOK, PromisesMatch, PhasesExclude, LoopProgress, AtRest
<1> QED BY <1>1, <1>2, <1>3 DEF Next

\* The inductive invariant implies the invariants the runs check.
LEMMA IInvImplies ==
  IInv => OneStartRun /\ StartStopExclude /\ RunningMeansUp /\ StoppedMeansDown
<1> SUFFICES ASSUME IInv
    PROVE OneStartRun /\ StartStopExclude /\ RunningMeansUp /\ StoppedMeansDown
  OBVIOUS
<1>1. OneStartRun
  BY DEF IInv, PromisesMatch, OneStartRun, Starting
<1>2. StartStopExclude
  BY CallerAssumption
     DEF IInv, TypeOK, PromisesMatch, PhasesExclude, StartStopExclude, Starting,
         Stopping, Callers
<1>3. Stopping = {} => stopPromise = Nobody
  BY DEF IInv, TypeOK, PromisesMatch, Stopping, Callers
<1>4. Starting = {} => startPromise = Nobody
  BY DEF IInv, TypeOK, PromisesMatch, Starting, Callers
<1> QED BY <1>1, <1>2, <1>3, <1>4
           DEF IInv, AtRest, RunningMeansUp, StoppedMeansDown

\* The inductive invariant holds in every reachable state.
THEOREM Invariance ==
  ASSUME OneStopper PROVE Spec => []IInv
<1>1. IInv /\ [Next]_vars => IInv'
  BY NextIInv
<1> QED BY InitIInv, <1>1, PTL DEF Spec

\* Type correctness of the gateway and its callers.
THEOREM TypeCorrect ==
  ASSUME OneStopper PROVE Spec => []TypeOK
BY Invariance, PTL DEF IInv

\* Channels are started by one call at a time and never while they are stopped.
THEOREM StartIsSingleFlight ==
  ASSUME OneStopper PROVE Spec => []OneAtATime
BY Invariance, IInvImplies, PTL DEF OneAtATime

\* What the gateway says of itself is true of its channels: running means all
\* of them are up, stopped means none is but those whose stop threw.
THEOREM RunningIsTruthful ==
  ASSUME OneStopper PROVE Spec => []FlagIsTrue
BY Invariance, IInvImplies, PTL DEF FlagIsTrue
=============================================================================
