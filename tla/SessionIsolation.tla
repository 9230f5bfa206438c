-------------------------- MODULE SessionIsolation --------------------------
(***************************************************************************)
(* SessionIsolationManager (agent/taorReliability.ts): contexts of         *)
(* sessions with a lock and a count of running tool calls each. Users of a *)
(* session take its lock around an operation and count their tool calls;   *)
(* sessions are created again, closed and cleaned up at any time, also     *)
(* while someone uses them.                                                *)
(*                                                                         *)
(* A session's life is the time between its creation and its end; a lock   *)
(* or a call that was taken in one life may be given back in a later one.  *)
(***************************************************************************)
EXTENDS Integers, FiniteSets

CONSTANTS Sessions, Users,
          MaxSessions,
          MaxConcurrent,   \* maxConcurrentTools
          MaxPerMinute,    \* maxToolCallsPerMinute
          MaxLives         \* bound on the lives of a session

VARIABLES known,    \* the sessions in the map
          locked,   \* those whose lock is taken
          idle,     \* those nobody used for longer than maxIdleMs
          running,  \* activeToolCalls
          minute,   \* toolCallsThisMinute
          life,     \* how often each session was created (history)
          clean,    \* the sessions that were created when nobody used them (history)
          holder,   \* whose lock each user holds, in which life (history)
          calls     \* the tool calls of each user that run, likewise (history)

vars == <<known, locked, idle, running, minute, life, clean, holder, calls>>

Lives == [session : Sessions, life : 1..MaxLives]
Now(s) == [session |-> s, life |-> life[s]]

Init == /\ known = {} /\ locked = {} /\ idle = {}
        /\ running = [s \in Sessions |-> 0] /\ minute = [s \in Sessions |-> 0]
        /\ life = [s \in Sessions |-> 0] /\ clean = {}
        /\ holder = [u \in Users |-> {}] /\ calls = [u \in Users |-> {}]
-----------------------------------------------------------------------------
\* cleanupInactiveSessions spares a session that is locked, not one whose calls
\* still run.
Inactive == (known \cap idle) \ locked

\* createSession: a full map is cleaned up first and may stay full; the context
\* of a session that is known is replaced.
CreateSession(s) ==
    LET left == IF Cardinality(known) >= MaxSessions THEN known \ Inactive ELSE known IN
    /\ life[s] < MaxLives
    /\ known' = left \cup {s}
    /\ locked' = locked \ {s} /\ idle' = idle \ {s}
    /\ running' = [running EXCEPT ![s] = 0] /\ minute' = [minute EXCEPT ![s] = 0]
    /\ life' = [life EXCEPT ![s] = @ + 1]
    /\ clean' = IF \E u \in Users : \E h \in holder[u] \cup calls[u] : h.session = s
                THEN clean \ {s} ELSE clean \cup {s}
    /\ UNCHANGED <<holder, calls>>

Zero(counts, ss) == [s \in Sessions |-> IF s \in ss THEN 0 ELSE counts[s]]

\* The contexts go with all they hold; who used them does not hear of it.
Gone(ss) == /\ known' = known \ ss /\ locked' = locked \ ss /\ idle' = idle \ ss
            /\ running' = Zero(running, ss) /\ minute' = Zero(minute, ss)
            /\ UNCHANGED <<life, clean, holder, calls>>

CloseSession(s) == s \in known /\ Gone({s})

CleanupInactiveSessions == Inactive # {} /\ Gone(Inactive)

\* getSession marks the session as used.
GetSession(s) == /\ s \in known /\ idle' = idle \ {s}
                 /\ UNCHANGED <<known, locked, running, minute, life, clean, holder, calls>>

GrowIdle(s) == /\ s \in known \ idle /\ idle' = idle \cup {s}
               /\ UNCHANGED <<known, locked, running, minute, life, clean, holder, calls>>

\* Mutant: a lock that was forgotten for long is given to the next.
AcquireIdle(u, s) == /\ holder[u] = {} /\ s \in known
                     /\ s \notin locked \/ s \in idle
                     /\ locked' = locked \cup {s}
                     /\ holder' = [holder EXCEPT ![u] = {Now(s)}]
                     /\ UNCHANGED <<known, idle, running, minute, life, clean, calls>>

AcquireLock(u, s) == /\ holder[u] = {} /\ s \in known \ locked
                     /\ locked' = locked \cup {s}
                     /\ holder' = [holder EXCEPT ![u] = {Now(s)}]
                     /\ UNCHANGED <<known, idle, running, minute, life, clean, calls>>

\* releaseLock looks at the session only, not at who holds it in which life.
ReleaseLock(u) == /\ \E h \in holder[u] : locked' = locked \ {h.session}
                  /\ holder' = [holder EXCEPT ![u] = {}]
                  /\ UNCHANGED <<known, idle, running, minute, life, clean, calls>>

\* canExecuteTool and recordToolCallStart, one after the other without a pause.
StartTool(u, s) ==
    /\ calls[u] = {} /\ s \in known
    /\ running[s] < MaxConcurrent /\ minute[s] < MaxPerMinute
    /\ running' = [running EXCEPT ![s] = @ + 1] /\ minute' = [minute EXCEPT ![s] = @ + 1]
    /\ idle' = idle \ {s}
    /\ calls' = [calls EXCEPT ![u] = {Now(s)}]
    /\ UNCHANGED <<known, locked, life, clean, holder>>

\* recordToolCallEnd: a count that is zero stays.
EndTool(u) ==
    /\ \E c \in calls[u] :
           running' = [running EXCEPT ![c.session] =
                          IF c.session \in known /\ @ > 0 THEN @ - 1 ELSE @]
    /\ calls' = [calls EXCEPT ![u] = {}]
    /\ UNCHANGED <<known, locked, idle, minute, life, clean, holder>>

ResetMinuteCounters == /\ minute' = [s \in Sessions |-> 0]
                       /\ UNCHANGED <<known, locked, idle, running, life, clean, holder, calls>>

Next == \/ \E s \in Sessions : \/ CreateSession(s) \/ CloseSession(s) \/ GetSession(s)
                               \/ GrowIdle(s)
        \/ \E u \in Users : \/ \E s \in Sessions : AcquireLock(u, s) \/ StartTool(u, s)
                            \/ ReleaseLock(u) \/ EndTool(u)
        \/ CleanupInactiveSessions \/ ResetMinuteCounters

Spec == Init /\ [][Next]_vars
-----------------------------------------------------------------------------
Holders(s) == {u \in Users : Now(s) \in holder[u]}
Running(s) == {u \in Users : Now(s) \in calls[u]}

\* A session that was created when nobody used it is isolated until it is created
\* again: one user holds its lock, which then is taken, and it runs no more tool
\* calls than its limit, each of them counted. Nobody else's creating, closing or
\* cleaning up, and nothing left over from another session, gives a lock away.
OneHolderPerLife ==
    \A s \in known \cap clean :
        /\ Cardinality(Holders(s)) <= 1
        /\ Holders(s) # {} => s \in locked
        /\ running[s] = Cardinality(Running(s)) /\ running[s] <= MaxConcurrent

\* Types of the state.
TypeOK == /\ known \subseteq Sessions /\ locked \subseteq known /\ idle \subseteq Sessions
          /\ running \in [Sessions -> 0..MaxConcurrent]
          /\ minute \in [Sessions -> 0..MaxPerMinute]
          /\ life \in [Sessions -> 0..MaxLives] /\ clean \subseteq Sessions
          /\ \A u \in Users : /\ Cardinality(holder[u]) <= 1 /\ holder[u] \subseteq Lives
                              /\ Cardinality(calls[u]) <= 1 /\ calls[u] \subseteq Lives
=============================================================================
