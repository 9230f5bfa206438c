---------------------------- MODULE EventApproval ----------------------------
(***************************************************************************)
(* Approval of tool calls in event mode: TAORLoop.executeToolCall and      *)
(* resolvePendingApproval (agent/taorLoop.ts) with DefaultLoopController   *)
(* (protocol/loopController.ts), the approval messages of start.ts and the *)
(* grants and requests of PermissionWorkflowStore.                         *)
(*                                                                         *)
(* As in PromiseApproval a turn is one TAOR loop, a step is one            *)
(* synchronous run of JavaScript and Calls are the calls that the          *)
(* permission mode answers with requiresConfirmation.  The loop id under   *)
(* which a turn pauses is the request id, so turns that share a request    *)
(* share the entries of the controller's two maps.                         *)
(***************************************************************************)
EXTENDS ApprovalRequests

\* TAORLoop defaults cwd to process.cwd(), which is never the empty string.
ASSUME CwdAssumption == Cwd # NoCwd

VARIABLES pc,         \* where each turn stands with its call
          call,       \* the call each turn executes
          req,        \* its request id, which is its loop id as well
          resolvers,  \* turns whose entry is in DefaultLoopController.resolvers,
                      \* a map with at most one entry for a loop id
          timers,     \* turns whose timeout of waitForResume is armed
          paused,     \* loop ids in DefaultLoopController.pausedStates
          requests,   \* pendingRequests of the store; the index is the id
          overdue,    \* ids older than pendingRequestExpiryMs
          grants,     \* approvals of the store: unused grants by fingerprint
          runs,       \* how often each call was executed
          approvedIds,  \* requests a client has approved (history)
          called,     \* calls started so far
          answered    \* approval responses received so far

vars == <<pc, call, req, resolvers, timers, paused, requests, overdue, grants,
          runs, approvedIds, called, answered>>

Places == {"idle", "paused", "waiting", "approved", "denied"}
Init == /\ pc = [t \in Turns |-> "idle"]
        /\ call = [t \in Turns |-> NoCall]
        /\ req = [t \in Turns |-> 0]
        /\ resolvers = {} /\ timers = {} /\ paused = {}
        /\ requests = <<>> /\ overdue = {}
        /\ grants = [f \in Fingerprints |-> 0]
        /\ runs = [c \in Calls |-> 0] /\ approvedIds = {}
        /\ called = 0 /\ answered = 0
-----------------------------------------------------------------------------
\* Mutant: an answer wakes a turn of any loop id.
WokenByAny(id) == resolvers

\* The entry of resolvers that loop id has.
Woken(id) == {u \in resolvers : req[u] = id}

OtherResolvers(id) == {u \in resolvers : req[u] # id}

\* pausedStates.delete
Forgotten(id) == paused \ {id}

\* Mutant: there is one timer for a loop id, not one for a waiting turn.
ArmedOverOlder(t) == {u \in timers : req[u] # req[t]} \cup {t}

\* setTimeout in waitForResume: a timer of its own for each call.
Armed(t) == timers \cup {t}

\* Mutant: an answer leaves the timers of the turns it wakes.
LeftArmed(us) == timers

\* clearTimeout of the turns an answer wakes.
Disarmed(us) == timers \ us

\* A grant the gate finds is consumed and the tool runs.
RunOnGrant(c) == LET fp == Fingerprint(c, Cwd) IN
    /\ grants[fp] > 0
    /\ grants' = [grants EXCEPT ![fp] = @ - 1]
    /\ requests' = Pruned(requests, overdue)
    /\ runs' = [runs EXCEPT ![c] = @ + 1]
    /\ UNCHANGED <<pc, req, paused>>

\* Without a grant the turn files its request, announces it (ApprovalNeeded)
\* and pauses under the request id; run() then yields confirmation_needed.
AskAndPause(t, c) == LET fp == Fingerprint(c, Cwd) IN
    /\ grants[fp] = 0
    /\ \E id \in 1..(Len(requests) + 1) :
          /\ Asked(Pruned(requests, overdue), fp, Owner[t], id, requests')
          /\ req' = [req EXCEPT ![t] = id]
          /\ paused' = paused \cup {id}
    /\ pc' = [pc EXCEPT ![t] = "paused"]
    /\ UNCHANGED <<grants, runs>>
-----------------------------------------------------------------------------
\* The language model asks turn t to call c.
Call(t, c) ==
    /\ pc[t] = "idle" /\ called < MaxCalls
    /\ called' = called + 1
    /\ call' = [call EXCEPT ![t] = c]
    /\ RunOnGrant(c) \/ AskAndPause(t, c)
    /\ UNCHANGED <<resolvers, timers, overdue, approvedIds, answered>>

\* The consumer of run() asks for the next event: waitForResume pauses again,
\* enters the resolver, over an older one of the loop id, and arms its timer.
WaitForResume(t) ==
    /\ pc[t] = "paused"
    /\ pc' = [pc EXCEPT ![t] = "waiting"]
    /\ paused' = paused \cup {req[t]}
    /\ resolvers' = OtherResolvers(req[t]) \cup {t}
    /\ timers' = Armed(t)
    /\ UNCHANGED <<call, req, requests, overdue, grants, runs, approvedIds,
                   called, answered>>

\* LoopController.resume: wakes the turn whose resolver is registered for id,
\* forgets the paused state even when there is none.  An approval message
\* marks the request first (ApprovalService.resolve); a handler of the event
\* bus may call the controller directly.
Resume(id, ok, marks) ==
    LET woken == Woken(id)
    IN /\ answered < MaxResponses
       /\ answered' = answered + 1
       /\ requests' = IF marks THEN Resolved(requests, id, ok) ELSE requests
       /\ approvedIds' = IF ok THEN approvedIds \cup {id} ELSE approvedIds
       /\ pc' = [u \in Turns |-> IF u \notin woken THEN pc[u]
                                 ELSE IF ok THEN "approved" ELSE "denied"]
       /\ resolvers' = resolvers \ woken
       /\ timers' = Disarmed(woken)
       /\ paused' = Forgotten(id)
       /\ UNCHANGED <<call, req, overdue, grants, runs, called>>

\* The timer of waitForResume deletes whatever entries the loop id has now.
Timeout(t) ==
    /\ t \in timers
    /\ timers' = timers \ {t}
    /\ resolvers' = OtherResolvers(req[t])
    /\ paused' = Forgotten(req[t])
    /\ pc' = [pc EXCEPT ![t] = "denied"]
    /\ UNCHANGED <<call, req, requests, overdue, grants, runs, approvedIds,
                   called, answered>>

\* After an approval the turn registers a grant for the call without its
\* working directory, which nothing consumes, and runs it past the gate.
RunApproved(t) ==
    /\ pc[t] = "approved"
    /\ requests' = Resolved(requests, req[t], TRUE)
    /\ grants' = [grants EXCEPT ![GrantedFingerprint(call[t])] = @ + 1]
    /\ runs' = [runs EXCEPT ![call[t]] = @ + 1]
    /\ pc' = [pc EXCEPT ![t] = "idle"]
    /\ UNCHANGED <<call, req, resolvers, timers, paused, overdue, approvedIds,
                   called, answered>>

\* After a refusal or a timeout the call ends with an error.
GiveUp(t) ==
    /\ pc[t] = "denied"
    /\ requests' = Resolved(requests, req[t], FALSE)
    /\ pc' = [pc EXCEPT ![t] = "idle"]
    /\ UNCHANGED <<call, req, resolvers, timers, paused, overdue, grants, runs,
                   approvedIds, called, answered>>

\* A request gets older than pendingRequestExpiryMs; only the age of a pending
\* request is ever looked at.
GrowOld(id) ==
    /\ id \notin overdue /\ requests[id].status = "pending"
    /\ overdue' = overdue \cup {id}
    /\ UNCHANGED <<pc, call, req, resolvers, timers, paused, requests, grants,
                   runs, approvedIds, called, answered>>

\* The process restarts: the store is read back, loops and controller are gone.
Restart ==
    /\ pc' = [t \in Turns |-> "idle"]
    /\ resolvers' = {} /\ timers' = {} /\ paused' = {}
    /\ UNCHANGED <<call, req, requests, overdue, grants, runs, approvedIds,
                   called, answered>>

TurnStep(t) == WaitForResume(t) \/ Timeout(t) \/ RunApproved(t) \/ GiveUp(t)

Next == \/ \E t \in Turns : TurnStep(t)
        \/ \E t \in Turns, c \in Calls : Call(t, c)
        \/ \E id \in DOMAIN requests, ok, marks \in BOOLEAN : Resume(id, ok, marks)
        \/ \E id \in DOMAIN requests : GrowOld(id)
        \/ Restart

\* The event loop runs every due timer and continuation, and the consumer of
\* run() keeps asking for events.  Nothing obliges a client to answer.
Fairness == \A t \in Turns : /\ WF_vars(WaitForResume(t))
                             /\ WF_vars(Timeout(t))
                             /\ WF_vars(RunApproved(t))
                             /\ WF_vars(GiveUp(t))

Spec == Init /\ [][Next]_vars
FairSpec == Spec /\ Fairness
-----------------------------------------------------------------------------
\* Types of the state.
TypeOK == /\ pc \in [Turns -> Places]
          /\ call \in [Turns -> Calls \cup {NoCall}]
          /\ req \in [Turns -> Nat]
          /\ resolvers \subseteq Turns /\ timers \subseteq Turns
          /\ paused \subseteq Nat
          /\ requests \in Seq(Request)
          /\ overdue \subseteq Nat /\ approvedIds \subseteq Nat
          /\ grants \in [Fingerprints -> Nat]
          /\ runs \in [Calls -> Nat] /\ called \in Nat /\ answered \in Nat

Waiting == {t \in Turns : pc[t] = "waiting"}

\* A timeout of waitForResume is armed exactly for the turns that wait, also
\* for a turn whose entry a later turn of the same request overwrote.
TimerIffWaiting == timers = Waiting

\* An entry of resolvers belongs to a turn that still waits and whose paused
\* state the controller still shows, and a loop id has one entry.
ResolverStillWaits ==
    /\ resolvers \subseteq Waiting
    /\ \A t \in resolvers : req[t] \in paused
    /\ \A t, u \in resolvers : req[t] = req[u] => t = u

\* getAllPaused names no loop id that no turn is paused or waiting on: paused
\* states do not outlive their turns.
NoPausedStateLeft ==
    \A id \in paused : \E t \in Turns : req[t] = id /\ pc[t] \in {"paused", "waiting"}

\* Timers, resolvers and paused states follow the turns that wait, however
\* answers, timeouts and turns that share a loop id interleave.
EntriesFollowWaits == TimerIffWaiting /\ ResolverStillWaits /\ NoPausedStateLeft

\* A turn is told "approved" only if a client approved the very request it
\* paused for; the requests of turns are on file.
VerdictIsOwn ==
    \A t \in Turns : /\ pc[t] = "approved" => req[t] \in approvedIds
                     /\ pc[t] # "idle" => req[t] \in DOMAIN requests

PhaseOf(place, c) == CASE place = "idle" -> [at |-> "idle"]
                       [] place = "approved" -> [at |-> "granted", call |-> c]
                       [] OTHER -> [at |-> "asked", call |-> c]
Phase == [t \in Turns |-> PhaseOf(pc[t], call[t])]
Contract == INSTANCE ApprovalContract
                WITH phase <- Phase, unused <- [c \in Calls |-> 0]

\* Event mode keeps the approval contract, and never a grant a call could run on:
\* one answer, at most one run, of the call that was answered.
ImplementsContract == Contract!ContractSpec

\* A turn that pauses is released, by an answer or by its own timer.
PauseEnds == \A t \in Turns : pc[t] \in {"paused", "waiting"} ~> pc[t] = "idle"

\* docs/PROTOCOL.md: an approval_response resumes the loop.  Every turn that
\* waits for a request is resumed when the request is answered.
AnswerResumesWaiting ==
    [][\A t \in Turns, ok, marks \in BOOLEAN :
          pc[t] = "waiting" /\ Resume(req[t], ok, marks)
          => pc'[t] # "waiting"]_vars
=============================================================================
