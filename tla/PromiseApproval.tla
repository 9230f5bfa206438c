--------------------------- MODULE PromiseApproval ---------------------------
(***************************************************************************)
(* Approval of tool calls in promise mode: TAORLoop.executeToolCall        *)
(* (agent/taorLoop.ts) with the confirmation handler of start.ts, the      *)
(* ApprovalService and the grants and requests of PermissionWorkflowStore. *)
(*                                                                         *)
(* One turn is one TAOR loop, started by one inbound message; turns of the *)
(* same session run concurrently.  A step of the model is one synchronous  *)
(* run of JavaScript, from one await (or timer, or inbound message) to the *)
(* next.  Only calls that the permission mode answers with                 *)
(* requiresConfirmation are modelled: Calls is the set of those.  The      *)
(* policy, which may be reloaded at any time, can refuse them before that. *)
(***************************************************************************)
EXTENDS ApprovalRequests

VARIABLES pc,        \* where each turn stands in executeToolCall
          call,      \* the call each turn executes
          req,       \* the id of the request each turn asked with
          waiters,   \* turns whose entry is in ApprovalService.waiters,
                     \* a map with at most one entry for a request id
          timers,    \* turns whose timeout of waitForDecision is armed
          requests,  \* pendingRequests of the store; the index is the id
          overdue,   \* ids older than pendingRequestExpiryMs
          grants,    \* approvals of the store: unused grants by fingerprint
          allowed,   \* calls the policy in force allows, by session
          runs,      \* how often each call was executed
          approvedIds,  \* requests a client has approved (history)
          approvals,    \* approving answers given for each call (history)
          called,    \* calls started so far
          answered   \* approval responses received so far

vars == <<pc, call, req, waiters, timers, requests, overdue, grants, allowed,
          runs, approvedIds, approvals, called, answered>>

Places == {"idle", "sending", "waiting", "approved", "denied"}
Init == /\ pc = [t \in Turns |-> "idle"]
        /\ call = [t \in Turns |-> NoCall]
        /\ req = [t \in Turns |-> 0]
        /\ waiters = {} /\ timers = {}
        /\ requests = <<>> /\ overdue = {}
        /\ grants = [f \in Fingerprints |-> 0]
        /\ allowed \in SUBSET (Sessions \X Calls)
        /\ runs = [c \in Calls |-> 0]
        /\ approvedIds = {} /\ approvals = [c \in Calls |-> 0]
        /\ called = 0 /\ answered = 0
-----------------------------------------------------------------------------
\* Mutant: the grant is good for two calls.
RegisteredForTwo(gs, fp) == [gs EXCEPT ![fp] = @ + 2]

\* The loop registers grants of scope once with one use and no lifetime; they
\* cover their fingerprint for whoever asks and differ in nothing else.
Registered(gs, fp) == [gs EXCEPT ![fp] = @ + 1]

\* Mutant: the gate leaves the grant it found in the store.
LeftInStore(gs, fp) == gs

Consumed(gs, fp) == [gs EXCEPT ![fp] = @ - 1]

\* Mutant: an answer wakes a waiter of any request.
WokenByAny(id) == waiters

\* The entry of waiters that id has.
Woken(id) == {u \in waiters : req[u] = id}

OtherWaiters(id) == {u \in waiters : req[u] # id}

\* Mutant: there is one timer for a request, not one for a waiter.
ArmedOverOlder(t) == {u \in timers : req[u] # req[t]} \cup {t}

\* setTimeout in waitForDecision: a timer of its own for each waiter.
Armed(t) == timers \cup {t}

\* Mutant: an answer leaves the timers of the turns it wakes.
LeftArmed(us) == timers

\* clearTimeout of the waiters an answer wakes.
Disarmed(us) == timers \ us

\* PermissionPolicyEngine.evaluate, in the context of the turn's session.
Allows(t, c) == <<Owner[t], c>> \in allowed

\* ToolRegistry.execute up to its answer: the policy refuses the call before the
\* gate is asked, or the gate consumes a matching grant and the tool runs, or the
\* call needs a confirmation under a request id.
Execute(t, c, gs, rs) ==
    LET fp == Fingerprint(c, Cwd)
        kept == Pruned(rs, overdue)
    IN \/ /\ ~Allows(t, c)
          /\ grants' = gs /\ requests' = rs
          /\ pc' = [pc EXCEPT ![t] = "idle"]
          /\ UNCHANGED <<req, runs>>
       \/ /\ Allows(t, c) /\ gs[fp] > 0
          /\ grants' = Consumed(gs, fp)
          /\ requests' = kept
          /\ runs' = [runs EXCEPT ![c] = @ + 1]
          /\ pc' = [pc EXCEPT ![t] = "idle"]
          /\ UNCHANGED req
       \/ /\ Allows(t, c) /\ gs[fp] = 0
          /\ \E id \in 1..(Len(rs) + 1) :
                /\ Asked(kept, fp, Owner[t], id, requests')
                /\ req' = [req EXCEPT ![t] = id]
          /\ grants' = gs
          /\ pc' = [pc EXCEPT ![t] = "sending"]
          /\ UNCHANGED runs
-----------------------------------------------------------------------------
\* The language model asks turn t to call c.
Call(t, c) ==
    /\ pc[t] = "idle" /\ called < MaxCalls
    /\ called' = called + 1
    /\ call' = [call EXCEPT ![t] = c]
    /\ Execute(t, c, grants, requests)
    /\ UNCHANGED <<waiters, timers, overdue, allowed, approvedIds, approvals,
                   answered>>

\* confirmation_required is delivered; waitForDecision enters the waiter,
\* over an older one of the same request, and arms its own timer.
Sent(t) ==
    /\ pc[t] = "sending"
    /\ pc' = [pc EXCEPT ![t] = "waiting"]
    /\ waiters' = OtherWaiters(req[t]) \cup {t}
    /\ timers' = Armed(t)
    /\ UNCHANGED <<call, req, requests, overdue, grants, allowed, runs,
                   approvedIds, approvals, called, answered>>

\* sendToSession throws: the call ends with an error, its request stays.
SendFails(t) ==
    /\ pc[t] = "sending"
    /\ pc' = [pc EXCEPT ![t] = "idle"]
    /\ UNCHANGED <<call, req, waiters, timers, requests, overdue, grants,
                   allowed, runs, approvedIds, approvals, called, answered>>

\* An approving answer to request id, noted in the histories.
NoteApproval(id) ==
    /\ approvedIds' = approvedIds \cup {id}
    /\ approvals' = [approvals EXCEPT ![requests[id].fp.call] = @ + 1]

\* ApprovalService.resolve wakes the turn whose waiter is registered for id.
Answer(id, ok) ==
    LET woken == Woken(id)
    IN /\ answered < MaxResponses
       /\ answered' = answered + 1
       /\ requests' = Resolved(requests, id, ok)
       /\ IF ok THEN NoteApproval(id) ELSE UNCHANGED <<approvedIds, approvals>>
       /\ pc' = [u \in Turns |-> IF u \notin woken THEN pc[u]
                                 ELSE IF ok THEN "approved" ELSE "denied"]
       /\ waiters' = waiters \ woken
       /\ timers' = Disarmed(woken)
       /\ UNCHANGED <<call, req, overdue, grants, allowed, runs, called>>

\* The timer of waitForDecision deletes whatever waiter the id has now.
Timeout(t) ==
    /\ t \in timers
    /\ timers' = timers \ {t}
    /\ waiters' = OtherWaiters(req[t])
    /\ requests' = Resolved(requests, req[t], FALSE)
    /\ pc' = [pc EXCEPT ![t] = "denied"]
    /\ UNCHANGED <<call, req, overdue, grants, allowed, runs, approvedIds,
                   approvals, called, answered>>

\* After an approval the turn registers a grant for the call without its
\* working directory and executes the call again.
Retry(t) ==
    /\ pc[t] = "approved"
    /\ Execute(t, call[t], Registered(grants, GrantedFingerprint(call[t])),
               Resolved(requests, req[t], TRUE))
    /\ UNCHANGED <<call, waiters, timers, overdue, allowed, approvedIds,
                   approvals, called, answered>>

\* After a refusal or a timeout the call ends with an error.
GiveUp(t) ==
    /\ pc[t] = "denied"
    /\ requests' = Resolved(requests, req[t], FALSE)
    /\ pc' = [pc EXCEPT ![t] = "idle"]
    /\ UNCHANGED <<call, req, waiters, timers, overdue, grants, allowed, runs,
                   approvedIds, approvals, called, answered>>

\* A request gets older than pendingRequestExpiryMs; only the age of a pending
\* request is ever looked at.
GrowOld(id) ==
    /\ id \notin overdue /\ requests[id].status = "pending"
    /\ overdue' = overdue \cup {id}
    /\ UNCHANGED <<pc, call, req, waiters, timers, requests, grants, allowed,
                   runs, approvedIds, approvals, called, answered>>

\* reloadPermissionPolicyFixture gives the registry another policy.
ReloadPolicy ==
    /\ allowed' \in SUBSET (Sessions \X Calls)
    /\ UNCHANGED <<pc, call, req, waiters, timers, requests, overdue, grants,
                   runs, approvedIds, approvals, called, answered>>

\* The process restarts: the store is read back, turns and waiters are gone.
Restart ==
    /\ pc' = [t \in Turns |-> "idle"]
    /\ waiters' = {} /\ timers' = {}
    /\ UNCHANGED <<call, req, requests, overdue, grants, allowed, runs,
                   approvedIds, approvals, called, answered>>

TurnStep(t) == \/ Sent(t) \/ SendFails(t) \/ Timeout(t) \/ Retry(t) \/ GiveUp(t)

Next == \/ \E t \in Turns : TurnStep(t)
        \/ \E t \in Turns, c \in Calls : Call(t, c)
        \/ \E id \in DOMAIN requests, ok \in BOOLEAN : Answer(id, ok)
        \/ \E id \in DOMAIN requests : GrowOld(id)
        \/ ReloadPolicy
        \/ Restart

\* The event loop runs every due timer and continuation, and a channel's
\* send either returns or throws.  Nothing obliges a client to answer.
Fairness == \A t \in Turns : /\ WF_vars(Sent(t) \/ SendFails(t))
                             /\ WF_vars(Timeout(t))
                             /\ WF_vars(Retry(t))
                             /\ WF_vars(GiveUp(t))

Spec == Init /\ [][Next]_vars
FairSpec == Spec /\ Fairness
-----------------------------------------------------------------------------
\* Types of the state.
TypeOK == /\ pc \in [Turns -> Places]
          /\ call \in [Turns -> Calls \cup {NoCall}]
          /\ req \in [Turns -> Nat]
          /\ waiters \subseteq Turns /\ timers \subseteq Turns
          /\ requests \in Seq(Request)
          /\ overdue \subseteq Nat /\ approvedIds \subseteq Nat
          /\ grants \in [Fingerprints -> Nat]
          /\ allowed \subseteq Sessions \X Calls
          /\ runs \in [Calls -> Nat] /\ approvals \in [Calls -> Nat]
          /\ called \in Nat /\ answered \in Nat

Waiting == {t \in Turns : pc[t] = "waiting"}

\* A timeout of waitForDecision is armed exactly for the turns that wait, also
\* for a turn whose map entry a later waiter overwrote: no turn waits without
\* a way out, and no timer fires into a request that was decided before.
TimerIffWaiting == timers = Waiting

\* An entry of ApprovalService.waiters belongs to a turn that still waits, and
\* a request id has one entry.
WaiterStillWaits ==
    /\ waiters \subseteq Waiting
    /\ \A t, u \in waiters : req[t] = req[u] => t = u

\* Timers and waiters follow the turns that wait, however answers, timeouts and
\* turns that share a request id interleave.
EntriesFollowWaits == TimerIffWaiting /\ WaiterStillWaits

\* The store never holds two pending requests of one session for one call.
OnePendingPerCall ==
    \A i, j \in DOMAIN requests :
        /\ requests[i].status = "pending"
        /\ requests[j] = requests[i]
        => i = j

Approved(c) == {t \in Turns : pc[t] = "approved" /\ call[t] = c}

\* An approving answer of a client pays for one run of the call it was given for,
\* and of no other call: the runs of a call, the grants a later call could use
\* unasked and the turns that will still register one never exceed the approving
\* answers.  A grant outlives its turn when a policy loaded meanwhile refuses the
\* approved call; the next equal call the policy allows runs on it, and only one.
AnswersPay ==
    \A c \in Calls :
        runs[c] + grants[Fingerprint(c, Cwd)] + Cardinality(Approved(c))
            <= approvals[c]

\* The store holds no more than it was given: no second pending request of one
\* session for one call, no grant and no run that no client has answered for.
StoreIsPaidFor == OnePendingPerCall /\ AnswersPay

\* A turn is told "approved" only if a client approved the very request it
\* asked with, and the request of a turn that was told is no longer pending.
VerdictIsOwn ==
    \A t \in Turns :
        /\ pc[t] = "approved" => req[t] \in approvedIds
        /\ pc[t] \in {"approved", "denied"} =>
              /\ req[t] \in DOMAIN requests
              /\ requests[req[t]].status # "pending"

PhaseOf(place, c) == CASE place = "idle" -> [at |-> "idle"]
                       [] place = "approved" -> [at |-> "granted", call |-> c]
                       [] OTHER -> [at |-> "asked", call |-> c]
Phase == [t \in Turns |-> PhaseOf(pc[t], call[t])]
Contract == INSTANCE ApprovalContract
                WITH phase <- Phase,
                     unused <- [c \in Calls |-> grants[Fingerprint(c, Cwd)]]

\* Promise mode keeps the approval contract: one answer, at most one run, of the
\* call that was answered.
ImplementsContract == Contract!ContractSpec

\* A turn that waits is released, by an answer or by its own timer.
WaitEnds == \A t \in Turns : pc[t] = "waiting" ~> pc[t] # "waiting"

\* tests/testPermissions.ts: once the approval is registered, the same call is
\* approved.  In the loop: the retry after an approval does not ask again.
ApprovedRetryRuns ==
    [][\A t \in Turns : pc[t] = "approved" => pc'[t] # "sending"]_vars
=============================================================================
