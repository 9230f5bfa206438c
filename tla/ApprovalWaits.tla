---------------------------- MODULE ApprovalWaits ----------------------------
(***************************************************************************)
(* ApprovalWaitManager on the approval event bus                           *)
(* (protocol/approvalEventBus.ts): a wait is a promise with a timer, and   *)
(* the manager keeps the last wait registered for each request. A request  *)
(* may be registered again while it is waited for. start.ts creates the    *)
(* manager and the loop calls none of it: the callers are external.        *)
(***************************************************************************)
EXTENDS Naturals, FiniteSets

CONSTANTS Requests,
          Waits,        \* the calls of register
          NoWait

VARIABLES wanted,     \* the request each wait was registered for
          pending,    \* the wait the manager keeps for each request
          armed,      \* waits whose timer is set
          told,       \* "approved" or "refused", once the promise is resolved
          approvals,  \* requests approved while each wait was open (history)
          cancelled   \* waits cancel() removed (history)

vars == <<wanted, pending, armed, told, approvals, cancelled>>

Unregistered == {w \in Waits : wanted[w] = {}}
Open == {w \in Waits : wanted[w] # {} /\ told[w] = "nothing"}

Init == /\ wanted = [w \in Waits |-> {}]
        /\ pending = [r \in Requests |-> NoWait]
        /\ armed = {} /\ told = [w \in Waits |-> "nothing"]
        /\ approvals = [w \in Waits |-> {}] /\ cancelled = {}
-----------------------------------------------------------------------------
\* register: a new promise and its timer; the entry of an earlier wait is replaced,
\* and its timer stays.
Register(w, r) ==
    /\ w \in Unregistered
    /\ wanted' = [wanted EXCEPT ![w] = {r}]
    /\ pending' = [pending EXCEPT ![r] = w]
    /\ armed' = armed \cup {w}
    /\ UNCHANGED <<told, approvals, cancelled>>

Forgotten(r) == [pending EXCEPT ![r] = NoWait]

\* The timer of a wait: the entry of its request goes, whichever wait it is of.
TimerFires(w) ==
    /\ w \in armed /\ armed' = armed \ {w}
    /\ \E r \in wanted[w] : pending' = Forgotten(r)
    /\ told' = [told EXCEPT ![w] = "refused"]
    /\ UNCHANGED <<wanted, approvals, cancelled>>

\* resolve: the wait the manager keeps for the request is answered, if there is one.
Resolve(r, approved) ==
    IF pending[r] = NoWait THEN UNCHANGED <<pending, armed, told>>
    ELSE /\ armed' = armed \ {pending[r]}
         /\ pending' = Forgotten(r)
         /\ told' = [told EXCEPT ![pending[r]] = IF approved THEN "approved" ELSE "refused"]

\* emitApprovalResolved calls it; an error of another handler is caught.
EmitResolved(r, approved) ==
    /\ Resolve(r, approved)
    /\ approvals' = [w \in Waits |-> IF approved /\ w \in Open /\ r \in wanted[w]
                                     THEN approvals[w] \cup {r} ELSE approvals[w]]
    /\ UNCHANGED <<wanted, cancelled>>

\* cancel: the timer and the entry go, the promise stays open.
Cancel(r) == /\ pending[r] # NoWait
             /\ armed' = armed \ {pending[r]}
             /\ pending' = Forgotten(r)
             /\ cancelled' = cancelled \cup {pending[r]}
             /\ UNCHANGED <<wanted, told, approvals>>

Next == \/ \E w \in Waits : TimerFires(w) \/ \E r \in Requests : Register(w, r)
        \/ \E r \in Requests : Cancel(r) \/ \E ok \in BOOLEAN : EmitResolved(r, ok)

Spec == Init /\ [][Next]_vars
-----------------------------------------------------------------------------
\* However waits for one request replace each other: a wait that is open will be
\* answered, by its timer if by nothing else, unless it was cancelled; one that was
\* answered has no timer left that could take a later wait's entry away; and none
\* is told of an approval that its request did not get while it waited.
WaitsAreAnswered ==
    \A w \in Waits :
        /\ w \in armed <=> w \in Open /\ w \notin cancelled
        /\ told[w] = "approved" => wanted[w] \subseteq approvals[w]
        /\ \A r \in Requests : pending[r] = w => w \in armed /\ wanted[w] = {r}

\* Types of the state.
TypeOK == /\ wanted \in [Waits -> {{}} \cup {{r} : r \in Requests}]
          /\ pending \in [Requests -> Waits \cup {NoWait}]
          /\ armed \subseteq Waits /\ cancelled \subseteq Waits
          /\ told \in [Waits -> {"nothing", "approved", "refused"}]
          /\ approvals \in [Waits -> SUBSET Requests]
=============================================================================
