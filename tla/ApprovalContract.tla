-------------------------- MODULE ApprovalContract --------------------------
(***************************************************************************)
(* What the approval protocol promises about tool calls that need a human  *)
(* decision, whichever approval mode carries it: a turn comes to be        *)
(* granted only from asking, one answer of the user grants one turn its    *)
(* call, and every run of a call uses up one grant of that very call: the  *)
(* turn's own, or one that an earlier turn was given and could not use.    *)
(* PromiseApproval and EventApproval are shown to implement this           *)
(* specification.                                                          *)
(***************************************************************************)
EXTENDS Naturals

CONSTANTS Turns,    \* the TAOR loops, one per inbound user message
          Calls     \* the calls that need a decision

VARIABLES phase,    \* where each turn stands, and with which call
          unused,   \* grants of each call that no run has used
          runs      \* how often each call has been executed

contractVars == <<phase, unused, runs>>

Idle == [at |-> "idle"]
AskingFor(c) == [at |-> "asked", call |-> c]
GrantedTo(c) == [at |-> "granted", call |-> c]

ContractInit == /\ phase = [t \in Turns |-> Idle]
                /\ unused = [c \in Calls |-> 0]
                /\ runs = [c \in Calls |-> 0]

\* A turn puts its call to the user.  A turn whose call was granted may ask
\* again instead of running it: the promise says nothing against asking.
Ask(t, c) == /\ phase[t] \in {Idle, GrantedTo(c)}
             /\ phase' = [phase EXCEPT ![t] = AskingFor(c)]
             /\ UNCHANGED <<unused, runs>>

\* One answer of the user grants one turn the call it asks for.
Grant(t, c) == /\ phase[t] = AskingFor(c)
               /\ phase' = [phase EXCEPT ![t] = GrantedTo(c)]
               /\ UNCHANGED <<unused, runs>>

\* The granted call runs and uses its grant up.
Run(t, c) == /\ phase[t] = GrantedTo(c)
             /\ phase' = [phase EXCEPT ![t] = Idle]
             /\ runs' = [runs EXCEPT ![c] = @ + 1]
             /\ UNCHANGED unused

\* A call that was granted is given up, and its grant is kept.
KeepGrant(t, c) == /\ phase[t] = GrantedTo(c)
                   /\ phase' = [phase EXCEPT ![t] = Idle]
                   /\ unused' = [unused EXCEPT ![c] = @ + 1]
                   /\ UNCHANGED runs

\* A call runs unasked: it uses up a grant of the same call that was kept.
RunOnKept(c) == /\ unused[c] > 0
                /\ unused' = [unused EXCEPT ![c] = @ - 1]
                /\ runs' = [runs EXCEPT ![c] = @ + 1]
                /\ UNCHANGED phase

\* A call that was put to the user can always be given up.
Refuse(t) == /\ phase[t] # Idle
             /\ phase' = [phase EXCEPT ![t] = Idle]
             /\ UNCHANGED <<unused, runs>>

\* The process stops: every turn is gone, the grants that were kept are not.
ContractCrash == /\ phase' = [t \in Turns |-> Idle]
                 /\ UNCHANGED <<unused, runs>>

ContractNext ==
    \/ \E t \in Turns, c \in Calls :
          Ask(t, c) \/ Grant(t, c) \/ Run(t, c) \/ KeepGrant(t, c)
    \/ \E c \in Calls : RunOnKept(c)
    \/ \E t \in Turns : Refuse(t)
    \/ ContractCrash

ContractSpec == ContractInit /\ [][ContractNext]_contractVars
=============================================================================
