-------------------------- MODULE ApprovalRequests --------------------------
(***************************************************************************)
(* The calls, fingerprints and pending requests on which both approval     *)
(* modes work: createToolFingerprint and the requests of                   *)
(* PermissionWorkflowStore, as functions of the list that is passed in.    *)
(* The store itself, with its file and its clock, is PermissionWorkflow.   *)
(***************************************************************************)
EXTENDS Naturals, Sequences, FiniteSets

CONSTANTS Turns,          \* the TAOR loops
          Sessions,       \* session and user of a turn, taken together
          Owner,          \* Owner[t] is the session of turn t
          Calls,          \* tool name and parameters
          Cwd,            \* working directory the tools pass to the gate
          NoCall,         \* the turn executes no call
          MaxCalls,       \* bound: calls the language model asks for
          MaxResponses    \* bound: approval responses clients send

NoCwd == ""               \* createToolFingerprint: call.cwd ?? ''

ASSUME OwnerAssumption == Owner \in [Turns -> Sessions]
ASSUME CallAssumption == NoCall \notin Calls
ASSUME BoundAssumption == MaxCalls \in Nat /\ MaxResponses \in Nat

Statuses == {"pending", "approved", "rejected", "expired"}

\* createToolFingerprint: the call and the working directory it names.
Fingerprint(c, cwd) == [call |-> c, cwd |-> cwd]

\* Mutant: the grant names the directory the tools name, so it can be found.
GrantForCwd(c) == Fingerprint(c, Cwd)

\* The loop registers its grants for the call without a working directory.
GrantedFingerprint(c) == Fingerprint(c, NoCwd)

Fingerprints == [call : Calls, cwd : {NoCwd, Cwd}]
Request == [fp : Fingerprints, owner : Sessions, status : Statuses]

\* Mutant: a refusal is stored under a status the store does not know.
ResolvedAsDenied(rs, id, ok) ==
    [rs EXCEPT ![id].status = IF ok THEN "approved" ELSE "denied"]

\* resolvePendingRequest decides a request whatever its status is.
Resolved(rs, id, ok) ==
    [rs EXCEPT ![id].status = IF ok THEN "approved" ELSE "rejected"]

\* pruneExpired: the pending requests among the overdue ids expire.
Pruned(rs, overdue) ==
    [i \in DOMAIN rs |-> IF rs[i].status = "pending" /\ i \in overdue
                         THEN [rs[i] EXCEPT !.status = "expired"] ELSE rs[i]]

Reusable(rs, fp, owner) ==
    {i \in DOMAIN rs : rs[i] = [fp |-> fp, owner |-> owner, status |-> "pending"]}

\* createPendingRequest returns a pending request of the same call and owner,
\* or files a new one: the id it returns and the list it leaves.
Asked(rs, fp, owner, id, rs2) ==
    IF Reusable(rs, fp, owner) = {}
    THEN /\ id = Len(rs) + 1
         /\ rs2 = Append(rs, [fp |-> fp, owner |-> owner, status |-> "pending"])
    ELSE id \in Reusable(rs, fp, owner) /\ rs2 = rs
=============================================================================
