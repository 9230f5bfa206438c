------------------------- MODULE PermissionWorkflow -------------------------
(***************************************************************************)
(* PermissionWorkflowStore (permissions/permissionWorkflow.ts): grants,    *)
(* pending approval requests and the audit log, kept in memory and written *)
(* whole to workflow-state.json by persist().  One action per public       *)
(* method, any of which the gates of concurrent turns may call, and a      *)
(* restart that reads the file back.                                       *)
(***************************************************************************)
EXTENDS Naturals, Sequences, FiniteSets

CONSTANTS Calls,        \* fingerprints of tool calls
          Sessions, Users,
          Nobody,       \* sessionId or userId is undefined
          Callers,      \* the sessionId and userId of the gates
          Expiry,       \* pendingRequestExpiryMs
          GrantOptions, \* scope, ttlMs and remainingUses grants are made with
          MaxAudit,     \* maxAuditEntries
          MaxTime,      \* bound on the clock
          MaxGrants, MaxRequests  \* bounds on grants and requests ever made

Forever == 0            \* no ttlMs: the grant has no expiresAt
Unlimited == 0          \* no remainingUses
Scopes == {"once", "session", "user"}

ASSUME CallerAssumption ==
    /\ Nobody \notin Sessions \cup Users
    /\ Callers \subseteq [session : Sessions \cup {Nobody}, user : Users \cup {Nobody}]
ASSUME NumberAssumption ==
    /\ Expiry \in Nat /\ MaxAudit \in Nat \ {0} /\ MaxTime \in Nat \ {0}
    /\ MaxGrants \in Nat /\ MaxRequests \in Nat
    /\ GrantOptions \subseteq [scope : Scopes, ttl : Nat, uses : Nat]

VARIABLES approvals,    \* grants; the array has them in the order of their ids
          requests,     \* pendingRequests; the index is the id
          auditLen,     \* length of auditLog
          disk,         \* what workflow-state.json holds
          now,
          issued,       \* grants registered so far
          covered       \* covered[g]: calls a grant with counted uses covered (history)

vars == <<approvals, requests, auditLen, disk, now, issued, covered>>

Statuses == {"pending", "approved", "rejected", "expired"}

GrantRecord == [id : Nat, fp : Calls, scope : Scopes, caller : Callers,
                expiresAt : Nat, uses : Nat, left : Nat]
Request == [fp : Calls, caller : Callers, createdAt : Nat, status : Statuses]

Init == /\ approvals = {} /\ requests = <<>>
        /\ auditLen = 0
        /\ disk = [approvals |-> {}, requests |-> <<>>, auditLen |-> 0]
        /\ now = 1
        /\ issued = 0
        /\ covered = [g \in 1..MaxGrants |-> 0]

\* persist() writes the state the step leaves in memory.
Persist == disk' = [approvals |-> approvals', requests |-> requests',
                    auditLen |-> auditLen']
-----------------------------------------------------------------------------
Alive(g) == g.expiresAt = Forever \/ g.expiresAt >= now

\* A grant of scope session or user covers only its own session or user, one
\* registered without covers every caller; scope once covers every caller.
Covers(g, fp, caller) ==
    /\ g.fp = fp
    /\ Alive(g)
    /\ g.scope = "session" => g.caller.session \in {Nobody, caller.session}
    /\ g.scope = "user" => g.caller.user \in {Nobody, caller.user}

PrunedGrants == {g \in approvals : Alive(g)}

\* Mutant: requests that were decided expire as well.
StaleOfAnyStatus(r) == now - r.createdAt > Expiry

Stale(r) == r.status = "pending" /\ now - r.createdAt > Expiry

PrunedRequests ==
    [i \in DOMAIN requests |-> IF Stale(requests[i])
                               THEN [requests[i] EXCEPT !.status = "expired"]
                               ELSE requests[i]]

\* Mutant: the grant is kept until its uses are below zero.
UsedOnceTooOften(gs, g) ==
    IF g.uses = Unlimited THEN gs
    ELSE (gs \ {g}) \cup {h \in {[g EXCEPT !.left = @ - 1]} : h.left >= 0}

\* The grants after one of them was used once; one without uses left goes.
UsedOnce(gs, g) ==
    IF g.uses = Unlimited THEN gs
    ELSE (gs \ {g}) \cup {h \in {[g EXCEPT !.left = @ - 1]} : h.left > 0}
-----------------------------------------------------------------------------
\* Mutant: pruning never writes.
PruneInMemory == UNCHANGED disk

\* pruneExpired writes only when a list got shorter, so a request that turns
\* expired stays pending in the file until the next write.
PrunePersist == IF PrunedGrants # approvals THEN Persist ELSE UNCHANGED disk

\* getMatchingApproval finds the first grant that covers the call.
GetMatchingApproval(fp, caller) ==
    LET hits == {g \in PrunedGrants : Covers(g, fp, caller)}
    IN /\ requests' = PrunedRequests
       /\ UNCHANGED <<auditLen, now, issued>>
       /\ \/ /\ hits = {}
             /\ approvals' = PrunedGrants /\ PrunePersist /\ UNCHANGED covered
          \/ \E g \in hits :
                /\ \A h \in hits : g.id <= h.id
                /\ approvals' = UsedOnce(PrunedGrants, g)
                /\ IF g.uses = Unlimited
                   THEN PrunePersist /\ UNCHANGED covered
                   ELSE Persist /\ covered' = [covered EXCEPT ![g.id] = @ + 1]

RegisterApproval(fp, caller, o) ==
    LET n == IF o.scope = "once" /\ o.uses = Unlimited THEN 1 ELSE o.uses
    IN /\ issued < MaxGrants
       /\ issued' = issued + 1
       /\ approvals' = approvals \cup
             {[id |-> issued + 1, fp |-> fp, scope |-> o.scope, caller |-> caller,
               expiresAt |-> IF o.ttl = Forever THEN Forever ELSE now + o.ttl,
               uses |-> n, left |-> n]}
       /\ UNCHANGED <<requests, auditLen, now, covered>>
       /\ Persist

\* Mutant: a request too old to be answered is not found.
FreshIsPending(fp, caller) ==
    \E i \in DOMAIN requests :
        /\ requests[i].status = "pending" /\ ~Stale(requests[i])
        /\ requests[i].fp = fp /\ requests[i].caller = caller

IsPending(fp, caller) ==
    \E i \in DOMAIN requests :
        /\ requests[i].status = "pending"
        /\ requests[i].fp = fp /\ requests[i].caller = caller

\* A pending request of the same call and caller is returned as it is, however
\* old; otherwise a new one is filed.
CreatePendingRequest(fp, caller) ==
    /\ ~IsPending(fp, caller)
    /\ Len(requests) < MaxRequests
    /\ requests' = Append(requests, [fp |-> fp, caller |-> caller,
                                     createdAt |-> now, status |-> "pending"])
    /\ UNCHANGED <<approvals, auditLen, now, issued, covered>>
    /\ Persist

\* resolvePendingRequest looks at no status: it decides a request of any.
ResolvePendingRequest(id, ok) ==
    /\ requests' = [requests EXCEPT ![id].status =
                       IF ok THEN "approved" ELSE "rejected"]
    /\ UNCHANGED <<approvals, auditLen, now, issued, covered>>
    /\ Persist

\* Mutant: the log is not cut to maxAuditEntries.
UncutLength == auditLen + 1

\* The length of the log after one more entry.
LoggedLength == IF auditLen < MaxAudit THEN auditLen + 1 ELSE auditLen

LogDecision ==
    /\ auditLen' = LoggedLength
    /\ UNCHANGED <<approvals, requests, now, issued, covered>>
    /\ Persist

\* getPendingRequests prunes like a match does.
GetPendingRequests ==
    /\ approvals' = PrunedGrants
    /\ requests' = PrunedRequests
    /\ UNCHANGED <<auditLen, now, issued, covered>>
    /\ PrunePersist

Tick == /\ now < MaxTime
        /\ now' = now + 1
        /\ UNCHANGED <<approvals, requests, auditLen, disk, issued, covered>>

\* The constructor of a new process loads the file.
Restart == /\ approvals' = disk.approvals
           /\ requests' = disk.requests
           /\ auditLen' = disk.auditLen
           /\ UNCHANGED <<disk, now, issued, covered>>

Next == \/ \E fp \in Calls, caller \in Callers :
              GetMatchingApproval(fp, caller) \/ CreatePendingRequest(fp, caller)
        \/ \E fp \in Calls, caller \in Callers, o \in GrantOptions :
              RegisterApproval(fp, caller, o)
        \/ \E id \in DOMAIN requests, ok \in BOOLEAN : ResolvePendingRequest(id, ok)
        \/ LogDecision \/ GetPendingRequests \/ Tick \/ Restart

Spec == Init /\ [][Next]_vars
-----------------------------------------------------------------------------
\* Types of the state.
TypeOK == /\ approvals \subseteq GrantRecord
          /\ requests \in Seq(Request)
          /\ auditLen \in 0..MaxAudit
          /\ disk \in [approvals : SUBSET GrantRecord, requests : Seq(Request),
                       auditLen : 0..MaxAudit]
          /\ now \in 1..MaxTime /\ issued \in 0..MaxGrants
          /\ covered \in [1..MaxGrants -> Nat]

\* What a crash would read back is what memory holds, except that requests
\* marked expired may still be pending in the file.
FileIsCurrent ==
    /\ disk.approvals = approvals
    /\ disk.auditLen = auditLen
    /\ Len(disk.requests) = Len(requests)
    /\ \A i \in DOMAIN requests :
          \/ disk.requests[i] = requests[i]
          \/ /\ requests[i].status = "expired"
             /\ disk.requests[i] = [requests[i] EXCEPT !.status = "pending"]

\* A grant with n uses covers at most n calls, across any number of restarts:
\* what it has left and what it has covered add up, and a grant that can still
\* be found has a use left.
CountedUses ==
    \A g \in approvals :
        g.uses # Unlimited => g.left > 0 /\ g.left + covered[g.id] = g.uses

\* A call and caller have at most one pending request, in memory and on file.
OnePendingPerCaller ==
    LET Unique(rs) == \A i, j \in DOMAIN rs :
            /\ rs[i].status = "pending" /\ rs[j].status = "pending"
            /\ rs[i].fp = rs[j].fp /\ rs[i].caller = rs[j].caller
            => i = j
    IN Unique(requests) /\ Unique(disk.requests)

\* A request that a human or a timeout decided stays decided: no later prune
\* and no restart turns it back to pending or to expired.
Decided(r) == r.status \in {"approved", "rejected"}
DecidedStays ==
    [][\A i \in DOMAIN requests :
          Decided(requests[i]) => i \in DOMAIN requests' /\ Decided(requests'[i])]_vars
=============================================================================
