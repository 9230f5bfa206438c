----------------------- MODULE PermissionWorkflowProofs -----------------------
(***************************************************************************)
(* The safety of PermissionWorkflowStore, for any calls, callers, grant    *)
(* options and limits: every property that MCPermissionWorkflow checks.    *)
(***************************************************************************)
EXTENDS PermissionWorkflow, TLAPS

\* Grants are known by their ids, and no call was covered by a grant that was not
\* made yet.
IdsAreOwn ==
    /\ \A g \in approvals : g.id \in 1..issued
    /\ \A g, h \in approvals : g.id = h.id => g = h
    /\ \A n \in 1..MaxGrants : n > issued => covered[n] = 0

IInv == TypeOK /\ FileIsCurrent /\ CountedUses /\ OnePendingPerCaller /\ IdsAreOwn

\* The two halves of OnePendingPerCaller.
Unique(rs) == \A i, j \in DOMAIN rs :
    /\ rs[i].status = "pending" /\ rs[j].status = "pending"
    /\ rs[i].fp = rs[j].fp /\ rs[i].caller = rs[j].caller
    => i = j

LEMMA OneEach == OnePendingPerCaller <=> Unique(requests) /\ Unique(disk.requests)
  BY DEF OnePendingPerCaller, Unique
-----------------------------------------------------------------------------
\* After a step that writes the file, the file is current and as good as memory.
LEMMA Persisted ==
    ASSUME Persist, approvals' \subseteq GrantRecord, requests' \in Seq(Request),
           auditLen' \in 0..MaxAudit, Unique(requests')
    PROVE /\ disk' \in [approvals : SUBSET GrantRecord, requests : Seq(Request),
                        auditLen : 0..MaxAudit]
          /\ FileIsCurrent'
          /\ OnePendingPerCaller'
  BY DEF Persist, FileIsCurrent, OnePendingPerCaller, Unique

\* A prune marks requests expired and changes nothing else of them.
LEMMA PrunedKeeps ==
    ASSUME requests \in Seq(Request), Unique(requests)
    PROVE /\ PrunedRequests \in Seq(Request)
          /\ Len(PrunedRequests) = Len(requests)
          /\ DOMAIN PrunedRequests = DOMAIN requests
          /\ Unique(PrunedRequests)
          /\ \A i \in DOMAIN requests :
                \/ PrunedRequests[i] = requests[i]
                \/ /\ requests[i].status = "pending"
                   /\ PrunedRequests[i] = [requests[i] EXCEPT !.status = "expired"]
  <1>1. /\ \A i \in 1..Len(requests) : requests[i] \in Request
        /\ DOMAIN requests = 1..Len(requests) /\ Len(requests) \in Nat
    OBVIOUS
  <1>2. PrunedRequests = [i \in 1..Len(requests) |-> PrunedRequests[i]]
    BY <1>1 DEF PrunedRequests
  <1>3. \A i \in 1..Len(requests) :
            /\ PrunedRequests[i] \in Request
            /\ \/ PrunedRequests[i] = requests[i]
               \/ /\ requests[i].status = "pending"
                  /\ PrunedRequests[i] = [requests[i] EXCEPT !.status = "expired"]
    BY <1>1 DEF PrunedRequests, Stale, Request, Statuses
  <1>4. PrunedRequests \in Seq(Request) /\ Len(PrunedRequests) = Len(requests)
    BY <1>1, <1>2, <1>3
  <1>5. \A i \in 1..Len(requests) : PrunedRequests[i].status = "pending"
                                    => PrunedRequests[i] = requests[i]
    BY <1>1, <1>3 DEF Request
  <1>6. Unique(PrunedRequests)
    BY <1>1, <1>4, <1>5 DEF Unique
  <1> QED BY <1>1, <1>3, <1>4, <1>6

\* The pending request that one marked expired was.
LEMMA ExpiredWasPending ==
    ASSUME NEW r \in Request, NEW s, r.status = "pending",
           s = [r EXCEPT !.status = "expired"]
    PROVE  s.status = "expired" /\ r = [s EXCEPT !.status = "pending"]
  BY DEF Request

\* A prune that does not write leaves a file that is still current.
LEMMA PrunedIsCurrent ==
    ASSUME IInv, requests' = PrunedRequests, approvals' = PrunedGrants,
           UNCHANGED auditLen, PrunePersist
    PROVE /\ disk' \in [approvals : SUBSET GrantRecord, requests : Seq(Request),
                        auditLen : 0..MaxAudit]
          /\ FileIsCurrent'
          /\ OnePendingPerCaller'
  <1>0. Unique(requests) /\ Unique(disk.requests) /\ PrunedGrants \subseteq GrantRecord
    BY OneEach DEF IInv, TypeOK, PrunedGrants
  <1>1. CASE PrunedGrants # approvals
    BY <1>0, <1>1, PrunedKeeps, Persisted DEF PrunePersist, IInv, TypeOK
  <1>2. CASE PrunedGrants = approvals
    <2>1. disk' = disk /\ approvals' = approvals
      BY <1>2 DEF PrunePersist
    <2>2. OnePendingPerCaller'
      BY <1>0, <2>1, PrunedKeeps DEF OnePendingPerCaller, Unique, IInv, TypeOK
    <2>3. /\ requests' = PrunedRequests /\ DOMAIN requests' = DOMAIN requests
          /\ Len(requests') = Len(requests)
      BY <1>0, PrunedKeeps DEF IInv, TypeOK
    <2>4. ASSUME NEW i \in DOMAIN requests
          PROVE \/ disk.requests[i] = requests'[i]
                \/ /\ requests'[i].status = "expired"
                   /\ disk.requests[i] = [requests'[i] EXCEPT !.status = "pending"]
      <3>1. /\ requests[i] \in Request
            /\ \/ disk.requests[i] = requests[i]
               \/ /\ requests[i].status = "expired"
                  /\ disk.requests[i] = [requests[i] EXCEPT !.status = "pending"]
        BY DEF IInv, TypeOK, FileIsCurrent
      <3>2. CASE requests'[i] = requests[i]
        BY <3>1, <3>2
      <3>3. CASE /\ requests[i].status = "pending"
                 /\ requests'[i] = [requests[i] EXCEPT !.status = "expired"]
        <4>1. disk.requests[i] = requests[i]
          BY <3>1, <3>3
        <4>2. /\ requests'[i].status = "expired"
              /\ requests[i] = [requests'[i] EXCEPT !.status = "pending"]
          BY <3>1, <3>3, ExpiredWasPending
        <4> QED BY <4>1, <4>2
      <3> QED BY <1>0, <2>3, <3>2, <3>3, PrunedKeeps DEF IInv, TypeOK
    <2>5. FileIsCurrent'
      BY <2>1, <2>3, <2>4 DEF FileIsCurrent, IInv
    <2> QED BY <2>1, <2>2, <2>5 DEF IInv, TypeOK
  <1> QED BY <1>1, <1>2
-----------------------------------------------------------------------------
LEMMA InitIInv == Init => IInv
  BY NumberAssumption
     DEF Init, IInv, TypeOK, FileIsCurrent, CountedUses, OnePendingPerCaller, IdsAreOwn

\* The parts of the invariant about grants, when the step takes away some of them.
LEMMA FewerGrants ==
    ASSUME IInv, approvals' \subseteq approvals, UNCHANGED <<issued, covered>>
    PROVE (CountedUses /\ IdsAreOwn)' /\ approvals' \subseteq GrantRecord
  BY DEF IInv, TypeOK, CountedUses, IdsAreOwn

LEMMA GetMatchingApprovalStep ==
    ASSUME IInv, NEW fp \in Calls, NEW caller \in Callers, GetMatchingApproval(fp, caller)
    PROVE IInv'
  <1> DEFINE hits == {g \in PrunedGrants : Covers(g, fp, caller)}
  <1>0. /\ PrunedGrants \subseteq approvals
        /\ requests' = PrunedRequests /\ UNCHANGED <<auditLen, now, issued>>
        /\ requests' \in Seq(Request) /\ Unique(requests')
    BY OneEach, PrunedKeeps DEF GetMatchingApproval, PrunedGrants, IInv, TypeOK
  <1>1. CASE approvals' = PrunedGrants /\ PrunePersist /\ UNCHANGED covered
    BY <1>0, <1>1, FewerGrants, PrunedIsCurrent DEF IInv, TypeOK
  <1>2. ASSUME NEW g \in hits, approvals' = UsedOnce(PrunedGrants, g),
               g.uses # Unlimited, Persist,
               covered' = [covered EXCEPT ![g.id] = @ + 1]
        PROVE IInv'
    <2>1. /\ g \in approvals /\ g \in GrantRecord /\ g.id \in 1..MaxGrants
          /\ g.left > 0 /\ g.left + covered[g.id] = g.uses
          /\ covered[g.id] \in Nat /\ g.left \in Nat /\ g.uses \in Nat
      BY <1>0, <1>2, NumberAssumption DEF IInv, TypeOK, IdsAreOwn, CountedUses, GrantRecord
    <2> DEFINE rest == PrunedGrants \ {g}
               used == [g EXCEPT !.left = @ - 1]
    <2>2. /\ used \in GrantRecord /\ used.id = g.id /\ used.uses = g.uses
          /\ used.left = g.left - 1
      BY <2>1, <1>2 DEF GrantRecord
    <2>3. \A h \in approvals' : h \in rest \/ (h = used /\ used.left > 0)
      BY <1>2, <2>1 DEF UsedOnce
    <2>4. \A h \in rest : h \in approvals /\ h.id # g.id /\ covered'[h.id] = covered[h.id]
      BY <1>0, <1>2, <2>1, NumberAssumption DEF IInv, TypeOK, IdsAreOwn
    <2>5. covered' \in [1..MaxGrants -> Nat] /\ covered'[g.id] = covered[g.id] + 1
      BY <1>2, <2>1 DEF IInv, TypeOK
    <2>6. approvals' \subseteq GrantRecord
      BY <2>2, <2>3, <2>4 DEF IInv, TypeOK
    <2>7. CountedUses'
      <3>1. ASSUME NEW h \in rest, h.uses # Unlimited
            PROVE h.left > 0 /\ h.left + covered'[h.id] = h.uses
        BY <2>4, <3>1 DEF IInv, CountedUses
      <3>2. used.left + covered'[used.id] = used.uses
        BY <2>1, <2>2, <2>5
      <3> QED BY <2>3, <3>1, <3>2 DEF CountedUses
    <2>8. IdsAreOwn'
      <3>1. \A n \in 1..MaxGrants : n > issued => covered'[n] = 0
        BY <1>0, <1>2, <2>1, NumberAssumption DEF IInv, TypeOK, IdsAreOwn
      <3>2. \A h, k \in approvals' : h.id = k.id => h = k
        <4>1. \A h, k \in rest : h.id = k.id => h = k
          BY <2>4 DEF IInv, IdsAreOwn
        <4> QED BY <2>2, <2>3, <2>4, <4>1
      <3>3. \A h \in approvals' : h.id \in 1..issued
        BY <2>1, <2>2, <2>3, <2>4 DEF IInv, IdsAreOwn
      <3> QED BY <1>0, <3>1, <3>2, <3>3 DEF IdsAreOwn
    <2>9. auditLen' \in 0..MaxAudit /\ now' \in 1..MaxTime /\ issued' \in 0..MaxGrants
      BY <1>0 DEF IInv, TypeOK
    <2> QED BY <1>0, <1>2, <2>5, <2>6, <2>7, <2>8, <2>9, Persisted DEF IInv, TypeOK
  <1>3. ASSUME NEW g \in hits, approvals' = UsedOnce(PrunedGrants, g), g.uses = Unlimited
        PROVE approvals' = PrunedGrants
    BY <1>3 DEF UsedOnce
  <1> QED BY <1>1, <1>2, <1>3 DEF GetMatchingApproval

LEMMA RegisterApprovalStep ==
    ASSUME IInv, NEW fp \in Calls, NEW caller \in Callers, NEW o \in GrantOptions,
           RegisterApproval(fp, caller, o)
    PROVE IInv'
  <1> DEFINE n == IF o.scope = "once" /\ o.uses = Unlimited THEN 1 ELSE o.uses
             new == [id |-> issued + 1, fp |-> fp, scope |-> o.scope, caller |-> caller,
                     expiresAt |-> IF o.ttl = Forever THEN Forever ELSE now + o.ttl,
                     uses |-> n, left |-> n]
  <1>1. /\ approvals' = approvals \cup {new} /\ issued < MaxGrants /\ issued' = issued + 1
        /\ UNCHANGED <<requests, auditLen, now, covered>> /\ Persist
    BY DEF RegisterApproval
  <1>2. o.scope \in Scopes /\ o.ttl \in Nat /\ o.uses \in Nat /\ now \in Nat /\ issued \in Nat
    BY NumberAssumption DEF IInv, TypeOK
  <1>3. new \in GrantRecord /\ new.id = issued + 1 /\ new.uses = n /\ new.left = n /\ n \in Nat
    BY <1>2 DEF GrantRecord, Forever, Unlimited
  <1>4. CountedUses'
    BY <1>1, <1>2, <1>3, NumberAssumption DEF IInv, CountedUses, IdsAreOwn, Unlimited, TypeOK
  <1>5. IdsAreOwn'
    BY <1>1, <1>2, <1>3, NumberAssumption DEF IInv, IdsAreOwn, TypeOK
  <1>6. approvals' \subseteq GrantRecord /\ issued' \in 0..MaxGrants
    BY <1>1, <1>2, <1>3, NumberAssumption DEF IInv, TypeOK
  <1>7. Unique(requests') /\ requests' \in Seq(Request) /\ auditLen' \in 0..MaxAudit
    BY <1>1, OneEach DEF IInv, TypeOK
  <1> QED BY <1>1, <1>4, <1>5, <1>6, <1>7, Persisted DEF IInv, TypeOK

LEMMA CreatePendingRequestStep ==
    ASSUME IInv, NEW fp \in Calls, NEW caller \in Callers, CreatePendingRequest(fp, caller)
    PROVE IInv'
  <1> DEFINE new == [fp |-> fp, caller |-> caller, createdAt |-> now, status |-> "pending"]
  <1>1. /\ requests \in Seq(Request) /\ requests' = Append(requests, new)
        /\ UNCHANGED <<approvals, auditLen, now, issued, covered>> /\ Persist
    BY DEF CreatePendingRequest, IInv, TypeOK
  <1>2. new \in Request
    BY NumberAssumption DEF IInv, TypeOK, Request, Statuses
  <1>3. \A i \in DOMAIN requests : requests[i].status = "pending"
            => ~(requests[i].fp = new.fp /\ requests[i].caller = new.caller)
    BY DEF CreatePendingRequest, IsPending
  <1> HIDE DEF new
  <1>4. Unique(requests') /\ requests' \in Seq(Request)
    BY <1>1, <1>2, <1>3, OneEach DEF IInv, Unique
  <1> QED BY <1>1, <1>4, FewerGrants, Persisted DEF IInv, TypeOK

LEMMA ResolvePendingRequestStep ==
    ASSUME IInv, NEW id \in DOMAIN requests, NEW ok \in BOOLEAN,
           ResolvePendingRequest(id, ok)
    PROVE IInv'
  <1> DEFINE verdict == IF ok THEN "approved" ELSE "rejected"
  <1>1. /\ requests \in Seq(Request)
        /\ requests' = [requests EXCEPT ![id] = [requests[id] EXCEPT !.status = verdict]]
        /\ UNCHANGED <<approvals, auditLen, now, issued, covered>> /\ Persist
    BY DEF ResolvePendingRequest, IInv, TypeOK
  <1> verdict \in Statuses
    BY DEF Statuses
  <1> HIDE DEF verdict
  <1>2. requests[id] \in Request /\ [requests[id] EXCEPT !.status = verdict] \in Request
    <2>1. requests[id] \in Request
      BY <1>1
    <2> QED BY <2>1 DEF Request
  <1>3. requests' \in Seq(Request) /\ DOMAIN requests' = DOMAIN requests
    BY <1>1, <1>2
  <1>4. \A i \in DOMAIN requests : requests'[i].status = "pending"
                                  => requests'[i] = requests[i]
    BY <1>1, <1>2 DEF Request, verdict
  <1>5. Unique(requests')
    BY <1>3, <1>4, OneEach DEF IInv, Unique
  <1> QED BY <1>1, <1>3, <1>5, FewerGrants, Persisted DEF IInv, TypeOK

LEMMA LogDecisionStep ==
    ASSUME IInv, LogDecision
    PROVE IInv'
  <1>1. auditLen' \in 0..MaxAudit
    BY NumberAssumption DEF LogDecision, LoggedLength, IInv, TypeOK
  <1> QED BY <1>1, OneEach, FewerGrants, Persisted DEF LogDecision, IInv, TypeOK

LEMMA GetPendingRequestsStep ==
    ASSUME IInv, GetPendingRequests
    PROVE IInv'
  <1>1. requests' \in Seq(Request) /\ approvals' \subseteq approvals
    BY PrunedKeeps, OneEach DEF GetPendingRequests, PrunedGrants, IInv, TypeOK
  <1> QED BY <1>1, FewerGrants, PrunedIsCurrent DEF GetPendingRequests, IInv, TypeOK

LEMMA TickStep ==
    ASSUME IInv, Tick
    PROVE IInv'
  BY NumberAssumption
     DEF Tick, IInv, TypeOK, FileIsCurrent, CountedUses, OnePendingPerCaller, IdsAreOwn

\* The file lags behind memory in requests that expired, and in nothing else.
LEMMA RestartStep ==
    ASSUME IInv, Restart
    PROVE IInv'
  <1>1. approvals' = approvals /\ auditLen' = auditLen /\ requests' = disk.requests
    BY DEF Restart, IInv, FileIsCurrent
  <1>2. OnePendingPerCaller' /\ FileIsCurrent'
    BY <1>1 DEF Restart, IInv, OnePendingPerCaller, FileIsCurrent
  <1> QED BY <1>1, <1>2, FewerGrants DEF Restart, IInv, TypeOK

LEMMA NextIInv == IInv /\ [Next]_vars => IInv'
  <1> SUFFICES ASSUME IInv, [Next]_vars PROVE IInv'
    OBVIOUS
  <1>1. CASE UNCHANGED vars
    BY <1>1 DEF vars, IInv, TypeOK, FileIsCurrent, CountedUses, OnePendingPerCaller, IdsAreOwn
  <1>2. CASE Next
    BY <1>2, GetMatchingApprovalStep, CreatePendingRequestStep, RegisterApprovalStep,
       ResolvePendingRequestStep, LogDecisionStep, GetPendingRequestsStep, TickStep,
       RestartStep DEF Next
  <1> QED BY <1>1, <1>2

LEMMA Invariance == Spec => []IInv
  BY InitIInv, NextIInv, PTL DEF Spec

\* Whatever methods are called and however the process restarts, the store holds
\* grants, requests and a log of at most maxAuditEntries, in memory and on file.
THEOREM TypeCorrect == Spec => []TypeOK
  BY Invariance, PTL DEF IInv

\* A restart finds what memory held, but for requests that expired since the last
\* write.
THEOREM NothingIsLost == Spec => []FileIsCurrent
  BY Invariance, PTL DEF IInv

\* No grant covers more calls than it was made for, across restarts.
THEOREM UsesAreCounted == Spec => []CountedUses
  BY Invariance, PTL DEF IInv

\* The gates of a caller that ask for one call share one pending request.
THEOREM PendingIsUnique == Spec => []OnePendingPerCaller
  BY Invariance, PTL DEF IInv

\* What was decided stays decided, though pruning, answers and restarts go over the
\* requests in any order: only a pending request expires, and the file holds every
\* decision.
THEOREM DecisionsStay == Spec => DecidedStays
  <1> DEFINE Stays == \A i \in DOMAIN requests :
                Decided(requests[i]) => i \in DOMAIN requests' /\ Decided(requests'[i])
  <1>1. IInv /\ [Next]_vars => [Stays]_vars
    <2> SUFFICES ASSUME IInv, Next, NEW i \in DOMAIN requests, Decided(requests[i])
                 PROVE i \in DOMAIN requests' /\ Decided(requests'[i])
      OBVIOUS
    <2>1. requests \in Seq(Request) /\ requests[i] \in Request /\ Unique(requests)
      BY OneEach DEF IInv, TypeOK
    <2>2. CASE requests' = PrunedRequests
      BY <2>1, <2>2, PrunedKeeps DEF Decided
    <2>3. CASE UNCHANGED requests
      BY <2>3
    <2>4. CASE \E fp \in Calls, caller \in Callers : CreatePendingRequest(fp, caller)
      BY <2>1, <2>4 DEF CreatePendingRequest, Decided
    <2>5. CASE \E id \in DOMAIN requests, ok \in BOOLEAN : ResolvePendingRequest(id, ok)
      BY <2>1, <2>5 DEF ResolvePendingRequest, Decided, Request
    <2>6. CASE Restart
      <3>1. /\ disk.requests[i] = requests[i]
            /\ disk.requests \in Seq(Request) /\ Len(disk.requests) = Len(requests)
        BY <2>1 DEF Decided, IInv, FileIsCurrent, TypeOK
      <3> QED BY <2>1, <2>6, <3>1 DEF Restart, Decided
    <2>7. \/ requests' = PrunedRequests \/ UNCHANGED requests \/ Restart
          \/ \E fp \in Calls, caller \in Callers : CreatePendingRequest(fp, caller)
          \/ \E id \in DOMAIN requests, ok \in BOOLEAN : ResolvePendingRequest(id, ok)
      BY DEF Next, GetMatchingApproval, RegisterApproval, LogDecision, GetPendingRequests, Tick
    <2> QED BY <2>2, <2>3, <2>4, <2>5, <2>6, <2>7
  <1> QED BY <1>1, Invariance, PTL DEF Spec, DecidedStays
=============================================================================
