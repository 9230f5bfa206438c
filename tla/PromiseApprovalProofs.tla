------------------------ MODULE PromiseApprovalProofs ------------------------
(***************************************************************************)
(* The safety invariants of PromiseApproval and its refinement of          *)
(* ApprovalContract, for any number of turns, sessions and calls and any   *)
(* working directory.                                                      *)
(***************************************************************************)
EXTENDS PromiseApproval, FiniteSetTheorems, TLAPS

\* No session has two pending requests for one call.
UniquePending(rs) ==
    \A i, j \in DOMAIN rs : rs[i].status = "pending" /\ rs[j] = rs[i] => i = j

\* From rs to rs2 no request is lost, none changes its call, and no decided one
\* becomes pending again.
OnlyGrows(rs, rs2) ==
    /\ DOMAIN rs \subseteq DOMAIN rs2
    /\ \A i \in DOMAIN rs :
          /\ rs2[i].fp = rs[i].fp
          /\ rs2[i].status = "pending" => rs[i].status = "pending"

\* resolvePendingRequest decides its request and leaves the others.
LEMMA ResolvedEffect ==
  ASSUME NEW rs \in Seq(Request), UniquePending(rs),
         NEW id \in DOMAIN rs, NEW ok \in BOOLEAN
  PROVE  /\ Resolved(rs, id, ok) \in Seq(Request)
         /\ UniquePending(Resolved(rs, id, ok))
         /\ OnlyGrows(rs, Resolved(rs, id, ok))
         /\ DOMAIN Resolved(rs, id, ok) = DOMAIN rs
         /\ Resolved(rs, id, ok)[id].status # "pending"
<1> DEFINE rs2 == Resolved(rs, id, ok)
<1>1. rs[id] \in Request
  OBVIOUS
<1>2. rs2[id] = [rs[id] EXCEPT !.status = IF ok THEN "approved" ELSE "rejected"]
  BY DEF Resolved
<1>3. rs2[id] \in Request /\ rs2[id].status # "pending" /\ rs2[id].fp = rs[id].fp
  BY <1>1, <1>2 DEF Request, Statuses
<1>4. DOMAIN rs2 = DOMAIN rs /\ \A i \in DOMAIN rs : i # id => rs2[i] = rs[i]
  BY DEF Resolved
<1>5. rs2 \in Seq(Request)
  BY <1>1, <1>2, <1>3 DEF Resolved
<1>6. UniquePending(rs2) /\ OnlyGrows(rs, rs2)
  BY <1>3, <1>4 DEF UniquePending, OnlyGrows
<1> QED BY <1>3, <1>4, <1>5, <1>6

\* Pruning only expires pending requests.
LEMMA PrunedEffect ==
  ASSUME NEW rs \in Seq(Request), UniquePending(rs), NEW late
  PROVE  /\ Pruned(rs, late) \in Seq(Request)
         /\ UniquePending(Pruned(rs, late))
         /\ OnlyGrows(rs, Pruned(rs, late))
         /\ DOMAIN Pruned(rs, late) = DOMAIN rs
<1> DEFINE rs2 == Pruned(rs, late)
<1>1. DOMAIN rs2 = DOMAIN rs
  BY DEF Pruned
<1>2. ASSUME NEW i \in DOMAIN rs
      PROVE  /\ rs2[i] \in Request
             /\ rs2[i].fp = rs[i].fp
             /\ rs2[i].status = "pending" => rs2[i] = rs[i]
  <2>1. rs[i] \in Request
    OBVIOUS
  <2>2. CASE rs[i].status = "pending" /\ i \in late
    <3>1. rs2[i] = [rs[i] EXCEPT !.status = "expired"]
      BY <2>2 DEF Pruned
    <3> QED BY <2>1, <3>1 DEF Request, Statuses
  <2>3. CASE ~(rs[i].status = "pending" /\ i \in late)
    BY <2>1, <2>3 DEF Pruned
  <2> QED BY <2>2, <2>3
<1>3. rs2 \in Seq(Request)
  <2>1. DOMAIN rs = 1..Len(rs) /\ Len(rs) \in Nat
    OBVIOUS
  <2>2. rs2 = [i \in 1..Len(rs) |-> rs2[i]]
    BY <2>1 DEF Pruned
  <2> QED BY <1>2, <2>1, <2>2
<1>4. UniquePending(rs2) /\ OnlyGrows(rs, rs2)
  BY <1>1, <1>2 DEF UniquePending, OnlyGrows
<1> QED BY <1>1, <1>3, <1>4

\* createPendingRequest returns a request on file and keeps the pending ones
\* unique.
LEMMA AskedEffect ==
  ASSUME NEW rs \in Seq(Request), UniquePending(rs),
         NEW fp \in Fingerprints, NEW owner \in Sessions,
         NEW id, NEW rs2, Asked(rs, fp, owner, id, rs2)
  PROVE  /\ rs2 \in Seq(Request)
         /\ UniquePending(rs2)
         /\ OnlyGrows(rs, rs2)
         /\ id \in DOMAIN rs2 /\ rs2[id].fp = fp
<1> DEFINE r == [fp |-> fp, owner |-> owner, status |-> "pending"]
<1>1. CASE Reusable(rs, fp, owner) = {}
  <2>1. r \in Request
    BY DEF Request, Statuses
  <2>2. id = Len(rs) + 1 /\ rs2 = Append(rs, r)
    BY <1>1 DEF Asked
  <2>3. /\ rs2 \in Seq(Request) /\ Len(rs2) = Len(rs) + 1
        /\ DOMAIN rs = 1..Len(rs) /\ DOMAIN rs2 = 1..(Len(rs) + 1)
        /\ Len(rs) \in Nat
        /\ \A i \in 1..Len(rs) : rs2[i] = rs[i]
        /\ rs2[Len(rs) + 1] = r
    BY <2>1, <2>2
  <2>4. \A i \in DOMAIN rs : rs[i] # r
    BY <1>1 DEF Reusable
  <2>5. UniquePending(rs2)
    <3> SUFFICES ASSUME NEW i \in DOMAIN rs2, NEW j \in DOMAIN rs2,
                        rs2[i].status = "pending", rs2[j] = rs2[i]
                 PROVE  i = j
      BY DEF UniquePending
    <3>1. CASE i \in 1..Len(rs) /\ j \in 1..Len(rs)
      BY <2>3, <3>1 DEF UniquePending
    <3>2. CASE i = Len(rs) + 1 \/ j = Len(rs) + 1
      BY <2>3, <2>4, <3>2
    <3> QED BY <2>3, <3>1, <3>2
  <2>6. OnlyGrows(rs, rs2)
    BY <2>3 DEF OnlyGrows
  <2> QED BY <2>2, <2>3, <2>5, <2>6
<1>2. CASE Reusable(rs, fp, owner) # {}
  BY <1>2 DEF Asked, Reusable, OnlyGrows
<1> QED BY <1>1, <1>2

\* A gate that prunes and then files or finds a request keeps all of that.
LEMMA PrunedAskedEffect ==
  ASSUME NEW rs \in Seq(Request), UniquePending(rs), NEW late,
         NEW fp \in Fingerprints, NEW owner \in Sessions,
         NEW id, NEW rs2, Asked(Pruned(rs, late), fp, owner, id, rs2)
  PROVE  /\ rs2 \in Seq(Request)
         /\ UniquePending(rs2)
         /\ OnlyGrows(rs, rs2)
         /\ id \in DOMAIN rs2 /\ rs2[id].fp = fp
<1>1. /\ Pruned(rs, late) \in Seq(Request)
      /\ UniquePending(Pruned(rs, late))
      /\ OnlyGrows(rs, Pruned(rs, late))
  BY PrunedEffect
<1>2. /\ rs2 \in Seq(Request) /\ UniquePending(rs2)
      /\ OnlyGrows(Pruned(rs, late), rs2) /\ id \in DOMAIN rs2
      /\ rs2[id].fp = fp
  BY <1>1, AskedEffect
<1> QED BY <1>1, <1>2 DEF OnlyGrows

\* The fingerprints of calls, with either working directory, index grants.
LEMMA FingerprintTypes ==
  ASSUME NEW c \in Calls
  PROVE  /\ Fingerprint(c, Cwd) \in Fingerprints
         /\ GrantedFingerprint(c) \in Fingerprints
BY DEF Fingerprint, GrantedFingerprint, Fingerprints

\* Different calls have different fingerprints.
LEMMA FingerprintsDiffer ==
  ASSUME NEW c \in Calls, NEW d \in Calls, NEW p, NEW q,
         Fingerprint(c, p) = Fingerprint(d, q)
  PROVE  c = d /\ p = q
<1>1. Fingerprint(c, p).call = Fingerprint(d, q).call
      /\ Fingerprint(c, p).cwd = Fingerprint(d, q).cwd
  OBVIOUS
<1> QED BY <1>1 DEF Fingerprint
-----------------------------------------------------------------------------
\* A turn that is busy executes a call, and its request is on file for that call.
Requested == \A t \in Turns : pc[t] # "idle" => /\ call[t] \in Calls
                                                /\ req[t] \in DOMAIN requests
                                                /\ requests[req[t]].fp.call = call[t]

\* Approvals are registered without a working directory: a grant that names
\* another one is never there to be found.
FoundWithoutCwd == Cwd # NoCwd => \A c \in Calls : grants[Fingerprint(c, Cwd)] = 0

\* Only finitely many turns have been told of an approval.
FewApproved == \A c \in Calls : IsFiniteSet(Approved(c))

\* The inductive invariant.  Requested is what VerdictIsOwn and AnswersPay lack: a
\* turn that waits has a request already, for the call it waits with, so that the
\* answer that wakes it was given for this call.
IInv == /\ TypeOK /\ TimerIffWaiting /\ WaiterStillWaits
        /\ UniquePending(requests) /\ FewApproved /\ AnswersPay
        /\ FoundWithoutCwd /\ Requested /\ VerdictIsOwn

\* OnePendingPerCall is uniqueness of the pending requests of the store.
LEMMA UniqueIsOnePending == UniquePending(requests) <=> OnePendingPerCall
BY DEF UniquePending, OnePendingPerCall

\* No turn is told anything initially.
LEMMA NoneApproved ==
  ASSUME \A t \in Turns : pc[t] = "idle", NEW c
  PROVE  Approved(c) = {} /\ IsFiniteSet(Approved(c)) /\ Cardinality(Approved(c)) = 0
<1>1. Approved(c) = {}
  BY DEF Approved
<1> QED BY <1>1, FS_EmptySet

\* The inductive invariant holds initially.
LEMMA InitIInv == Init => IInv
<1> SUFFICES ASSUME Init PROVE IInv
  OBVIOUS
<1>1. TypeOK
  BY DEF Init, TypeOK, Places
<1>2. TimerIffWaiting /\ WaiterStillWaits
  BY DEF Init, TimerIffWaiting, WaiterStillWaits, Waiting
<1>3. UniquePending(requests)
  BY DEF Init, UniquePending
<1>4. \A t \in Turns : pc[t] = "idle"
  BY DEF Init
<1>5. FewApproved
  BY <1>4, NoneApproved DEF FewApproved
<1>6. \A c \in Calls : /\ runs[c] = 0 /\ approvals[c] = 0
                       /\ grants[Fingerprint(c, Cwd)] = 0
  BY FingerprintTypes DEF Init
<1>7. AnswersPay /\ FoundWithoutCwd
  <2>1. \A c \in Calls : Cardinality(Approved(c)) = 0
    BY <1>4, NoneApproved
  <2> QED BY <1>6, <2>1 DEF AnswersPay, FoundWithoutCwd
<1>8. Requested /\ VerdictIsOwn
  BY DEF Init, Requested, VerdictIsOwn
<1> QED BY <1>1, <1>2, <1>3, <1>5, <1>7, <1>8 DEF IInv

\* What an execution of call c by turn t does when the store holds the grants
\* gs and the requests rs: the policy refuses it, it runs on a grant, or it has a
\* request to send.
PolicyRefuses(t, c, gs, rs) ==
    /\ grants' = gs /\ requests' = rs
    /\ pc' = [pc EXCEPT ![t] = "idle"]
    /\ req' = req /\ runs' = runs
RunsOnGrant(t, c, gs) ==
    /\ gs[Fingerprint(c, Cwd)] > 0
    /\ grants' = Consumed(gs, Fingerprint(c, Cwd))
    /\ pc' = [pc EXCEPT ![t] = "idle"]
    /\ req' = req /\ runs' = [runs EXCEPT ![c] = @ + 1]
AsksFor(t, c, gs) ==
    /\ gs[Fingerprint(c, Cwd)] = 0
    /\ grants' = gs /\ runs' = runs
    /\ pc' = [pc EXCEPT ![t] = "sending"]
    /\ \E id \in DOMAIN requests' :
          /\ req' = [req EXCEPT ![t] = id]
          /\ requests'[id].fp.call = c

\* An execution ends in one of the three ways and keeps the store in order.
LEMMA ExecuteEffect ==
  ASSUME TypeOK, NEW t \in Turns, NEW c \in Calls,
         NEW gs \in [Fingerprints -> Nat], NEW rs \in Seq(Request),
         UniquePending(rs), Execute(t, c, gs, rs)
  PROVE  /\ requests' \in Seq(Request) /\ UniquePending(requests')
         /\ OnlyGrows(rs, requests')
         /\ grants' \in [Fingerprints -> Nat]
         /\ runs' \in [Calls -> Nat]
         /\ PolicyRefuses(t, c, gs, rs) \/ RunsOnGrant(t, c, gs) \/ AsksFor(t, c, gs)
<1> DEFINE fp == Fingerprint(c, Cwd)
<1>1. fp \in Fingerprints /\ Owner[t] \in Sessions /\ fp.call = c
  BY FingerprintTypes, OwnerAssumption DEF Fingerprint
<1>2. CASE /\ grants' = gs /\ requests' = rs
           /\ pc' = [pc EXCEPT ![t] = "idle"]
           /\ UNCHANGED <<req, runs>>
  BY <1>2 DEF TypeOK, OnlyGrows, PolicyRefuses
<1>3. CASE /\ gs[fp] > 0
           /\ grants' = Consumed(gs, fp)
           /\ requests' = Pruned(rs, overdue)
           /\ runs' = [runs EXCEPT ![c] = @ + 1]
           /\ pc' = [pc EXCEPT ![t] = "idle"]
           /\ UNCHANGED req
  <2>1. /\ requests' \in Seq(Request) /\ UniquePending(requests')
        /\ OnlyGrows(rs, requests')
    BY <1>3, PrunedEffect
  <2>2. grants' \in [Fingerprints -> Nat] /\ runs' \in [Calls -> Nat]
    BY <1>1, <1>3 DEF Consumed, TypeOK
  <2> QED BY <1>3, <2>1, <2>2 DEF RunsOnGrant
<1>4. CASE /\ gs[fp] = 0
           /\ \E id \in 1..(Len(rs) + 1) :
                 /\ Asked(Pruned(rs, overdue), fp, Owner[t], id, requests')
                 /\ req' = [req EXCEPT ![t] = id]
           /\ grants' = gs
           /\ pc' = [pc EXCEPT ![t] = "sending"]
           /\ UNCHANGED runs
  <2>1. PICK id \in 1..(Len(rs) + 1) :
              /\ Asked(Pruned(rs, overdue), fp, Owner[t], id, requests')
              /\ req' = [req EXCEPT ![t] = id]
    BY <1>4
  <2>2. /\ requests' \in Seq(Request) /\ UniquePending(requests')
        /\ OnlyGrows(rs, requests') /\ id \in DOMAIN requests'
        /\ requests'[id].fp = fp
    BY <1>1, <2>1, PrunedAskedEffect
  <2> QED BY <1>1, <1>4, <2>1, <2>2 DEF TypeOK, AsksFor
<1> QED BY <1>2, <1>3, <1>4 DEF Execute

\* A grant that is consumed becomes a run of the same call; nothing else changes
\* what runs and usable grants of a call add up to.
LEMMA ExecutePays ==
  ASSUME TypeOK, NEW t \in Turns, NEW c \in Calls,
         NEW gs \in [Fingerprints -> Nat], NEW rs,
         PolicyRefuses(t, c, gs, rs) \/ RunsOnGrant(t, c, gs) \/ AsksFor(t, c, gs),
         NEW d \in Calls
  PROVE  runs'[d] + grants'[Fingerprint(d, Cwd)] = runs[d] + gs[Fingerprint(d, Cwd)]
<1>1. Fingerprint(d, Cwd) \in Fingerprints /\ Fingerprint(c, Cwd) \in Fingerprints
  BY FingerprintTypes
<1>2. CASE PolicyRefuses(t, c, gs, rs) \/ AsksFor(t, c, gs)
  BY <1>2 DEF PolicyRefuses, AsksFor
<1>3. CASE RunsOnGrant(t, c, gs)
  <2>1. CASE d = c
    BY <1>1, <1>3, <2>1 DEF RunsOnGrant, Consumed, TypeOK
  <2>2. CASE d # c
    <3>1. Fingerprint(d, Cwd) # Fingerprint(c, Cwd)
      BY <2>2, FingerprintsDiffer
    <3> QED BY <1>1, <1>3, <2>2, <3>1 DEF RunsOnGrant, Consumed, TypeOK
  <2> QED BY <2>1, <2>2
<1> QED BY <1>2, <1>3

\* Approved turns are counted alike by steps that change neither who is approved
\* nor for which call.
LEMMA PaidKept ==
  ASSUME FewApproved, AnswersPay, FoundWithoutCwd,
         UNCHANGED <<runs, grants, approvals>>,
         \A u \in Turns : pc'[u] = "approved" \/ pc[u] = "approved"
                             => pc'[u] = pc[u] /\ call'[u] = call[u]
  PROVE  FewApproved' /\ AnswersPay' /\ FoundWithoutCwd'
<1>1. \A c \in Calls : Approved(c)' = Approved(c)
  BY DEF Approved
<1> QED BY <1>1 DEF FewApproved, AnswersPay, FoundWithoutCwd

\* A request of a turn whose requests only grow stays on file, for its call, and
\* stays decided once it is.
LEMMA OthersKept ==
  ASSUME Requested, VerdictIsOwn, OnlyGrows(requests, requests'),
         approvedIds \subseteq approvedIds', NEW t \in Turns,
         pc'[t] = pc[t], req'[t] = req[t], pc[t] # "idle" => call'[t] = call[t]
  PROVE  /\ pc'[t] # "idle" => /\ call'[t] \in Calls /\ req'[t] \in DOMAIN requests'
                               /\ requests'[req'[t]].fp.call = call'[t]
         /\ pc'[t] = "approved" => req'[t] \in approvedIds'
         /\ pc'[t] \in {"approved", "denied"} =>
               /\ req'[t] \in DOMAIN requests'
               /\ requests'[req'[t]].status # "pending"
BY DEF Requested, VerdictIsOwn, OnlyGrows

\* A turn that comes from "idle" or "approved" keeps timers and waiters right,
\* as it neither waited before nor waits after its execution.
LEMMA WaitersKept ==
  ASSUME TypeOK, TimerIffWaiting, WaiterStillWaits, NEW t \in Turns,
         pc[t] # "waiting", NEW place \in {"idle", "sending"},
         pc' = [pc EXCEPT ![t] = place],
         \A u \in Turns \ {t} : req'[u] = req[u],
         UNCHANGED <<waiters, timers>>
  PROVE  TimerIffWaiting' /\ WaiterStillWaits'
<1>1. \A u \in Turns : pc'[u] = "waiting" <=> pc[u] = "waiting"
  BY DEF TypeOK
<1>2. t \notin waiters /\ waiters \subseteq Turns
  BY DEF WaiterStillWaits, Waiting, TypeOK
<1> QED BY <1>1, <1>2 DEF TimerIffWaiting, WaiterStillWaits, Waiting

\* What an execution leaves of the invariant, for Call and Retry alike: the turn is
\* idle or has a request for its call to send.
LEMMA ExecuteKeeps ==
  ASSUME IInv, NEW t \in Turns, NEW c \in Calls,
         NEW gs \in [Fingerprints -> Nat], NEW rs \in Seq(Request),
         UniquePending(rs), OnlyGrows(requests, rs), Execute(t, c, gs, rs),
         pc[t] \in {"idle", "approved"},
         \/ call' = [call EXCEPT ![t] = c]
         \/ call' = call /\ c = call[t],
         UNCHANGED <<waiters, timers, overdue, allowed, approvedIds, approvals, answered>>,
         called' \in Nat
  PROVE  /\ TypeOK' /\ TimerIffWaiting' /\ WaiterStillWaits'
         /\ UniquePending(requests)' /\ Requested' /\ VerdictIsOwn'
<1>1. /\ requests' \in Seq(Request) /\ UniquePending(requests')
      /\ OnlyGrows(rs, requests')
      /\ grants' \in [Fingerprints -> Nat] /\ runs' \in [Calls -> Nat]
      /\ PolicyRefuses(t, c, gs, rs) \/ RunsOnGrant(t, c, gs) \/ AsksFor(t, c, gs)
  BY ExecuteEffect DEF IInv
<1>2. OnlyGrows(requests, requests')
  BY <1>1 DEF OnlyGrows
<1>3. /\ call' \in [Turns -> Calls \cup {NoCall}] /\ call'[t] = c
      /\ \A u \in Turns : u # t => call'[u] = call[u]
  BY DEF IInv, TypeOK
<1>4. CASE pc' = [pc EXCEPT ![t] = "idle"] /\ req' = req
  <2>1. TypeOK'
    BY <1>1, <1>3, <1>4 DEF IInv, TypeOK, Places
  <2>2. TimerIffWaiting' /\ WaiterStillWaits'
    BY <1>4, WaitersKept DEF IInv
  <2>3. pc'[t] = "idle" /\ \A u \in Turns : u # t => pc'[u] = pc[u] /\ req'[u] = req[u]
    BY <1>4 DEF IInv, TypeOK
  <2>4. Requested' /\ VerdictIsOwn'
    BY <1>2, <1>3, <2>3, OthersKept DEF IInv, Requested, VerdictIsOwn
  <2> QED BY <1>1, <2>1, <2>2, <2>4
<1>5. CASE AsksFor(t, c, gs)
  <2>1. PICK id \in DOMAIN requests' : /\ req' = [req EXCEPT ![t] = id]
                                       /\ requests'[id].fp.call = c
    BY <1>5 DEF AsksFor
  <2>2. id \in Nat /\ pc' = [pc EXCEPT ![t] = "sending"]
    BY <1>1, <1>5, <2>1 DEF AsksFor
  <2>3. TypeOK'
    BY <1>1, <1>3, <2>1, <2>2 DEF IInv, TypeOK, Places
  <2>4. TimerIffWaiting' /\ WaiterStillWaits'
    BY <2>1, <2>2, WaitersKept DEF IInv, TypeOK
  <2>5. /\ pc'[t] = "sending" /\ req'[t] = id
        /\ \A u \in Turns : u # t => pc'[u] = pc[u] /\ req'[u] = req[u]
    BY <2>1, <2>2 DEF IInv, TypeOK
  <2>6. Requested' /\ VerdictIsOwn'
    BY <1>2, <1>3, <2>1, <2>5, OthersKept DEF IInv, Requested, VerdictIsOwn
  <2> QED BY <1>1, <2>3, <2>4, <2>6
<1> QED BY <1>1, <1>4, <1>5 DEF PolicyRefuses, RunsOnGrant

\* The language model's call keeps the invariant: refused, run on a grant that was
\* left, or put to the user.
LEMMA CallStep ==
  ASSUME IInv, NEW t \in Turns, NEW c \in Calls, Call(t, c)
  PROVE  /\ IInv'
         /\ \/ PolicyRefuses(t, c, grants, requests)
            \/ RunsOnGrant(t, c, grants) \/ AsksFor(t, c, grants)
<1>1. /\ TypeOK /\ requests \in Seq(Request) /\ grants \in [Fingerprints -> Nat]
      /\ UniquePending(requests) /\ OnlyGrows(requests, requests)
      /\ Execute(t, c, grants, requests) /\ pc[t] = "idle"
      /\ call' = [call EXCEPT ![t] = c] /\ called' \in Nat
      /\ UNCHANGED <<waiters, timers, overdue, allowed, approvedIds, approvals, answered>>
  BY DEF IInv, TypeOK, Call, OnlyGrows
<1>2. /\ TypeOK' /\ TimerIffWaiting' /\ WaiterStillWaits'
      /\ UniquePending(requests)' /\ Requested' /\ VerdictIsOwn'
  BY <1>1, ExecuteKeeps
<1>3. \/ PolicyRefuses(t, c, grants, requests)
      \/ RunsOnGrant(t, c, grants) \/ AsksFor(t, c, grants)
  BY <1>1, ExecuteEffect
<1>4. ASSUME NEW d \in Calls PROVE Approved(d)' = Approved(d)
  <2>1. /\ pc'[t] # "approved"
        /\ \A u \in Turns : u # t => pc'[u] = pc[u] /\ call'[u] = call[u]
    BY <1>1, <1>3 DEF PolicyRefuses, RunsOnGrant, AsksFor, TypeOK
  <2> QED BY <1>1, <2>1 DEF Approved
<1>5. \A d \in Calls : runs'[d] + grants'[Fingerprint(d, Cwd)]
                          = runs[d] + grants[Fingerprint(d, Cwd)]
  BY <1>1, <1>3, ExecutePays
<1>6. FewApproved' /\ AnswersPay'
  BY <1>1, <1>4, <1>5 DEF IInv, FewApproved, AnswersPay
<1>7. FoundWithoutCwd'
  <2> SUFFICES ASSUME Cwd # NoCwd, NEW d \in Calls
               PROVE  grants'[Fingerprint(d, Cwd)] = 0
    BY DEF FoundWithoutCwd
  <2>1. grants[Fingerprint(d, Cwd)] = 0 /\ grants[Fingerprint(c, Cwd)] = 0
    BY DEF IInv, FoundWithoutCwd
  <2> QED BY <1>3, <2>1 DEF PolicyRefuses, RunsOnGrant, AsksFor
<1> QED BY <1>2, <1>3, <1>6, <1>7 DEF IInv

\* A turn that begins to wait gets the one entry of its request.
LEMMA SentStep ==
  ASSUME IInv, NEW t \in Turns, Sent(t)
  PROVE  IInv'
<1>1. TypeOK'
  BY DEF IInv, TypeOK, Sent, OtherWaiters, Armed, Places
<1>2. TimerIffWaiting'
  BY DEF IInv, TypeOK, TimerIffWaiting, Waiting, Sent, Armed
<1>3. WaiterStillWaits'
  BY DEF IInv, TypeOK, WaiterStillWaits, Waiting, Sent, OtherWaiters
<1>4. UniquePending(requests)'
  BY DEF IInv, Sent, UniquePending
<1>5. FewApproved' /\ AnswersPay' /\ FoundWithoutCwd'
  BY PaidKept DEF IInv, TypeOK, Sent
<1>6. Requested' /\ VerdictIsOwn'
  BY DEF IInv, TypeOK, Requested, VerdictIsOwn, Sent
<1> QED BY <1>1, <1>2, <1>3, <1>4, <1>5, <1>6 DEF IInv

\* A send that throws ends the call before the turn waits.
LEMMA SendFailsStep ==
  ASSUME IInv, NEW t \in Turns, SendFails(t)
  PROVE  IInv'
<1>1. TypeOK'
  BY DEF IInv, TypeOK, SendFails, Places
<1>2. TimerIffWaiting' /\ WaiterStillWaits'
  BY WaitersKept DEF IInv, SendFails
<1>3. UniquePending(requests)'
  BY DEF IInv, SendFails, UniquePending
<1>4. FewApproved' /\ AnswersPay' /\ FoundWithoutCwd'
  BY PaidKept DEF IInv, TypeOK, SendFails
<1>5. Requested' /\ VerdictIsOwn'
  BY DEF IInv, TypeOK, Requested, VerdictIsOwn, SendFails
<1> QED BY <1>1, <1>2, <1>3, <1>4, <1>5 DEF IInv

\* A step that only decides a request keeps the pending requests unique.
LEMMA DecisionEffect ==
  ASSUME IInv, NEW id \in DOMAIN requests, NEW ok \in BOOLEAN,
         requests' = Resolved(requests, id, ok)
  PROVE  /\ requests' \in Seq(Request)
         /\ UniquePending(requests)'
         /\ OnlyGrows(requests, requests')
         /\ DOMAIN requests' = DOMAIN requests
         /\ requests'[id].status # "pending"
BY ResolvedEffect DEF IInv, TypeOK

\* An approving answer is counted for the call of its request, and the turn it
\* wakes waits with that call.
LEMMA AnswerPays ==
  ASSUME IInv, NEW id \in DOMAIN requests, NEW ok \in BOOLEAN, Answer(id, ok)
  PROVE  approvals' \in [Calls -> Nat] /\ FewApproved' /\ AnswersPay' /\ FoundWithoutCwd'
<1>1. /\ \A u, v \in Woken(id) : u = v
      /\ \A u \in Woken(id) : /\ u \in Turns /\ pc[u] = "waiting" /\ req[u] = id
                              /\ requests[id].fp.call = call[u]
  BY DEF IInv, TypeOK, WaiterStillWaits, Waiting, Woken, Requested
<1>2. /\ \A u \in Turns :
            pc'[u] = IF u \notin Woken(id) THEN pc[u]
                     ELSE IF ok THEN "approved" ELSE "denied"
      /\ UNCHANGED <<call, grants, runs>>
  BY DEF Answer
<1>3. requests[id].fp.call \in Calls
  <2>1. requests[id] \in Request
    BY DEF IInv, TypeOK
  <2>2. requests[id].fp \in Fingerprints
    BY <2>1 DEF Request
  <2> QED BY <2>2 DEF Fingerprints
<1>4. CASE ~ok
  <2>1. UNCHANGED approvals
    BY <1>4 DEF Answer
  <2>2. \A u \in Turns : pc'[u] = "approved" \/ pc[u] = "approved"
                            => pc'[u] = pc[u] /\ call'[u] = call[u]
    BY <1>1, <1>2, <1>4
  <2> QED BY <1>2, <2>1, <2>2, PaidKept DEF IInv, TypeOK
<1>5. CASE ok
  <2>1. approvals' = [approvals EXCEPT ![requests[id].fp.call] = @ + 1]
    BY <1>5 DEF Answer, NoteApproval
  <2>2. approvals' \in [Calls -> Nat]
    BY <1>3, <2>1 DEF IInv, TypeOK
  <2>3. ASSUME NEW d \in Calls
        PROVE  /\ IsFiniteSet(Approved(d)')
               /\ runs[d] + grants[Fingerprint(d, Cwd)] + Cardinality(Approved(d)')
                     <= approvals'[d]
    <3>1. /\ IsFiniteSet(Approved(d)) /\ Cardinality(Approved(d)) \in Nat
          /\ runs[d] + grants[Fingerprint(d, Cwd)] + Cardinality(Approved(d))
                <= approvals[d]
          /\ runs[d] \in Nat /\ grants[Fingerprint(d, Cwd)] \in Nat /\ approvals[d] \in Nat
      BY FS_CardinalityType, FingerprintTypes DEF IInv, TypeOK, FewApproved, AnswersPay
    <3>2. CASE \E u \in Woken(id) : call[u] = d
      <4>1. PICK u \in Woken(id) : call[u] = d
        BY <3>2
      <4>2. Approved(d)' = Approved(d) \cup {u}
        BY <1>1, <1>2, <1>5, <4>1 DEF Approved
      <4>3. u \notin Approved(d)
        BY <1>1 DEF Approved
      <4>4. /\ IsFiniteSet(Approved(d)')
            /\ Cardinality(Approved(d)') = Cardinality(Approved(d)) + 1
        BY <3>1, <4>2, <4>3, FS_AddElement
      <4>5. approvals'[d] = approvals[d] + 1
        BY <1>1, <1>3, <2>1, <4>1 DEF IInv, TypeOK
      <4> QED BY <3>1, <4>4, <4>5
    <3>3. CASE ~\E u \in Woken(id) : call[u] = d
      <4>1. Approved(d)' = Approved(d)
        BY <1>1, <1>2, <3>3 DEF Approved
      <4>2. approvals'[d] >= approvals[d]
        BY <1>3, <2>1 DEF IInv, TypeOK
      <4> QED BY <2>2, <3>1, <4>1, <4>2
    <3> QED BY <3>2, <3>3
  <2>4. FewApproved' /\ AnswersPay'
    BY <1>2, <2>3 DEF FewApproved, AnswersPay
  <2> QED BY <1>2, <2>2, <2>4 DEF IInv, FoundWithoutCwd
<1> QED BY <1>4, <1>5

\* An answer wakes the turn whose waiter the request has, after it decided the
\* request.
LEMMA AnswerStep ==
  ASSUME IInv, NEW id \in DOMAIN requests, NEW ok \in BOOLEAN, Answer(id, ok)
  PROVE  IInv'
<1>1. /\ requests' \in Seq(Request) /\ UniquePending(requests)'
      /\ OnlyGrows(requests, requests') /\ DOMAIN requests' = DOMAIN requests
      /\ requests'[id].status # "pending"
  BY DecisionEffect DEF Answer
<1>2. /\ Woken(id) \subseteq Waiting /\ \A u \in Woken(id) : req[u] = id
      /\ \A u \in Turns :
            pc'[u] = IF u \notin Woken(id) THEN pc[u]
                     ELSE IF ok THEN "approved" ELSE "denied"
  BY DEF IInv, WaiterStillWaits, Woken, Answer
<1>3. approvals' \in [Calls -> Nat] /\ FewApproved' /\ AnswersPay' /\ FoundWithoutCwd'
  BY AnswerPays
<1>4. TypeOK'
  <2>1. id \in Nat
    BY DEF IInv, TypeOK
  <2>2. pc' \in [Turns -> Places]
    BY DEF IInv, TypeOK, Answer, Places
  <2>3. waiters' \subseteq Turns /\ timers' \subseteq Turns
    BY DEF IInv, TypeOK, Answer, Disarmed
  <2>4. overdue' \subseteq Nat /\ approvedIds' \subseteq Nat
    <3>1. overdue' = overdue /\ approvedIds' \subseteq approvedIds \cup {id}
      BY DEF Answer, NoteApproval
    <3> QED BY <2>1, <3>1 DEF IInv, TypeOK
  <2>5. answered' = answered + 1 /\ UNCHANGED <<call, req, grants, allowed, runs, called>>
    BY DEF Answer
  <2>6. TypeOK
    BY DEF IInv
  <2> QED BY <1>1, <1>3, <2>2, <2>3, <2>4, <2>5, <2>6 DEF TypeOK
<1>5. TimerIffWaiting'
  BY <1>2 DEF IInv, TimerIffWaiting, Waiting, Answer, Disarmed
<1>6. WaiterStillWaits'
  BY <1>2 DEF IInv, WaiterStillWaits, Waiting, Answer
<1>7. approvedIds \subseteq approvedIds' /\ (ok => id \in approvedIds')
      /\ UNCHANGED <<call, req>>
  BY DEF Answer, NoteApproval
<1>8. Requested'
  BY <1>1, <1>2, <1>7 DEF IInv, Requested, Waiting, OnlyGrows
<1>9. VerdictIsOwn'
  BY <1>1, <1>2, <1>7 DEF IInv, VerdictIsOwn, OnlyGrows
<1> QED BY <1>1, <1>3, <1>4, <1>5, <1>6, <1>8, <1>9 DEF IInv

\* A timeout releases its turn, whoever has the entry of the request by then.
LEMMA TimeoutStep ==
  ASSUME IInv, NEW t \in Turns, Timeout(t)
  PROVE  IInv'
<1>1. pc[t] = "waiting" /\ req[t] \in DOMAIN requests
  BY DEF IInv, TimerIffWaiting, Waiting, Requested, Timeout
<1>2. /\ requests' \in Seq(Request) /\ UniquePending(requests)'
      /\ OnlyGrows(requests, requests') /\ DOMAIN requests' = DOMAIN requests
      /\ requests'[req[t]].status # "pending"
  BY <1>1, DecisionEffect DEF Timeout
<1>3. /\ pc'[t] = "denied" /\ \A u \in Turns : u # t => pc'[u] = pc[u]
      /\ UNCHANGED <<call, req, approvedIds, approvals, grants, runs>>
  BY DEF IInv, TypeOK, Timeout
<1>4. TypeOK'
  BY <1>2 DEF IInv, TypeOK, Timeout, OtherWaiters, Places
<1>5. TimerIffWaiting'
  BY <1>3 DEF IInv, TimerIffWaiting, Waiting, Timeout
<1>6. WaiterStillWaits'
  BY <1>3 DEF IInv, WaiterStillWaits, Waiting, Timeout, OtherWaiters
<1>7. FewApproved' /\ AnswersPay' /\ FoundWithoutCwd'
  BY <1>1, <1>3, PaidKept DEF IInv
<1>8. Requested' /\ VerdictIsOwn'
  BY <1>1, <1>2, <1>3, OthersKept DEF IInv, Requested, VerdictIsOwn, OnlyGrows
<1> QED BY <1>2, <1>4, <1>5, <1>6, <1>7, <1>8 DEF IInv

\* A turn that was approved turns its approval into a grant, which stays in the
\* store, into a run, or into another question.
LEMMA RetryStep ==
  ASSUME IInv, NEW t \in Turns, Retry(t)
  PROVE  /\ IInv'
         /\ LET gs == Registered(grants, GrantedFingerprint(call[t]))
                rs == Resolved(requests, req[t], TRUE)
            IN \/ PolicyRefuses(t, call[t], gs, rs)
               \/ RunsOnGrant(t, call[t], gs) \/ AsksFor(t, call[t], gs)
<1> DEFINE c == call[t]
           gs == Registered(grants, GrantedFingerprint(c))
           rs == Resolved(requests, req[t], TRUE)
<1>1. pc[t] = "approved" /\ c \in Calls /\ req[t] \in DOMAIN requests
  BY DEF IInv, Requested, Retry
<1>2. rs \in Seq(Request) /\ UniquePending(rs) /\ OnlyGrows(requests, rs)
  BY <1>1, ResolvedEffect DEF IInv, TypeOK
<1>3. /\ GrantedFingerprint(c) \in Fingerprints
      /\ grants \in [Fingerprints -> Nat]
  BY <1>1, FingerprintTypes DEF IInv, TypeOK
<1>4. gs \in [Fingerprints -> Nat]
  BY <1>3 DEF Registered
<1>5. /\ Execute(t, c, gs, rs) /\ TypeOK /\ call' = call /\ called' \in Nat
      /\ UNCHANGED <<waiters, timers, overdue, allowed, approvedIds, approvals, answered>>
  BY DEF Retry, IInv, TypeOK
<1>6. \A d \in Calls :
         /\ d # c => gs[Fingerprint(d, Cwd)] = grants[Fingerprint(d, Cwd)]
         /\ gs[Fingerprint(d, Cwd)] \in Nat /\ grants[Fingerprint(d, Cwd)] \in Nat
         /\ gs[Fingerprint(d, Cwd)] <= grants[Fingerprint(d, Cwd)] + 1
         /\ Cwd # NoCwd => gs[Fingerprint(d, Cwd)] = grants[Fingerprint(d, Cwd)]
  <2> TAKE d \in Calls
  <2>1. Fingerprint(d, Cwd) \in Fingerprints
    BY FingerprintTypes
  <2>2. d # c \/ Cwd # NoCwd => Fingerprint(d, Cwd) # GrantedFingerprint(c)
    BY <1>1, FingerprintsDiffer DEF GrantedFingerprint
  <2> QED BY <1>3, <2>1, <2>2 DEF Registered
<1> HIDE DEF c, gs, rs
<1>7. /\ TypeOK' /\ TimerIffWaiting' /\ WaiterStillWaits'
      /\ UniquePending(requests)' /\ Requested' /\ VerdictIsOwn'
  BY <1>1, <1>2, <1>4, <1>5, ExecuteKeeps DEF c
<1>8. PolicyRefuses(t, c, gs, rs) \/ RunsOnGrant(t, c, gs) \/ AsksFor(t, c, gs)
  BY <1>1, <1>2, <1>4, <1>5, ExecuteEffect
<1>9. \A d \in Calls : runs'[d] + grants'[Fingerprint(d, Cwd)]
                          = runs[d] + gs[Fingerprint(d, Cwd)]
  BY <1>1, <1>4, <1>5, <1>8, ExecutePays
<1>10. /\ pc'[t] # "approved"
       /\ \A u \in Turns : u # t => pc'[u] = pc[u] /\ call'[u] = call[u]
  BY <1>5, <1>8 DEF PolicyRefuses, RunsOnGrant, AsksFor, TypeOK
<1>11. ASSUME NEW d \in Calls
       PROVE  /\ IsFiniteSet(Approved(d)')
              /\ runs'[d] + grants'[Fingerprint(d, Cwd)] + Cardinality(Approved(d)')
                    <= approvals'[d]
  <2>1. /\ IsFiniteSet(Approved(d)) /\ Cardinality(Approved(d)) \in Nat
        /\ runs[d] + grants[Fingerprint(d, Cwd)] + Cardinality(Approved(d))
              <= approvals[d]
        /\ runs[d] \in Nat /\ approvals'[d] = approvals[d] /\ approvals[d] \in Nat
    BY <1>5, FS_CardinalityType DEF IInv, TypeOK, FewApproved, AnswersPay
  <2>2. CASE d = c
    <3>1. t \in Approved(d) /\ Approved(d)' = Approved(d) \ {t}
      BY <1>1, <1>5, <1>10, <2>2 DEF Approved, c
    <3>2. /\ IsFiniteSet(Approved(d)')
          /\ Cardinality(Approved(d)') = Cardinality(Approved(d)) - 1
      BY <2>1, <3>1, FS_RemoveElement
    <3> QED BY <1>6, <1>9, <2>1, <3>2
  <2>3. CASE d # c
    <3>1. Approved(d)' = Approved(d)
      BY <1>5, <1>10, <2>3 DEF Approved, c
    <3> QED BY <1>6, <1>9, <2>1, <2>3, <3>1
  <2> QED BY <2>2, <2>3
<1>12. FewApproved' /\ AnswersPay'
  BY <1>11 DEF FewApproved, AnswersPay
<1>13. FoundWithoutCwd'
  <2> SUFFICES ASSUME Cwd # NoCwd, NEW d \in Calls
               PROVE  grants'[Fingerprint(d, Cwd)] = 0
    BY DEF FoundWithoutCwd
  <2>1. gs[Fingerprint(d, Cwd)] = 0 /\ gs[Fingerprint(c, Cwd)] = 0
    BY <1>1, <1>6 DEF IInv, FoundWithoutCwd
  <2> QED BY <1>8, <2>1 DEF PolicyRefuses, RunsOnGrant, AsksFor
<1>14. IInv'
  BY <1>7, <1>12, <1>13 DEF IInv
<1> QED BY <1>8, <1>14 DEF c, gs, rs

\* A turn that was denied ends its call; its request is decided by then.
LEMMA GiveUpStep ==
  ASSUME IInv, NEW t \in Turns, GiveUp(t)
  PROVE  IInv'
<1>1. pc[t] = "denied" /\ req[t] \in DOMAIN requests
  BY DEF IInv, Requested, GiveUp
<1>2. /\ requests' \in Seq(Request) /\ UniquePending(requests)'
      /\ OnlyGrows(requests, requests')
  BY <1>1, DecisionEffect DEF GiveUp
<1>3. /\ pc' = [pc EXCEPT ![t] = "idle"]
      /\ UNCHANGED <<call, req, approvedIds, approvals, grants, runs, waiters, timers>>
  BY DEF GiveUp
<1>4. TypeOK'
  BY <1>2 DEF IInv, TypeOK, GiveUp, Places
<1>5. TimerIffWaiting' /\ WaiterStillWaits'
  BY <1>1, <1>3, WaitersKept DEF IInv
<1>6. FewApproved' /\ AnswersPay' /\ FoundWithoutCwd'
  BY <1>1, <1>3, PaidKept DEF IInv, TypeOK
<1>7. Requested' /\ VerdictIsOwn'
  BY <1>2, <1>3, OthersKept DEF IInv, TypeOK, Requested, VerdictIsOwn
<1> QED BY <1>2, <1>4, <1>5, <1>6, <1>7 DEF IInv

\* The age of a request and another policy change nothing until a call is executed.
LEMMA QuietStep ==
  ASSUME IInv, (\E id \in DOMAIN requests : GrowOld(id)) \/ ReloadPolicy \/ UNCHANGED vars
  PROVE  IInv'
<1>1. /\ UNCHANGED <<pc, call, req, waiters, timers, requests, grants, runs,
                     approvedIds, approvals, called, answered>>
      /\ overdue' \subseteq Nat /\ allowed' \subseteq Sessions \X Calls
  <2>1. CASE \E id \in DOMAIN requests : GrowOld(id)
    <3>1. PICK id \in DOMAIN requests : GrowOld(id)
      BY <2>1
    <3>2. id \in Nat
      BY DEF IInv, TypeOK
    <3> QED BY <3>1, <3>2 DEF GrowOld, IInv, TypeOK
  <2>2. CASE ReloadPolicy \/ UNCHANGED vars
    BY <2>2 DEF ReloadPolicy, vars, IInv, TypeOK
  <2> QED BY <2>1, <2>2
<1>2. TypeOK'
  BY <1>1 DEF IInv, TypeOK
<1>3. FewApproved' /\ AnswersPay' /\ FoundWithoutCwd'
  BY <1>1, PaidKept DEF IInv
<1> QED BY <1>1, <1>2, <1>3 DEF IInv, TimerIffWaiting, Waiting, WaiterStillWaits,
                              UniquePending, Requested, VerdictIsOwn

\* After a restart no turn waits and no timer is armed; the grants and what was
\* answered for them are still there.
LEMMA RestartStep ==
  ASSUME IInv, Restart
  PROVE  IInv'
<1>1. TypeOK'
  BY DEF IInv, TypeOK, Restart, Places
<1>2. \A t \in Turns : pc'[t] = "idle"
  BY DEF Restart
<1>3. ASSUME NEW c \in Calls
      PROVE  IsFiniteSet(Approved(c)') /\ Cardinality(Approved(c)') = 0
  <2>1. Approved(c)' = {}
    BY <1>2 DEF Approved
  <2> QED BY <2>1, FS_EmptySet
<1>4. FewApproved' /\ AnswersPay' /\ FoundWithoutCwd'
  <2>1. UNCHANGED <<runs, grants, approvals>>
    BY DEF Restart
  <2>2. ASSUME NEW c \in Calls
        PROVE  runs[c] + grants[Fingerprint(c, Cwd)] <= approvals[c]
    <3>1. /\ runs[c] \in Nat /\ approvals[c] \in Nat /\ grants[Fingerprint(c, Cwd)] \in Nat
          /\ Cardinality(Approved(c)) \in Nat
      BY FS_CardinalityType, FingerprintTypes DEF IInv, TypeOK, FewApproved
    <3> QED BY <3>1 DEF IInv, AnswersPay
  <2>3. \A c \in Calls : runs[c] \in Nat /\ grants[Fingerprint(c, Cwd)] \in Nat
    BY FingerprintTypes DEF IInv, TypeOK
  <2> QED BY <1>3, <2>1, <2>2, <2>3 DEF IInv, FewApproved, AnswersPay, FoundWithoutCwd
<1> QED BY <1>1, <1>4 DEF IInv, Restart, TimerIffWaiting, Waiting, WaiterStillWaits,
                         UniquePending, Requested, VerdictIsOwn

\* Every step keeps the inductive invariant.
LEMMA NextIInv ==
  ASSUME IInv, [Next]_vars
  PROVE  IInv'
<1>1. CASE \E t \in Turns : TurnStep(t)
  BY <1>1, SentStep, SendFailsStep, TimeoutStep, RetryStep, GiveUpStep DEF TurnStep
<1>2. CASE \E t \in Turns, c \in Calls : Call(t, c)
  BY <1>2, CallStep
<1>3. CASE \E id \in DOMAIN requests, ok \in BOOLEAN : Answer(id, ok)
  BY <1>3, AnswerStep
<1>4. CASE (\E id \in DOMAIN requests : GrowOld(id)) \/ ReloadPolicy \/ UNCHANGED vars
  BY <1>4, QuietStep
<1>5. CASE Restart
  BY <1>5, RestartStep
<1> QED BY <1>1, <1>2, <1>3, <1>4, <1>5 DEF Next

\* The inductive invariant holds in every reachable state.
THEOREM Invariance == Spec => []IInv
<1>1. IInv /\ [Next]_vars => IInv'
  BY NextIInv
<1> QED BY InitIInv, <1>1, PTL DEF Spec

\* Every reachable state is well typed.
THEOREM TypeCorrect == Spec => []TypeOK
BY Invariance, PTL DEF IInv

\* No turn ever waits without a timer, every entry of the waiters map belongs to
\* a turn that waits, and a request id has one entry.
THEOREM WaitersAndTimersAgree == Spec => []EntriesFollowWaits
BY Invariance, PTL DEF IInv, EntriesFollowWaits

\* A turn is told "approved" only when a client approved its own request.
THEOREM VerdictsAreOwn == Spec => []VerdictIsOwn
BY Invariance, PTL DEF IInv

\* Whatever policies are loaded while turns wait: the runs of a call and the grants
\* that are left for it never exceed the approving answers given for this call, and
\* the pending requests of a session and call are unique, for any working directory.
THEOREM RunsArePaidFor == Spec => []StoreIsPaidFor
<1>1. IInv => StoreIsPaidFor
  BY UniqueIsOnePending DEF IInv, StoreIsPaidFor
<1> QED BY Invariance, <1>1, PTL
-----------------------------------------------------------------------------
\* A step that moves one turn moves that turn's phase and no other.
LEMMA PhaseMoves ==
  ASSUME TypeOK, NEW t \in Turns, NEW place \in Places, NEW c,
         pc' = [pc EXCEPT ![t] = place],
         \/ call' = [call EXCEPT ![t] = c]
         \/ call' = call /\ c = call[t]
  PROVE  Phase' = [Phase EXCEPT ![t] = PhaseOf(place, c)]
<1>1. /\ pc'[t] = place /\ call'[t] = c
      /\ \A u \in Turns : u # t => pc'[u] = pc[u] /\ call'[u] = call[u]
  BY DEF TypeOK
<1>2. \A u \in Turns : u # t => PhaseOf(pc'[u], call'[u]) = PhaseOf(pc[u], call[u])
  BY <1>1
<1>3. PhaseOf(pc'[t], call'[t]) = PhaseOf(place, c)
  BY <1>1
<1>4. Phase' = [u \in Turns |-> PhaseOf(pc'[u], call'[u])]
  BY DEF Phase
<1> QED BY <1>2, <1>3, <1>4 DEF Phase

\* The phases of the contract are told apart by where the turn stands.
LEMMA PhasesOfPlaces ==
  ASSUME NEW c
  PROVE  /\ PhaseOf("idle", c) = Contract!Idle
         /\ PhaseOf("approved", c) = Contract!GrantedTo(c)
         /\ \A place \in Places \ {"idle", "approved"} :
               PhaseOf(place, c) = Contract!AskingFor(c)
         /\ Contract!AskingFor(c) # Contract!Idle
         /\ Contract!GrantedTo(c) # Contract!Idle
<1>1. Contract!AskingFor(c).at # Contract!Idle.at
  BY DEF Contract!AskingFor, Contract!Idle
<1>2. Contract!GrantedTo(c).at # Contract!Idle.at
  BY DEF Contract!GrantedTo, Contract!Idle
<1> QED BY <1>1, <1>2 DEF PhaseOf, Places, Contract!Idle, Contract!GrantedTo,
                          Contract!AskingFor

\* What a turn's phase is: by its place and its call.
LEMMA PhaseHere ==
  ASSUME NEW t \in Turns
  PROVE  Phase[t] = PhaseOf(pc[t], call[t])
BY DEF Phase

\* The grants of the store that a call can find.
Unused == [c \in Calls |-> grants[Fingerprint(c, Cwd)]]

\* The initial states map to initial states of the contract.
LEMMA InitContract == Init => Contract!ContractInit
BY PhasesOfPlaces, FingerprintTypes DEF Init, Phase, Contract!ContractInit

\* An answer grants at most one turn, and only one that asked.
LEMMA AnswerContract ==
  ASSUME IInv, NEW id \in DOMAIN requests, NEW ok \in BOOLEAN, Answer(id, ok)
  PROVE  [Contract!ContractNext]_(Contract!contractVars)
<1>1. /\ runs' = runs /\ call' = call /\ grants' = grants
      /\ \A u, v \in Woken(id) : u = v
      /\ \A u \in Woken(id) : u \in Turns /\ pc[u] = "waiting" /\ call[u] \in Calls
      /\ pc' = [u \in Turns |-> IF u \notin Woken(id) THEN pc[u]
                                ELSE IF ok THEN "approved" ELSE "denied"]
  BY DEF IInv, TypeOK, WaiterStillWaits, Waiting, Woken, Answer, Requested
<1>2. CASE ~ok \/ Woken(id) = {}
  <2>1. ASSUME NEW u \in Turns PROVE PhaseOf(pc'[u], call'[u]) = PhaseOf(pc[u], call[u])
    BY <1>1, <1>2 DEF PhaseOf
  <2>2. Phase' = Phase
    BY <2>1 DEF Phase
  <2> QED BY <1>1, <2>2 DEF Contract!contractVars
<1>3. CASE ok /\ Woken(id) # {}
  <2>1. PICK t \in Woken(id) : TRUE
    BY <1>3
  <2>2. t \in Turns /\ call[t] \in Calls /\ pc[t] = "waiting"
    BY <1>1, <2>1
  <2>3. Phase[t] = Contract!AskingFor(call[t])
    BY <2>2, PhaseHere, PhasesOfPlaces DEF Places
  <2>4. pc' = [pc EXCEPT ![t] = "approved"]
    BY <1>1, <1>3, <2>1 DEF IInv, TypeOK
  <2>5. Phase' = [Phase EXCEPT ![t] = Contract!GrantedTo(call[t])]
    <3>1. Phase' = [Phase EXCEPT ![t] = PhaseOf("approved", call[t])]
      BY <1>1, <2>2, <2>4, PhaseMoves DEF IInv, Places
    <3>2. PhaseOf("approved", call[t]) = Contract!GrantedTo(call[t])
      BY PhasesOfPlaces DEF Places
    <3> QED BY <3>1, <3>2
  <2>6. Contract!Grant(t, call[t])
    BY <1>1, <2>3, <2>5 DEF Contract!Grant
  <2> QED BY <2>2, <2>6 DEF Contract!ContractNext
<1> QED BY <1>2, <1>3

\* A turn that ends its call is idle in the contract.
LEMMA EndsIdle ==
  ASSUME TypeOK, NEW t \in Turns, NEW c, pc' = [pc EXCEPT ![t] = "idle"],
         \/ call' = [call EXCEPT ![t] = c]
         \/ call' = call /\ c = call[t]
  PROVE  Phase' = [Phase EXCEPT ![t] = Contract!Idle]
<1>1. Phase' = [Phase EXCEPT ![t] = PhaseOf("idle", c)]
  BY PhaseMoves DEF Places
<1> QED BY <1>1, PhasesOfPlaces

\* A turn that has a request to send asks in the contract.
LEMMA EndsAsking ==
  ASSUME TypeOK, NEW t \in Turns, NEW c, pc' = [pc EXCEPT ![t] = "sending"],
         \/ call' = [call EXCEPT ![t] = c]
         \/ call' = call /\ c = call[t]
  PROVE  Phase' = [Phase EXCEPT ![t] = Contract!AskingFor(c)]
<1>1. Phase' = [Phase EXCEPT ![t] = PhaseOf("sending", c)]
  BY PhaseMoves DEF Places
<1>2. PhaseOf("sending", c) = Contract!AskingFor(c)
  BY PhasesOfPlaces DEF Places
<1> QED BY <1>1, <1>2

\* What consuming a grant of call c leaves to find.
LEMMA ConsumedUnused ==
  ASSUME NEW gs \in [Fingerprints -> Nat], NEW c \in Calls,
         grants' = Consumed(gs, Fingerprint(c, Cwd))
  PROVE  Unused' = [[d \in Calls |-> gs[Fingerprint(d, Cwd)]] EXCEPT ![c] = @ - 1]
<1>1. ASSUME NEW d \in Calls
      PROVE  grants'[Fingerprint(d, Cwd)] =
                IF d = c THEN gs[Fingerprint(c, Cwd)] - 1 ELSE gs[Fingerprint(d, Cwd)]
  <2>1. /\ Fingerprint(d, Cwd) \in Fingerprints
        /\ d # c => Fingerprint(d, Cwd) # Fingerprint(c, Cwd)
    BY FingerprintTypes, FingerprintsDiffer
  <2> QED BY <2>1 DEF Consumed
<1> QED BY <1>1 DEF Unused

\* What registering a grant of call c leaves to find.
LEMMA RegisteredUnused ==
  ASSUME NEW gs \in [Fingerprints -> Nat], NEW c \in Calls
  PROVE  [d \in Calls |-> Registered(gs, GrantedFingerprint(c))[Fingerprint(d, Cwd)]] =
            IF Cwd = NoCwd
            THEN [[d \in Calls |-> gs[Fingerprint(d, Cwd)]] EXCEPT ![c] = @ + 1]
            ELSE [d \in Calls |-> gs[Fingerprint(d, Cwd)]]
<1>1. ASSUME NEW d \in Calls
      PROVE  Registered(gs, GrantedFingerprint(c))[Fingerprint(d, Cwd)] =
                IF d = c /\ Cwd = NoCwd THEN gs[Fingerprint(d, Cwd)] + 1
                                        ELSE gs[Fingerprint(d, Cwd)]
  <2>1. /\ Fingerprint(d, Cwd) \in Fingerprints /\ GrantedFingerprint(c) \in Fingerprints
        /\ Fingerprint(d, Cwd) = GrantedFingerprint(c) <=> d = c /\ Cwd = NoCwd
    BY FingerprintTypes, FingerprintsDiffer DEF GrantedFingerprint
  <2> QED BY <2>1 DEF Registered
<1> QED BY <1>1

\* A new call asks, runs on a grant that was kept, or is refused.
LEMMA CallContract ==
  ASSUME IInv, NEW t \in Turns, NEW c \in Calls, Call(t, c)
  PROVE  [Contract!ContractNext]_(Contract!contractVars)
<1>1. /\ TypeOK /\ pc[t] = "idle" /\ call' = [call EXCEPT ![t] = c]
      /\ grants \in [Fingerprints -> Nat]
  BY DEF IInv, TypeOK, Call
<1>2. Phase[t] = Contract!Idle /\ Phase = [Phase EXCEPT ![t] = Contract!Idle]
  <2>1. Phase[t] = Contract!Idle
    BY <1>1, PhaseHere, PhasesOfPlaces
  <2> QED BY <2>1 DEF Phase
<1>3. CASE PolicyRefuses(t, c, grants, requests)
  <2>1. Phase' = Phase
    BY <1>1, <1>2, <1>3, EndsIdle DEF PolicyRefuses
  <2> QED BY <1>3, <2>1 DEF PolicyRefuses, Contract!contractVars
<1>4. CASE RunsOnGrant(t, c, grants)
  <2>1. Phase' = Phase
    BY <1>1, <1>2, <1>4, EndsIdle DEF RunsOnGrant
  <2>2. Unused' = [Unused EXCEPT ![c] = @ - 1] /\ Unused[c] > 0
    BY <1>1, <1>4, ConsumedUnused DEF RunsOnGrant, Unused
  <2>3. Contract!RunOnKept(c)
    BY <1>4, <2>1, <2>2 DEF RunsOnGrant, Contract!RunOnKept, Unused
  <2> QED BY <2>3 DEF Contract!ContractNext
<1>5. CASE AsksFor(t, c, grants)
  <2>1. Phase' = [Phase EXCEPT ![t] = Contract!AskingFor(c)]
    BY <1>1, <1>5, EndsAsking DEF AsksFor
  <2>2. Contract!Ask(t, c)
    BY <1>2, <1>5, <2>1 DEF AsksFor, Contract!Ask
  <2> QED BY <2>2 DEF Contract!ContractNext
<1> QED BY <1>3, <1>4, <1>5, CallStep

\* A retry runs on the grant it registers, asks again, or is refused by a policy
\* that was loaded meanwhile: then the grant is kept if a call can find it.
LEMMA RetryContract ==
  ASSUME IInv, NEW t \in Turns, Retry(t)
  PROVE  [Contract!ContractNext]_(Contract!contractVars)
<1> DEFINE c == call[t]
           gs == Registered(grants, GrantedFingerprint(c))
           rs == Resolved(requests, req[t], TRUE)
           found == [d \in Calls |-> gs[Fingerprint(d, Cwd)]]
<1>1. /\ TypeOK /\ pc[t] = "approved" /\ call' = call /\ c \in Calls
      /\ grants \in [Fingerprints -> Nat] /\ GrantedFingerprint(c) \in Fingerprints
  BY FingerprintTypes DEF IInv, TypeOK, Retry, Requested
<1>2. Phase[t] = Contract!GrantedTo(c) /\ Phase[t] # Contract!Idle
  BY <1>1, PhaseHere, PhasesOfPlaces
<1>3. gs \in [Fingerprints -> Nat]
  BY <1>1 DEF Registered
<1>4. found = IF Cwd = NoCwd THEN [Unused EXCEPT ![c] = @ + 1] ELSE Unused
  BY <1>1, RegisteredUnused DEF Unused
<1>5. Unused \in [Calls -> Nat] /\ (Cwd # NoCwd => \A d \in Calls : Unused[d] = 0)
  BY FingerprintTypes DEF IInv, TypeOK, FoundWithoutCwd, Unused
<1>6. found[c] = gs[Fingerprint(c, Cwd)]
  BY <1>1
<1>7. PolicyRefuses(t, c, gs, rs) \/ RunsOnGrant(t, c, gs) \/ AsksFor(t, c, gs)
  BY RetryStep
<1> HIDE DEF c, gs, rs, found
<1>8. CASE PolicyRefuses(t, c, gs, rs)
  <2>1. Phase' = [Phase EXCEPT ![t] = Contract!Idle] /\ runs' = runs
    BY <1>1, <1>8, EndsIdle DEF PolicyRefuses, c
  <2>2. Unused' = found
    BY <1>8 DEF PolicyRefuses, Unused, found
  <2>3. CASE Cwd = NoCwd
    <3>1. Contract!KeepGrant(t, c)
      BY <1>2, <1>4, <2>1, <2>2, <2>3 DEF Contract!KeepGrant, Unused
    <3> QED BY <1>1, <3>1 DEF Contract!ContractNext
  <2>4. CASE Cwd # NoCwd
    <3>1. Contract!Refuse(t)
      BY <1>2, <1>4, <2>1, <2>2, <2>4 DEF Contract!Refuse, Unused
    <3> QED BY <3>1 DEF Contract!ContractNext
  <2> QED BY <2>3, <2>4
<1>9. CASE RunsOnGrant(t, c, gs)
  <2>1. /\ Phase' = [Phase EXCEPT ![t] = Contract!Idle]
        /\ runs' = [runs EXCEPT ![c] = @ + 1] /\ found[c] > 0
    BY <1>1, <1>6, <1>9, EndsIdle DEF RunsOnGrant, c
  <2>2. Unused' = [found EXCEPT ![c] = @ - 1]
    BY <1>1, <1>3, <1>9, ConsumedUnused DEF RunsOnGrant, found
  <2>3. Cwd = NoCwd
    BY <1>1, <1>4, <1>5, <2>1
  <2>4. Unused' = Unused
    BY <1>1, <1>4, <1>5, <2>2, <2>3
  <2>5. Contract!Run(t, c)
    BY <1>2, <2>1, <2>4 DEF Contract!Run, Unused
  <2> QED BY <1>1, <2>5 DEF Contract!ContractNext
<1>10. CASE AsksFor(t, c, gs)
  <2>1. /\ Phase' = [Phase EXCEPT ![t] = Contract!AskingFor(c)]
        /\ runs' = runs /\ found[c] = 0
    BY <1>1, <1>6, <1>10, EndsAsking DEF AsksFor, c
  <2>2. Unused' = found
    BY <1>10 DEF AsksFor, Unused, found
  <2>3. Cwd # NoCwd
    BY <1>1, <1>4, <1>5, <2>1
  <2>4. Contract!Ask(t, c)
    BY <1>2, <1>4, <2>1, <2>2, <2>3 DEF Contract!Ask, Unused
  <2> QED BY <1>1, <2>4 DEF Contract!ContractNext
<1> QED BY <1>7, <1>8, <1>9, <1>10

\* The other steps of a turn only send, wait or give up.
LEMMA TurnContract ==
  ASSUME IInv, NEW t \in Turns, Sent(t) \/ SendFails(t) \/ Timeout(t) \/ GiveUp(t)
  PROVE  [Contract!ContractNext]_(Contract!contractVars)
<1>1. TypeOK /\ UNCHANGED <<call, runs, grants>>
  BY DEF IInv, Sent, SendFails, Timeout, GiveUp
<1>2. CASE Sent(t) \/ Timeout(t)
  <2>1. /\ pc[t] \in {"sending", "waiting"}
        /\ \/ pc' = [pc EXCEPT ![t] = "waiting"]
           \/ pc' = [pc EXCEPT ![t] = "denied"]
    BY <1>2 DEF Sent, Timeout, IInv, TimerIffWaiting, Waiting
  <2>2. Phase[t] = Contract!AskingFor(call[t])
    BY <2>1, PhaseHere, PhasesOfPlaces DEF Places
  <2>3. Phase' = [Phase EXCEPT ![t] = Contract!AskingFor(call[t])]
    <3>1. PICK place \in {"waiting", "denied"} : pc' = [pc EXCEPT ![t] = place]
      BY <2>1
    <3>2. place \in Places /\ call' = call
      BY <1>1, <3>1 DEF Places
    <3>3. Phase' = [Phase EXCEPT ![t] = PhaseOf(place, call[t])]
      BY <1>1, <3>1, <3>2, PhaseMoves
    <3>4. PhaseOf(place, call[t]) = Contract!AskingFor(call[t])
      BY <3>1, PhasesOfPlaces DEF Places
    <3> QED BY <3>3, <3>4
  <2>4. Phase' = Phase
    BY <2>2, <2>3 DEF Phase
  <2> QED BY <1>1, <2>4 DEF Contract!contractVars
<1>3. CASE SendFails(t) \/ GiveUp(t)
  <2>1. pc[t] \in {"sending", "denied"} /\ pc' = [pc EXCEPT ![t] = "idle"]
    BY <1>3 DEF SendFails, GiveUp
  <2>2. Phase[t] # Contract!Idle
    BY <2>1, PhaseHere, PhasesOfPlaces DEF Places
  <2>3. Phase' = [Phase EXCEPT ![t] = Contract!Idle]
    BY <1>1, <2>1, EndsIdle
  <2>4. Contract!Refuse(t)
    BY <1>1, <2>2, <2>3 DEF Contract!Refuse
  <2> QED BY <2>4 DEF Contract!ContractNext
<1> QED BY <1>2, <1>3

\* A restart is the contract's crash: the grants that were kept survive it.
LEMMA RestartContract == Restart => Contract!ContractCrash
<1> SUFFICES ASSUME Restart PROVE Contract!ContractCrash
  OBVIOUS
<1>1. \A t \in Turns : PhaseOf(pc'[t], call'[t]) = Contract!Idle
  BY PhasesOfPlaces DEF Restart
<1> QED BY <1>1 DEF Restart, Phase, Contract!ContractCrash

\* Every step maps to a step of the contract or to a stutter.
LEMMA StepContract ==
  ASSUME IInv, [Next]_vars
  PROVE  [Contract!ContractNext]_(Contract!contractVars)
<1>1. CASE \E t \in Turns : TurnStep(t)
  BY <1>1, TurnContract, RetryContract DEF TurnStep
<1>2. CASE \E t \in Turns, c \in Calls : Call(t, c)
  BY <1>2, CallContract
<1>3. CASE \E id \in DOMAIN requests, ok \in BOOLEAN : Answer(id, ok)
  BY <1>3, AnswerContract
<1>4. CASE (\E id \in DOMAIN requests : GrowOld(id)) \/ ReloadPolicy \/ UNCHANGED vars
  BY <1>4 DEF GrowOld, ReloadPolicy, vars, Phase, Contract!contractVars
<1>5. CASE Restart
  BY <1>5, RestartContract DEF Contract!ContractNext
<1> QED BY <1>1, <1>2, <1>3, <1>4, <1>5 DEF Next

\* Promise mode implements the approval contract, whatever the working directory
\* the tools pass and whatever policies are loaded while turns wait.
THEOREM Refinement == Spec => ImplementsContract
<1>1. IInv /\ [Next]_vars => [Contract!ContractNext]_(Contract!contractVars)
  BY StepContract
<1> QED BY InitContract, Invariance, <1>1, PTL
           DEF Spec, ImplementsContract, Contract!ContractSpec
=============================================================================
