------------------------- MODULE EventApprovalProofs -------------------------
(***************************************************************************)
(* The safety invariants of EventApproval and its refinement of            *)
(* ApprovalContract, for any number of turns, sessions and calls and any   *)
(* working directory that is not the empty string.                         *)
(***************************************************************************)
EXTENDS EventApproval, TLAPS

\* No session has two pending requests for one call.
UniquePending(rs) ==
    \A i, j \in DOMAIN rs : rs[i].status = "pending" /\ rs[j] = rs[i] => i = j

\* From rs to rs2 no request is lost and no decided one becomes pending again.
OnlyGrows(rs, rs2) ==
    /\ DOMAIN rs \subseteq DOMAIN rs2
    /\ \A i \in DOMAIN rs : rs2[i].status = "pending" => rs[i].status = "pending"

\* resolvePendingRequest decides its request and leaves the others.
LEMMA ResolvedEffect ==
  ASSUME NEW rs \in Seq(Request), UniquePending(rs),
         NEW id \in DOMAIN rs, NEW ok \in BOOLEAN
  PROVE  /\ Resolved(rs, id, ok) \in Seq(Request)
         /\ UniquePending(Resolved(rs, id, ok))
         /\ OnlyGrows(rs, Resolved(rs, id, ok))
         /\ DOMAIN Resolved(rs, id, ok) = DOMAIN rs
         /\ Resolved(rs, id, ok)[id].status # "pending"
<1> DEFINE rs2 == Resolved(rs, id, ok)
<1>1. rs[id] \in Request
  OBVIOUS
<1>2. rs2[id] = [rs[id] EXCEPT !.status = IF ok THEN "approved" ELSE "rejected"]
  BY DEF Resolved
<1>3. rs2[id] \in Request /\ rs2[id].status # "pending"
  BY <1>1, <1>2 DEF Request, Statuses
<1>4. DOMAIN rs2 = DOMAIN rs /\ \A i \in DOMAIN rs : i # id => rs2[i] = rs[i]
  BY DEF Resolved
<1>5. rs2 \in Seq(Request)
  BY <1>1, <1>2, <1>3 DEF Resolved
<1>6. UniquePending(rs2) /\ OnlyGrows(rs, rs2)
  BY <1>3, <1>4 DEF UniquePending, OnlyGrows
<1> QED BY <1>3, <1>4, <1>5, <1>6

\* Pruning only expires pending requests.
LEMMA PrunedEffect ==
  ASSUME NEW rs \in Seq(Request), UniquePending(rs), NEW late
  PROVE  /\ Pruned(rs, late) \in Seq(Request)
         /\ UniquePending(Pruned(rs, late))
         /\ OnlyGrows(rs, Pruned(rs, late))
         /\ DOMAIN Pruned(rs, late) = DOMAIN rs
<1> DEFINE rs2 == Pruned(rs, late)
<1>1. DOMAIN rs2 = DOMAIN rs
  BY DEF Pruned
<1>2. ASSUME NEW i \in DOMAIN rs
      PROVE  /\ rs2[i] \in Request
             /\ rs2[i].status = "pending" => rs2[i] = rs[i]
  <2>1. rs[i] \in Request
    OBVIOUS
  <2>2. CASE rs[i].status = "pending" /\ i \in late
    <3>1. rs2[i] = [rs[i] EXCEPT !.status = "expired"]
      BY <2>2 DEF Pruned
    <3> QED BY <2>1, <3>1 DEF Request, Statuses
  <2>3. CASE ~(rs[i].status = "pending" /\ i \in late)
    BY <2>1, <2>3 DEF Pruned
  <2> QED BY <2>2, <2>3
<1>3. rs2 \in Seq(Request)
  <2>1. DOMAIN rs = 1..Len(rs) /\ Len(rs) \in Nat
    OBVIOUS
  <2>2. rs2 = [i \in 1..Len(rs) |-> rs2[i]]
    BY <2>1 DEF Pruned
  <2> QED BY <1>2, <2>1, <2>2
<1>4. UniquePending(rs2) /\ OnlyGrows(rs, rs2)
  BY <1>1, <1>2 DEF UniquePending, OnlyGrows
<1> QED BY <1>1, <1>3, <1>4

\* createPendingRequest returns a request on file and keeps the pending ones
\* unique.
LEMMA AskedEffect ==
  ASSUME NEW rs \in Seq(Request), UniquePending(rs),
         NEW fp \in Fingerprints, NEW owner \in Sessions,
         NEW id, NEW rs2, Asked(rs, fp, owner, id, rs2)
  PROVE  /\ rs2 \in Seq(Request)
         /\ UniquePending(rs2)
         /\ OnlyGrows(rs, rs2)
         /\ id \in DOMAIN rs2
<1> DEFINE r == [fp |-> fp, owner |-> owner, status |-> "pending"]
<1>1. CASE Reusable(rs, fp, owner) = {}
  <2>1. r \in Request
    BY DEF Request, Statuses
  <2>2. id = Len(rs) + 1 /\ rs2 = Append(rs, r)
    BY <1>1 DEF Asked
  <2>3. /\ rs2 \in Seq(Request) /\ Len(rs2) = Len(rs) + 1
        /\ DOMAIN rs = 1..Len(rs) /\ DOMAIN rs2 = 1..(Len(rs) + 1)
        /\ Len(rs) \in Nat
        /\ \A i \in 1..Len(rs) : rs2[i] = rs[i]
        /\ rs2[Len(rs) + 1] = r
    BY <2>1, <2>2
  <2>4. \A i \in DOMAIN rs : rs[i] # r
    BY <1>1 DEF Reusable
  <2>5. UniquePending(rs2)
    <3> SUFFICES ASSUME NEW i \in DOMAIN rs2, NEW j \in DOMAIN rs2,
                        rs2[i].status = "pending", rs2[j] = rs2[i]
                 PROVE  i = j
      BY DEF UniquePending
    <3>1. CASE i \in 1..Len(rs) /\ j \in 1..Len(rs)
      BY <2>3, <3>1 DEF UniquePending
    <3>2. CASE i = Len(rs) + 1 \/ j = Len(rs) + 1
      BY <2>3, <2>4, <3>2
    <3> QED BY <2>3, <3>1, <3>2
  <2>6. OnlyGrows(rs, rs2)
    BY <2>3 DEF OnlyGrows
  <2> QED BY <2>2, <2>3, <2>5, <2>6
<1>2. CASE Reusable(rs, fp, owner) # {}
  BY <1>2 DEF Asked, Reusable, OnlyGrows
<1> QED BY <1>1, <1>2

\* A gate that prunes and then files or finds a request keeps all of that.
LEMMA PrunedAskedEffect ==
  ASSUME NEW rs \in Seq(Request), UniquePending(rs), NEW late,
         NEW fp \in Fingerprints, NEW owner \in Sessions,
         NEW id, NEW rs2, Asked(Pruned(rs, late), fp, owner, id, rs2)
  PROVE  /\ rs2 \in Seq(Request)
         /\ UniquePending(rs2)
         /\ OnlyGrows(rs, rs2)
         /\ id \in DOMAIN rs2
<1>1. /\ Pruned(rs, late) \in Seq(Request)
      /\ UniquePending(Pruned(rs, late))
      /\ OnlyGrows(rs, Pruned(rs, late))
  BY PrunedEffect
<1>2. /\ rs2 \in Seq(Request) /\ UniquePending(rs2)
      /\ OnlyGrows(Pruned(rs, late), rs2) /\ id \in DOMAIN rs2
  BY <1>1, AskedEffect
<1> QED BY <1>1, <1>2 DEF OnlyGrows

\* The fingerprints of calls, with either working directory, index grants.
LEMMA FingerprintTypes ==
  ASSUME NEW c \in Calls
  PROVE  /\ Fingerprint(c, Cwd) \in Fingerprints
         /\ GrantedFingerprint(c) \in Fingerprints
BY DEF Fingerprint, GrantedFingerprint, Fingerprints

\* Different calls have different fingerprints.
LEMMA FingerprintsDiffer ==
  ASSUME NEW c \in Calls, NEW d \in Calls, NEW p, NEW q,
         Fingerprint(c, p) = Fingerprint(d, q)
  PROVE  c = d /\ p = q
<1>1. Fingerprint(c, p).call = Fingerprint(d, q).call
      /\ Fingerprint(c, p).cwd = Fingerprint(d, q).cwd
  OBVIOUS
<1> QED BY <1>1 DEF Fingerprint
-----------------------------------------------------------------------------
\* A turn that is busy executes a call.
Requested == \A t \in Turns : pc[t] # "idle" => call[t] \in Calls

\* The grants that RunApproved leaves behind are found by no call.
NoUsableGrant == \A c \in Calls : grants[Fingerprint(c, Cwd)] = 0

\* The inductive invariant: VerdictIsOwn holds of an approval only because the
\* turn's request was on file while it waited, and the contract holds only
\* because no call finds a grant.
IInv == /\ TypeOK /\ TimerIffWaiting /\ ResolverStillWaits /\ NoPausedStateLeft
        /\ UniquePending(requests) /\ NoUsableGrant
        /\ Requested /\ VerdictIsOwn

\* The inductive invariant holds initially.
LEMMA InitIInv == Init => IInv
<1> SUFFICES ASSUME Init PROVE IInv
  OBVIOUS
<1>1. TypeOK
  BY DEF Init, TypeOK, Places
<1>2. TimerIffWaiting /\ ResolverStillWaits /\ NoPausedStateLeft
  BY DEF Init, TimerIffWaiting, ResolverStillWaits, NoPausedStateLeft, Waiting
<1>3. UniquePending(requests)
  BY DEF Init, UniquePending
<1>4. NoUsableGrant
  BY FingerprintTypes DEF Init, NoUsableGrant
<1>5. Requested /\ VerdictIsOwn
  BY DEF Init, Requested, VerdictIsOwn
<1> QED BY <1>1, <1>2, <1>3, <1>4, <1>5 DEF IInv

\* A call asks, as no grant is left, and pauses under its request id.
LEMMA CallStep ==
  ASSUME IInv, NEW t \in Turns, NEW c \in Calls, Call(t, c)
  PROVE  IInv' /\ pc' = [pc EXCEPT ![t] = "paused"] /\ runs' = runs
<1> DEFINE fp == Fingerprint(c, Cwd)
<1>1. /\ fp \in Fingerprints /\ Owner[t] \in Sessions /\ grants[fp] = 0
      /\ requests \in Seq(Request) /\ UniquePending(requests)
  BY FingerprintTypes, OwnerAssumption DEF IInv, TypeOK, NoUsableGrant
<1>2. AskAndPause(t, c)
  <2>1. ~RunOnGrant(c)
    BY <1>1 DEF RunOnGrant
  <2> QED BY <2>1 DEF Call
<1>3. PICK id \in 1..(Len(requests) + 1) :
            /\ Asked(Pruned(requests, overdue), fp, Owner[t], id, requests')
            /\ req' = [req EXCEPT ![t] = id]
            /\ paused' = paused \cup {id}
  BY <1>2 DEF AskAndPause
<1>4. /\ requests' \in Seq(Request) /\ UniquePending(requests)'
      /\ OnlyGrows(requests, requests') /\ id \in DOMAIN requests' /\ id \in Nat
  <2>1. /\ requests' \in Seq(Request) /\ UniquePending(requests')
        /\ OnlyGrows(requests, requests') /\ id \in DOMAIN requests'
    BY <1>1, <1>3, PrunedAskedEffect
  <2> QED BY <2>1 DEF UniquePending
<1>5. /\ pc[t] = "idle" /\ pc' = [pc EXCEPT ![t] = "paused"]
      /\ call' = [call EXCEPT ![t] = c] /\ called' = called + 1
      /\ grants' = grants /\ runs' = runs
      /\ UNCHANGED <<resolvers, timers, overdue, approvedIds, answered>>
  BY <1>2 DEF Call, AskAndPause
<1>6. TypeOK'
  <2>1. TypeOK
    BY DEF IInv
  <2>2. /\ pc' \in [Turns -> Places] /\ call' \in [Turns -> Calls \cup {NoCall}]
        /\ req' \in [Turns -> Nat] /\ paused' \subseteq Nat
    BY <1>3, <1>4, <1>5, <2>1 DEF TypeOK, Places
  <2> QED BY <1>4, <1>5, <2>1, <2>2 DEF TypeOK
<1>7. /\ pc'[t] = "paused" /\ call'[t] = c /\ req'[t] = id
      /\ \A u \in Turns : u # t => /\ pc'[u] = pc[u] /\ call'[u] = call[u]
                                   /\ req'[u] = req[u]
  BY <1>3, <1>5 DEF IInv, TypeOK
<1>8. TimerIffWaiting' /\ ResolverStillWaits'
  <2>1. t \notin resolvers /\ resolvers \subseteq Turns
    BY <1>5 DEF IInv, ResolverStillWaits, Waiting
  <2> QED BY <1>3, <1>5, <1>7, <2>1
             DEF IInv, TimerIffWaiting, ResolverStillWaits, Waiting
<1>9. NoPausedStateLeft'
  BY <1>3, <1>5, <1>7 DEF IInv, NoPausedStateLeft
<1>10. NoUsableGrant' /\ Requested' /\ VerdictIsOwn'
  BY <1>4, <1>5, <1>7
     DEF IInv, NoUsableGrant, Requested, VerdictIsOwn, OnlyGrows
<1> QED BY <1>4, <1>5, <1>6, <1>8, <1>9, <1>10 DEF IInv

\* A turn that begins to wait gets the one resolver of its loop id.
LEMMA WaitForResumeStep ==
  ASSUME IInv, NEW t \in Turns, WaitForResume(t)
  PROVE  IInv'
<1>1. TypeOK'
  BY DEF IInv, TypeOK, WaitForResume, OtherResolvers, Armed, Places
<1>2. TimerIffWaiting'
  BY DEF IInv, TypeOK, TimerIffWaiting, Waiting, WaitForResume, Armed
<1>3. ResolverStillWaits'
  BY DEF IInv, TypeOK, ResolverStillWaits, Waiting, WaitForResume, OtherResolvers
<1>4. NoPausedStateLeft'
  BY DEF IInv, TypeOK, NoPausedStateLeft, WaitForResume
<1>5. UniquePending(requests)' /\ NoUsableGrant'
  BY DEF IInv, NoUsableGrant, WaitForResume, UniquePending
<1>6. Requested' /\ VerdictIsOwn'
  BY DEF IInv, TypeOK, Requested, VerdictIsOwn, WaitForResume
<1> QED BY <1>1, <1>2, <1>3, <1>4, <1>5, <1>6 DEF IInv

\* Deciding a request keeps the pending requests unique.
LEMMA DecisionEffect ==
  ASSUME IInv, NEW id \in DOMAIN requests, NEW ok \in BOOLEAN,
         requests' = Resolved(requests, id, ok)
  PROVE  /\ requests' \in Seq(Request)
         /\ UniquePending(requests)'
         /\ DOMAIN requests' = DOMAIN requests
BY ResolvedEffect DEF IInv, TypeOK

\* An answer wakes the turn whose resolver the loop id has, and takes the
\* paused state with the resolver.
LEMMA ResumeStep ==
  ASSUME IInv, NEW id \in DOMAIN requests, NEW ok \in BOOLEAN,
         NEW marks \in BOOLEAN, Resume(id, ok, marks)
  PROVE  IInv'
<1>1. /\ requests' \in Seq(Request) /\ UniquePending(requests)'
      /\ DOMAIN requests' = DOMAIN requests
  <2>1. CASE requests' = Resolved(requests, id, ok)
    BY <2>1, DecisionEffect
  <2>2. CASE requests' = requests
    BY <2>2 DEF IInv, TypeOK, UniquePending
  <2> QED BY <2>1, <2>2 DEF Resume
<1>2. /\ Woken(id) \subseteq Waiting /\ \A u \in Woken(id) : req[u] = id
      /\ \A u \in Turns :
            pc'[u] = IF u \notin Woken(id) THEN pc[u]
                     ELSE IF ok THEN "approved" ELSE "denied"
  BY DEF IInv, ResolverStillWaits, Woken, Resume
<1>3. TypeOK'
  <2>1. id \in Nat
    BY DEF IInv, TypeOK
  <2>2. pc' \in [Turns -> Places]
    BY DEF IInv, TypeOK, Resume, Places
  <2>3. resolvers' \subseteq Turns /\ timers' \subseteq Turns /\ paused' \subseteq Nat
    BY DEF IInv, TypeOK, Resume, Disarmed, Forgotten
  <2>4. overdue' \subseteq Nat /\ approvedIds' \subseteq Nat
    BY <2>1 DEF IInv, TypeOK, Resume
  <2> QED BY <1>1, <2>2, <2>3, <2>4 DEF IInv, TypeOK, Resume
<1>4. TimerIffWaiting'
  BY <1>2 DEF IInv, TimerIffWaiting, Waiting, Resume, Disarmed
<1>5. ResolverStillWaits'
  BY <1>2 DEF IInv, ResolverStillWaits, Waiting, Resume, Forgotten, Woken
<1>6. NoPausedStateLeft'
  BY <1>2 DEF IInv, NoPausedStateLeft, Resume, Forgotten
<1>7. /\ approvedIds \subseteq approvedIds' /\ (ok => id \in approvedIds')
      /\ UNCHANGED <<call, req, grants>>
  BY DEF Resume
<1>8. NoUsableGrant' /\ Requested' /\ VerdictIsOwn'
  BY <1>1, <1>2, <1>7 DEF IInv, NoUsableGrant, Requested, VerdictIsOwn, Waiting
<1> QED BY <1>1, <1>3, <1>4, <1>5, <1>6, <1>8 DEF IInv

\* A timeout releases its turn, whoever has the entries of the loop id by then.
LEMMA TimeoutStep ==
  ASSUME IInv, NEW t \in Turns, Timeout(t)
  PROVE  IInv'
<1>1. pc[t] = "waiting"
  BY DEF IInv, TimerIffWaiting, Waiting, Timeout
<1>2. /\ pc'[t] = "denied" /\ \A u \in Turns : u # t => pc'[u] = pc[u]
      /\ UNCHANGED <<call, req, requests, approvedIds, grants>>
  BY DEF IInv, TypeOK, Timeout
<1>3. TypeOK'
  BY DEF IInv, TypeOK, Timeout, OtherResolvers, Forgotten, Places
<1>4. TimerIffWaiting'
  BY <1>2 DEF IInv, TimerIffWaiting, Waiting, Timeout
<1>5. ResolverStillWaits'
  BY <1>2 DEF IInv, ResolverStillWaits, Waiting, Timeout, OtherResolvers, Forgotten
<1>6. NoPausedStateLeft'
  BY <1>2 DEF IInv, NoPausedStateLeft, Timeout, Forgotten
<1>7. UniquePending(requests)' /\ NoUsableGrant'
  BY <1>2 DEF IInv, NoUsableGrant, UniquePending
<1>8. Requested' /\ VerdictIsOwn'
  BY <1>1, <1>2 DEF IInv, Requested, VerdictIsOwn
<1> QED BY <1>3, <1>4, <1>5, <1>6, <1>7, <1>8 DEF IInv

\* A turn that ends its call neither waited nor has an entry.
LEMMA CallEnds ==
  ASSUME IInv, NEW t \in Turns, pc[t] \in {"approved", "denied"},
         pc' = [pc EXCEPT ![t] = "idle"], NEW ok \in BOOLEAN,
         requests' = Resolved(requests, req[t], ok),
         UNCHANGED <<call, req, resolvers, timers, paused, approvedIds>>
  PROVE  /\ TimerIffWaiting' /\ ResolverStillWaits' /\ NoPausedStateLeft'
         /\ requests' \in Seq(Request) /\ UniquePending(requests)'
         /\ Requested' /\ VerdictIsOwn'
<1>1. req[t] \in DOMAIN requests
  BY DEF IInv, VerdictIsOwn
<1>2. /\ requests' \in Seq(Request) /\ UniquePending(requests)'
      /\ DOMAIN requests' = DOMAIN requests
  BY <1>1, DecisionEffect
<1>3. /\ pc'[t] = "idle" /\ \A u \in Turns : u # t => pc'[u] = pc[u]
  BY DEF IInv, TypeOK
<1>4. TimerIffWaiting' /\ ResolverStillWaits'
  BY <1>3 DEF IInv, TimerIffWaiting, ResolverStillWaits, Waiting
<1>5. NoPausedStateLeft'
  BY <1>3 DEF IInv, NoPausedStateLeft
<1>6. Requested' /\ VerdictIsOwn'
  BY <1>2, <1>3 DEF IInv, Requested, VerdictIsOwn
<1> QED BY <1>2, <1>4, <1>5, <1>6

\* An approved call runs and leaves a grant that no call can find.
LEMMA RunApprovedStep ==
  ASSUME IInv, NEW t \in Turns, RunApproved(t)
  PROVE  IInv'
<1>1. /\ pc[t] = "approved" /\ pc' = [pc EXCEPT ![t] = "idle"]
      /\ requests' = Resolved(requests, req[t], TRUE)
      /\ UNCHANGED <<call, req, resolvers, timers, paused, approvedIds>>
  BY DEF RunApproved
<1>2. /\ TimerIffWaiting' /\ ResolverStillWaits' /\ NoPausedStateLeft'
      /\ requests' \in Seq(Request) /\ UniquePending(requests)'
      /\ Requested' /\ VerdictIsOwn'
  BY <1>1, CallEnds
<1>3. call[t] \in Calls
  BY <1>1 DEF IInv, Requested
<1>4. grants' \in [Fingerprints -> Nat]
  BY <1>3, FingerprintTypes DEF IInv, TypeOK, RunApproved
<1>5. NoUsableGrant'
  <2> SUFFICES ASSUME NEW c \in Calls PROVE grants'[Fingerprint(c, Cwd)] = 0
    BY DEF NoUsableGrant
  <2>1. Fingerprint(c, Cwd) # GrantedFingerprint(call[t])
    BY <1>3, CwdAssumption, FingerprintsDiffer DEF GrantedFingerprint
  <2>2. Fingerprint(c, Cwd) \in Fingerprints
    BY FingerprintTypes
  <2>3. grants' = [grants EXCEPT ![GrantedFingerprint(call[t])] = @ + 1]
    BY DEF RunApproved
  <2>4. grants'[Fingerprint(c, Cwd)] = grants[Fingerprint(c, Cwd)]
    BY <2>1, <2>2, <2>3 DEF IInv, TypeOK
  <2> QED BY <2>4 DEF IInv, NoUsableGrant
<1>6. TypeOK'
  <2>1. TypeOK
    BY DEF IInv
  <2>2. pc' \in [Turns -> Places] /\ runs' \in [Calls -> Nat]
    BY <1>1, <1>3, <2>1 DEF TypeOK, Places, RunApproved
  <2> QED BY <1>1, <1>2, <1>4, <2>1, <2>2 DEF TypeOK, RunApproved
<1> QED BY <1>2, <1>5, <1>6 DEF IInv

\* A turn that was denied ends its call.
LEMMA GiveUpStep ==
  ASSUME IInv, NEW t \in Turns, GiveUp(t)
  PROVE  IInv'
<1>1. /\ pc[t] = "denied" /\ pc' = [pc EXCEPT ![t] = "idle"]
      /\ requests' = Resolved(requests, req[t], FALSE)
      /\ UNCHANGED <<call, req, resolvers, timers, paused, approvedIds, grants>>
  BY DEF GiveUp
<1>2. /\ TimerIffWaiting' /\ ResolverStillWaits' /\ NoPausedStateLeft'
      /\ requests' \in Seq(Request) /\ UniquePending(requests)'
      /\ Requested' /\ VerdictIsOwn'
  BY <1>1, CallEnds
<1>3. TypeOK'
  BY <1>2 DEF IInv, TypeOK, GiveUp, Places
<1> QED BY <1>1, <1>2, <1>3 DEF IInv, NoUsableGrant

\* Ageing and restarts.  A restart forgets every turn and every entry.
LEMMA OtherSteps ==
  ASSUME IInv,
         \/ \E id \in DOMAIN requests : GrowOld(id)
         \/ Restart
         \/ UNCHANGED vars
  PROVE  IInv'
<1>1. TypeOK'
  <2>1. CASE \E id \in DOMAIN requests : GrowOld(id)
    <3>1. PICK id \in DOMAIN requests : GrowOld(id)
      BY <2>1
    <3>2. id \in Nat
      BY DEF IInv, TypeOK
    <3> QED BY <3>1, <3>2 DEF IInv, TypeOK, GrowOld
  <2>2. CASE Restart \/ UNCHANGED vars
    BY <2>2 DEF IInv, TypeOK, Restart, vars, Places
  <2> QED BY <2>1, <2>2
<1> QED BY <1>1 DEF IInv, GrowOld, Restart, vars, TimerIffWaiting, Waiting,
                    ResolverStillWaits, NoPausedStateLeft, UniquePending,
                    NoUsableGrant, Requested, VerdictIsOwn

\* Every step keeps the inductive invariant.
LEMMA NextIInv ==
  ASSUME IInv, [Next]_vars
  PROVE  IInv'
<1>1. CASE \E t \in Turns : TurnStep(t)
  BY <1>1, WaitForResumeStep, TimeoutStep, RunApprovedStep, GiveUpStep DEF TurnStep
<1>2. CASE \E t \in Turns, c \in Calls : Call(t, c)
  BY <1>2, CallStep
<1>3. CASE \E id \in DOMAIN requests, ok, marks \in BOOLEAN : Resume(id, ok, marks)
  BY <1>3, ResumeStep
<1> QED BY <1>1, <1>2, <1>3, OtherSteps DEF Next

\* The inductive invariant holds in every reachable state.
THEOREM Invariance == Spec => []IInv
<1>1. IInv /\ [Next]_vars => IInv'
  BY NextIInv
<1> QED BY InitIInv, <1>1, PTL DEF Spec

\* Every reachable state is well typed.
THEOREM TypeCorrect == Spec => []TypeOK
BY Invariance, PTL DEF IInv

\* No turn waits without a timer, every resolver belongs to a waiting turn whose
\* paused state is shown, and no paused state outlives its turns.
THEOREM EntriesAgree == Spec => []EntriesFollowWaits
BY Invariance, PTL DEF IInv, EntriesFollowWaits

\* A turn is told "approved" only when a client approved its own request.
THEOREM VerdictsAreOwn == Spec => []VerdictIsOwn
BY Invariance, PTL DEF IInv
-----------------------------------------------------------------------------
\* A step that moves one turn moves that turn's phase and no other.
LEMMA PhaseMoves ==
  ASSUME TypeOK, NEW t \in Turns, NEW place \in Places, NEW c,
         pc' = [pc EXCEPT ![t] = place],
         \/ call' = [call EXCEPT ![t] = c]
         \/ call' = call /\ c = call[t]
  PROVE  Phase' = [Phase EXCEPT ![t] = PhaseOf(place, c)]
<1>1. /\ pc'[t] = place /\ call'[t] = c
      /\ \A u \in Turns : u # t => pc'[u] = pc[u] /\ call'[u] = call[u]
  BY DEF TypeOK
<1>2. \A u \in Turns : u # t => PhaseOf(pc'[u], call'[u]) = PhaseOf(pc[u], call[u])
  BY <1>1
<1>3. PhaseOf(pc'[t], call'[t]) = PhaseOf(place, c)
  BY <1>1
<1>4. Phase' = [u \in Turns |-> PhaseOf(pc'[u], call'[u])]
  BY DEF Phase
<1> QED BY <1>2, <1>3, <1>4 DEF Phase

\* The phases of the contract are told apart by where the turn stands.
LEMMA PhasesOfPlaces ==
  ASSUME NEW c
  PROVE  /\ PhaseOf("idle", c) = Contract!Idle
         /\ PhaseOf("approved", c) = Contract!GrantedTo(c)
         /\ \A place \in Places \ {"idle", "approved"} :
               PhaseOf(place, c) = Contract!AskingFor(c)
         /\ Contract!AskingFor(c) # Contract!Idle
         /\ Contract!GrantedTo(c) # Contract!Idle
<1>1. Contract!AskingFor(c).at # Contract!Idle.at
  BY DEF Contract!AskingFor, Contract!Idle
<1>2. Contract!GrantedTo(c).at # Contract!Idle.at
  BY DEF Contract!GrantedTo, Contract!Idle
<1> QED BY <1>1, <1>2 DEF PhaseOf, Places, Contract!Idle, Contract!GrantedTo,
                          Contract!AskingFor

\* What a turn's phase is: by its place and its call.
LEMMA PhaseHere ==
  ASSUME NEW t \in Turns
  PROVE  Phase[t] = PhaseOf(pc[t], call[t])
BY DEF Phase

\* An answer grants at most one turn, and only one that asked.
LEMMA ResumeContract ==
  ASSUME IInv, NEW id \in DOMAIN requests, NEW ok \in BOOLEAN,
         NEW marks \in BOOLEAN, Resume(id, ok, marks)
  PROVE  [Contract!ContractNext]_(Contract!contractVars)
<1>1. /\ runs' = runs /\ call' = call
      /\ \A u, v \in Woken(id) : u = v
      /\ \A u \in Woken(id) : u \in Turns /\ pc[u] = "waiting" /\ call[u] \in Calls
      /\ pc' = [u \in Turns |-> IF u \notin Woken(id) THEN pc[u]
                                ELSE IF ok THEN "approved" ELSE "denied"]
  BY DEF IInv, TypeOK, ResolverStillWaits, Waiting, Woken, Resume, Requested
<1>2. CASE ~ok \/ Woken(id) = {}
  <2>1. ASSUME NEW u \in Turns PROVE PhaseOf(pc'[u], call'[u]) = PhaseOf(pc[u], call[u])
    BY <1>1, <1>2 DEF PhaseOf
  <2>2. Phase' = Phase
    BY <2>1 DEF Phase
  <2> QED BY <1>1, <2>2 DEF Contract!contractVars
<1>3. CASE ok /\ Woken(id) # {}
  <2>1. PICK t \in Woken(id) : TRUE
    BY <1>3
  <2>2. t \in Turns /\ call[t] \in Calls /\ pc[t] = "waiting"
    BY <1>1, <2>1
  <2>3. Phase[t] = Contract!AskingFor(call[t])
    BY <2>2, PhaseHere, PhasesOfPlaces DEF Places
  <2>4. pc' = [pc EXCEPT ![t] = "approved"]
    BY <1>1, <1>3, <2>1 DEF IInv, TypeOK
  <2>5. Phase' = [Phase EXCEPT ![t] = Contract!GrantedTo(call[t])]
    <3>1. Phase' = [Phase EXCEPT ![t] = PhaseOf("approved", call[t])]
      BY <1>1, <2>2, <2>4, PhaseMoves DEF IInv, Places
    <3>2. PhaseOf("approved", call[t]) = Contract!GrantedTo(call[t])
      BY PhasesOfPlaces DEF Places
    <3> QED BY <3>1, <3>2
  <2>6. Contract!Grant(t, call[t])
    BY <1>1, <2>3, <2>5 DEF Contract!Grant
  <2> QED BY <2>2, <2>6 DEF Contract!ContractNext
<1> QED BY <1>2, <1>3

\* Each step of one turn is a step of the contract or changes nothing in it.
LEMMA TurnContract ==
  ASSUME IInv, NEW t \in Turns,
         TurnStep(t) \/ \E c \in Calls : Call(t, c)
  PROVE  [Contract!ContractNext]_(Contract!contractVars)
<1> USE DEF Places
<1>1. CASE \E c \in Calls : Call(t, c)
  <2>1. PICK c \in Calls : Call(t, c)
    BY <1>1
  <2>2. /\ pc' = [pc EXCEPT ![t] = "paused"] /\ runs' = runs /\ pc[t] = "idle"
        /\ call' = [call EXCEPT ![t] = c]
    BY <2>1, CallStep DEF Call
  <2>3. Phase[t] = Contract!Idle
    BY <2>2, PhaseHere, PhasesOfPlaces
  <2>4. Phase' = [Phase EXCEPT ![t] = Contract!AskingFor(c)]
    <3>1. Phase' = [Phase EXCEPT ![t] = PhaseOf("paused", c)]
      BY <2>2, PhaseMoves DEF IInv, Places
    <3>2. PhaseOf("paused", c) = Contract!AskingFor(c)
      BY PhasesOfPlaces DEF Places
    <3> QED BY <3>1, <3>2
  <2>5. Contract!Ask(t, c)
    BY <2>2, <2>3, <2>4 DEF Contract!Ask
  <2> QED BY <2>5 DEF Contract!ContractNext
<1>2. CASE WaitForResume(t) \/ Timeout(t)
  <2>1. /\ runs' = runs /\ call' = call /\ pc[t] \in {"paused", "waiting"}
        /\ \/ pc' = [pc EXCEPT ![t] = "waiting"]
           \/ pc' = [pc EXCEPT ![t] = "denied"]
    BY <1>2 DEF WaitForResume, Timeout, IInv, TimerIffWaiting, Waiting
  <2>2. Phase[t] = Contract!AskingFor(call[t])
    BY <2>1, PhaseHere, PhasesOfPlaces
  <2>3. Phase' = [Phase EXCEPT ![t] = Contract!AskingFor(call[t])]
    <3>1. PICK place \in {"waiting", "denied"} : pc' = [pc EXCEPT ![t] = place]
      BY <2>1
    <3>2. place \in Places /\ TypeOK /\ call' = call
      BY <2>1, <3>1 DEF IInv, Places
    <3>3. Phase' = [Phase EXCEPT ![t] = PhaseOf(place, call[t])]
      BY <3>1, <3>2, PhaseMoves
    <3>4. PhaseOf(place, call[t]) = Contract!AskingFor(call[t])
      BY <3>1, PhasesOfPlaces DEF Places
    <3> QED BY <3>3, <3>4
  <2>4. Phase' = Phase
    BY <2>2, <2>3 DEF Phase
  <2> QED BY <2>1, <2>4 DEF Contract!contractVars
<1>3. CASE RunApproved(t)
  <2>1. /\ pc[t] = "approved" /\ call' = call /\ call[t] \in Calls
        /\ pc' = [pc EXCEPT ![t] = "idle"] /\ runs' = [runs EXCEPT ![call[t]] = @ + 1]
    BY <1>3 DEF RunApproved, IInv, Requested
  <2>2. Phase[t] = Contract!GrantedTo(call[t])
    BY <2>1, PhaseHere, PhasesOfPlaces
  <2>3. Phase' = [Phase EXCEPT ![t] = Contract!Idle]
    <3>1. Phase' = [Phase EXCEPT ![t] = PhaseOf("idle", call[t])]
      BY <2>1, PhaseMoves DEF IInv, Places
    <3> QED BY <3>1, PhasesOfPlaces
  <2>4. Contract!Run(t, call[t])
    BY <2>1, <2>2, <2>3 DEF Contract!Run
  <2> QED BY <2>1, <2>4 DEF Contract!ContractNext
<1>4. CASE GiveUp(t)
  <2>1. /\ runs' = runs /\ call' = call
        /\ pc[t] = "denied" /\ pc' = [pc EXCEPT ![t] = "idle"]
    BY <1>4 DEF GiveUp
  <2>2. Phase[t] # Contract!Idle
    BY <2>1, PhaseHere, PhasesOfPlaces
  <2>3. Phase' = [Phase EXCEPT ![t] = Contract!Idle]
    <3>1. Phase' = [Phase EXCEPT ![t] = PhaseOf("idle", call[t])]
      BY <2>1, PhaseMoves DEF IInv, Places
    <3> QED BY <3>1, PhasesOfPlaces
  <2>4. Contract!Refuse(t)
    BY <2>1, <2>2, <2>3 DEF Contract!Refuse
  <2> QED BY <2>4 DEF Contract!ContractNext
<1> QED BY <1>1, <1>2, <1>3, <1>4 DEF TurnStep

\* A restart is the contract's crash.
LEMMA RestartContract == Restart => Contract!ContractCrash
<1> SUFFICES ASSUME Restart PROVE Contract!ContractCrash
  OBVIOUS
<1>1. \A t \in Turns : PhaseOf(pc'[t], call'[t]) = Contract!Idle
  BY PhasesOfPlaces DEF Restart
<1> QED BY <1>1 DEF Restart, Phase, Contract!ContractCrash

\* Every step maps to a step of the contract or to a stutter.
LEMMA StepContract ==
  ASSUME IInv, [Next]_vars
  PROVE  [Contract!ContractNext]_(Contract!contractVars)
<1>1. CASE \E t \in Turns : TurnStep(t) \/ \E c \in Calls : Call(t, c)
  BY <1>1, TurnContract
<1>2. CASE \E id \in DOMAIN requests, ok, marks \in BOOLEAN : Resume(id, ok, marks)
  BY <1>2, ResumeContract
<1>3. CASE (\E id \in DOMAIN requests : GrowOld(id)) \/ UNCHANGED vars
  BY <1>3 DEF GrowOld, vars, Phase, Contract!contractVars
<1>4. CASE Restart
  BY <1>4, RestartContract DEF Contract!ContractNext
<1> QED BY <1>1, <1>2, <1>3, <1>4 DEF Next

\* Event mode implements the approval contract, although an approved call runs
\* past the gate and its grant stays in the store, where no call finds it.
THEOREM Refinement == Spec => ImplementsContract
<1>1. Init => Contract!ContractInit
  BY PhasesOfPlaces DEF Init, Phase, Contract!ContractInit
<1>2. IInv /\ [Next]_vars => [Contract!ContractNext]_(Contract!contractVars)
  BY StepContract
<1> QED BY <1>1, Invariance, <1>2, PTL
           DEF Spec, ImplementsContract, Contract!ContractSpec
=============================================================================
