---------------------------- MODULE Reliability ----------------------------
(***************************************************************************)
(* The reliability monitor as start.ts wires it: FlameBreaker (reliability *)
(* /flameBreaker.ts) keeps a breaker for each operation and tells every    *)
(* transition to AntibodyPolicy (antibody/antibodyPolicy.ts), which        *)
(* proposes a rule to AntibodyRepository (antibody/antibodyRepository.ts). *)
(* An operator approves, activates and rejects rules at any time.          *)
(*                                                                         *)
(* A breaker learns that its cooldown is over when it is next used, and    *)
(* reports it to the audit store first. The audit store refuses an entry   *)
(* that allows automatic retries by throwing, which is what a probe of an  *)
(* operation that is not destructive does: that use of the breaker ends    *)
(* there, with the breaker half open.                                      *)
(***************************************************************************)
EXTENDS Integers, Sequences

CONSTANTS Keys, Threshold, Cooldown, Probes,
          RuleLife,    \* expiresAfterMs of a rule
          MaxTime, MaxFailures, MaxRules   \* bounds

ASSUME BreakerAssumption == /\ Threshold \in Nat \ {0}
                            /\ Cooldown \in Nat \ {0}
                            /\ Probes \in Nat \ {0}
ASSUME RuleAssumption == RuleLife \in Nat /\ MaxTime \in Nat /\ MaxRules \in Nat

VARIABLES now, breaker, rules

vars == <<now, breaker, rules>>

States == {"closed", "open", "half_open"}
Never == -1   \* openedAt is undefined
Record == [state : States, failures : Nat, successes : Nat, openedAt : Nat \cup {Never},
           destructive : BOOLEAN]

Closed(destructive) == [state |-> "closed", failures |-> 0, successes |-> 0,
                        openedAt |-> Never, destructive |-> destructive]

\* A pattern names the operation and why its breaker opened.
Patterns == Keys \X {"failure_threshold_exceeded", "half_open_probe_failed"}
Recommendations == {"fallback:breaker_open", "other"}
Statuses == {"proposed", "approved", "active", "rejected", "expired"}
Rule == [pattern : Patterns, recommendation : Recommendations, status : Statuses,
         expiresAt : Nat]

Init == /\ now = 0
        /\ \E kind \in [Keys -> BOOLEAN] : breaker = [k \in Keys |-> Closed(kind[k])]
        /\ rules = <<>>
-----------------------------------------------------------------------------
Cooled(r) == r.state = "open" /\ r.openedAt # Never /\ now - r.openedAt >= Cooldown

\* Mutant: the successes of an earlier probe count for the next one.
RefreshedKeeping(r) == IF Cooled(r) THEN [r EXCEPT !.state = "half_open",
                                                   !.successes = Probes - 1] ELSE r

\* refreshCooldown, which every use of a breaker begins with.
Refreshed(r) == IF Cooled(r) THEN [r EXCEPT !.state = "half_open", !.successes = 0] ELSE r

\* recordReliabilityDecision throws: canRetryAutomatically is true of a probe.
Refused(r) == Cooled(r) /\ ~r.destructive

Opens(r) == \/ r.state = "half_open"
            \/ r.state = "closed" /\ r.failures + 1 >= Threshold

AfterFailure(r) ==
    [state |-> IF Opens(r) THEN "open" ELSE r.state,
     failures |-> IF r.state = "half_open" THEN Threshold ELSE r.failures + 1,
     successes |-> 0,
     openedAt |-> IF Opens(r) THEN now ELSE r.openedAt,
     destructive |-> r.destructive]

AfterSuccess(r) ==
    CASE r.state = "closed" -> [r EXCEPT !.failures = 0]
      [] r.state = "half_open" /\ r.successes + 1 < Probes ->
             [r EXCEPT !.successes = @ + 1]
      [] r.state = "half_open" /\ r.successes + 1 >= Probes -> Closed(r.destructive)
      [] OTHER -> r

Reason(r) == IF r.state = "half_open" THEN "half_open_probe_failed"
                                      ELSE "failure_threshold_exceeded"

Terminal(rule) == rule.status \in {"expired", "rejected"}

Proposal(pattern, recommendation) ==
    [pattern |-> pattern, recommendation |-> recommendation, status |-> "proposed",
     expiresAt |-> now + RuleLife]

\* observeReliabilityTransition, for a transition to "open".
Observed(pattern) ==
    IF \E i \in DOMAIN rules : /\ rules[i].pattern = pattern
                               /\ rules[i].recommendation = "fallback:breaker_open"
                               /\ ~Terminal(rules[i])
    THEN rules ELSE Append(rules, Proposal(pattern, "fallback:breaker_open"))
-----------------------------------------------------------------------------
Evaluate(k) == /\ breaker' = [breaker EXCEPT ![k] = Refreshed(@)]
               /\ UNCHANGED <<now, rules>>

RecordFailure(k) ==
    LET r == Refreshed(breaker[k]) IN
    \/ Refused(breaker[k]) /\ Evaluate(k)
    \/ /\ ~Refused(breaker[k])
       /\ r.failures < MaxFailures
       /\ breaker' = [breaker EXCEPT ![k] = AfterFailure(r)]
       /\ rules' = IF Opens(r) THEN Observed(<<k, Reason(r)>>) ELSE rules
       /\ Len(rules') <= MaxRules
       /\ UNCHANGED now

RecordSuccess(k) ==
    \/ Refused(breaker[k]) /\ Evaluate(k)
    \/ /\ ~Refused(breaker[k])
       /\ breaker' = [breaker EXCEPT ![k] = AfterSuccess(Refreshed(@))]
       /\ UNCHANGED <<now, rules>>

\* Rules come from elsewhere too: the repository is handed out.
ProposeRule(pattern, recommendation) ==
    /\ Len(rules) < MaxRules
    /\ rules' = Append(rules, Proposal(pattern, recommendation))
    /\ UNCHANGED <<now, breaker>>

SetsStatus(i, status) == /\ rules' = [rules EXCEPT ![i].status = status]
                         /\ UNCHANGED <<now, breaker>>

\* approveRule and rejectRule look at no status.
ApproveRule(i) == SetsStatus(i, "approved")
RejectRule(i) == SetsStatus(i, "rejected")

Conflict(i) == \E j \in DOMAIN rules \ {i} :
                   /\ rules[j].status = "active"
                   /\ rules[j].pattern = rules[i].pattern
                   /\ rules[j].recommendation # rules[i].recommendation

\* Mutant: a conflict is looked for among the rules that are only approved.
ActivateBesideActive(i) ==
    rules[i].status \in {"approved", "active"} /\ SetsStatus(i, "active")

\* activateRule: a conflict rejects a rule of any status; one that is not
\* approved is refused by an exception, which changes nothing.
ActivateRule(i) == \/ Conflict(i) /\ SetsStatus(i, "rejected")
                   \/ /\ ~Conflict(i) /\ rules[i].status \in {"approved", "active"}
                      /\ SetsStatus(i, "active")

\* evaluate() of a pattern marks what is due first.
ExpireDueRules ==
    /\ rules' = [i \in DOMAIN rules |->
                    IF ~Terminal(rules[i]) /\ rules[i].expiresAt <= now
                    THEN [rules[i] EXCEPT !.status = "expired"] ELSE rules[i]]
    /\ UNCHANGED <<now, breaker>>

Tick == now < MaxTime /\ now' = now + 1 /\ UNCHANGED <<breaker, rules>>

UsesBreaker == \E k \in Keys : Evaluate(k) \/ RecordFailure(k) \/ RecordSuccess(k)
UsesRules == \/ \E p \in Patterns, r \in Recommendations : ProposeRule(p, r)
             \/ \E i \in DOMAIN rules : ApproveRule(i) \/ RejectRule(i) \/ ActivateRule(i)
             \/ ExpireDueRules

Next == UsesBreaker \/ UsesRules \/ Tick

Spec == Init /\ [][Next]_vars
-----------------------------------------------------------------------------
\* The breakers with a clock: one whose cooldown is over probes already.
Phase(r) == IF Cooled(r) THEN "half_open" ELSE r.state
Streak(r) == CASE r.state = "closed" -> r.failures
               [] r.state = "half_open" -> r.successes
               [] OTHER -> 0
Remaining(r) == IF Phase(r) = "open" THEN Cooldown - (now - r.openedAt) ELSE 0

Contract == INSTANCE BreakerContract
                WITH phase <- [k \in Keys |-> Phase(breaker[k])],
                     streak <- [k \in Keys |-> Streak(breaker[k])],
                     wait <- [k \in Keys |-> Remaining(breaker[k])]

\* AntibodyRepository.activateRule: whatever is approved, rejected, expired and
\* activated again, two active rules never give one pattern different advice.
NoConflictingAdvice ==
    \A i, j \in DOMAIN rules :
        /\ rules[i].status = "active" /\ rules[j].status = "active"
        /\ rules[i].pattern = rules[j].pattern
        => rules[i].recommendation = rules[j].recommendation

\* Types of the state.
TypeOK == /\ now \in 0..MaxTime
          /\ breaker \in [Keys -> Record]
          /\ rules \in Seq(Rule)
=============================================================================
