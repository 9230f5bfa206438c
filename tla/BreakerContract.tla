-------------------------- MODULE BreakerContract --------------------------
(***************************************************************************)
(* What a circuit breaker promises for each operation, as seen by someone  *)
(* with a clock: it opens after Threshold failures in a row, probes when   *)
(* Cooldown is over, and closes after Probes successes in a row.           *)
(***************************************************************************)
EXTENDS Naturals

CONSTANTS Keys, Threshold, Cooldown, Probes

VARIABLES phase,    \* of each operation: "closed", "open" or "half_open"
          streak,   \* failures in a row while closed, successes while probing
          wait      \* time until an open breaker probes

contractVars == <<phase, streak, wait>>

Init == /\ phase = [k \in Keys |-> "closed"]
        /\ streak = [k \in Keys |-> 0]
        /\ wait = [k \in Keys |-> 0]

Becomes(k, p, s, w) == /\ phase' = [phase EXCEPT ![k] = p]
                       /\ streak' = [streak EXCEPT ![k] = s]
                       /\ wait' = [wait EXCEPT ![k] = w]

Fails(k) ==
    \/ /\ phase[k] = "closed" /\ streak[k] + 1 < Threshold
       /\ Becomes(k, "closed", streak[k] + 1, 0)
    \/ /\ \/ phase[k] = "closed" /\ streak[k] + 1 >= Threshold
          \/ phase[k] = "half_open"
       /\ Becomes(k, "open", 0, Cooldown)

Succeeds(k) ==
    \/ /\ \/ phase[k] = "closed"
          \/ phase[k] = "half_open" /\ streak[k] + 1 >= Probes
       /\ Becomes(k, "closed", 0, 0)
    \/ /\ phase[k] = "half_open" /\ streak[k] + 1 < Probes
       /\ Becomes(k, "half_open", streak[k] + 1, 0)

\* Time passes for every breaker alike.
Passes == /\ phase' = [k \in Keys |-> IF phase[k] = "open" /\ wait[k] <= 1
                                      THEN "half_open" ELSE phase[k]]
          /\ wait' = [k \in Keys |-> IF wait[k] > 0 THEN wait[k] - 1 ELSE 0]
          /\ UNCHANGED streak

Next == Passes \/ \E k \in Keys : Fails(k) \/ Succeeds(k)

Spec == Init /\ [][Next]_contractVars
=============================================================================
