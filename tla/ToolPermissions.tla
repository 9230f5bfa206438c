--------------------------- MODULE ToolPermissions ---------------------------
(***************************************************************************)
(* What may run: ToolRegistry.execute (tools/toolExecutor.ts) with the     *)
(* channel policy (permissions/permissionPolicyEngine.ts), the risk scorer *)
(* and the permission gate (permissions/permissionGate.ts), and the two    *)
(* ways an approved call is run: promise mode executes it again under a    *)
(* grant, event mode runs it without permission.                           *)
(*                                                                         *)
(* Only the built-in tools are registered. A call is known by its tool and *)
(* what the scorer and the gate read off its parameters.                   *)
(***************************************************************************)
EXTENDS Integers, FiniteSets

CONSTANTS Calls,       \* see CallRecord
          Policies,    \* see PolicyRecord: what each policy says of the channel
          Modes,       \* the permission modes the process may be started with
          Cwd,         \* the risk of the working directory, 0 or 3
          Whitelist,   \* toolWhitelist, for restricted mode
          Trusting     \* there are trusted directories, for sandbox mode

Tools == {"read_file", "write_file", "execute_command", "http_request"}
CallRecord == [tool : Tools,
               severity : 0..10,      \* of the worst pattern its command matches
               system : BOOLEAN,      \* its command names a system path
               remote : BOOLEAN,      \* its URL is of another host
               safe : BOOLEAN,        \* its command is one the sandbox accepts
               outside : BOOLEAN]     \* its path is in no trusted directory
PolicyRecord == [blocked : SUBSET Tools,      \* for the channel or for the user
                 categories : SUBSET {"read", "write", "execute", "network"},
                 files : BOOLEAN, shell : BOOLEAN]

VARIABLES mode,       \* the registry's mode; every gate is made with it
          approvalMode, \* "promise" or "event"
          policy,     \* the engine in force
          asking,     \* calls whose confirmation is awaited
          grants,     \* calls with an unused grant that their tool would find
          approved,   \* calls somebody has approved (history)
          ran         \* what has run: the call, by which way, under which policy (history)

vars == <<mode, approvalMode, policy, asking, grants, approved, ran>>

Init == /\ mode \in Modes /\ approvalMode \in {"promise", "event"}
        /\ policy \in Policies
        /\ asking = {} /\ grants = {} /\ approved = {} /\ ran = {}
-----------------------------------------------------------------------------
BaseLevel(t) == CASE t = "read_file" -> 1       [] t = "write_file" -> 3
                  [] t = "http_request" -> 4    [] t = "execute_command" -> 6

\* RiskScorer.assess: the greatest of what counts against the call.
Level(c) == LET marks == {BaseLevel(c.tool), c.severity, Cwd}
                         \cup (IF c.system THEN {6} ELSE {})
                         \cup (IF c.remote THEN {5} ELSE {})
            IN CHOOSE m \in marks : \A n \in marks : n <= m

Dangerous(c) == Level(c) >= 7

Category(t) == CASE t = "read_file" -> "read"           [] t = "write_file" -> "write"
                 [] t = "execute_command" -> "execute"  [] t = "http_request" -> "network"

\* evaluate: what the registry uses of it is whether the call is allowed. The
\* approval threshold, the effective mode and groups have no effect.
Allows(p, c) == /\ c.tool \notin p.blocked
                /\ Category(c.tool) \in p.categories
                /\ Category(c.tool) = "write" => p.files
                /\ Category(c.tool) = "execute" => p.shell
-----------------------------------------------------------------------------
Default(c) == CASE c.tool = "read_file" -> "approve"
                [] c.tool = "execute_command" /\ Dangerous(c) -> "refuse"
                [] OTHER -> "confirm"

Plan(c) == IF c.tool \in {"read_file", "http_request"} THEN "approve" ELSE "refuse"

Auto(c) == CASE Level(c) <= 3 -> "approve"
             [] Level(c) \in 4..6 -> "confirm"
             [] OTHER -> "refuse"

Sandbox(c) == CASE c.tool = "read_file" -> "approve"
                [] Trusting /\ c.outside -> "refuse"
                [] c.tool = "execute_command" /\ c.safe /\ ~Dangerous(c) -> "approve"
                [] c.tool = "http_request" -> "confirm"
                [] OTHER -> "refuse"

Restricted(c) == IF c.tool \in Whitelist THEN "approve" ELSE "refuse"

\* check: a grant comes before the mode, even in plan mode.
Check(c, granted) ==
    CASE granted -> "approve"
      [] mode = "bypass" -> "approve"
      [] mode = "plan" -> Plan(c)
      [] mode = "sandbox" -> Sandbox(c)
      [] mode = "restricted" -> Restricted(c)
      [] mode = "interactive" -> "confirm"
      [] mode = "auto" -> Auto(c)
      [] OTHER -> Default(c)

\* Mutant: a call that needs a confirmation is asked for whatever its risk.
AsksFirst(c, granted) ==
    CASE mode = "bypass" -> "approve"
      [] Check(c, granted) = "confirm" -> "confirm"
      [] Level(c) >= 9 -> "refuse"
      [] OTHER -> Check(c, granted)

\* checkAsync: in bypass mode nothing is looked at; otherwise a risk of nine is
\* refused before anything else, a grant notwithstanding.
CheckAsync(c, granted) ==
    CASE mode = "bypass" -> "approve"
      [] Level(c) >= 9 -> "refuse"
      [] OTHER -> Check(c, granted)

\* read_file asks check itself, and whatever is not approved it refuses.
Verdict(c, granted) ==
    IF c.tool # "read_file" THEN CheckAsync(c, granted)
    ELSE IF Check(c, granted) = "approve" THEN "approve" ELSE "refuse"

\* check uses up the grant it finds; bypass mode never looks for one, except
\* for read_file, whose check comes first.
UsedUp(c) == IF mode = "bypass" /\ c.tool # "read_file" THEN {} ELSE {c}

Ran(c, way) == ran' = ran \cup {[call |-> c, way |-> way, policy |-> policy]}

\* execute: the policy first, then the gate of the tool.
Runs(c, gs) ==
    /\ Allows(policy, c)
    /\ Verdict(c, c \in gs) = "approve"
    /\ Ran(c, "gate") /\ grants' = gs \ UsedUp(c)

Refused(c, gs) ==
    \/ ~Allows(policy, c) /\ grants' = gs
    \/ Allows(policy, c) /\ Verdict(c, c \in gs) # "approve" /\ grants' = gs \ UsedUp(c)
-----------------------------------------------------------------------------
Asks(c, gs) == Allows(policy, c) /\ Verdict(c, c \in gs) = "confirm"

\* A call that asks joins the calls that wait for an answer.
Execute(c, gs, waiting) ==
    \/ Runs(c, gs) /\ asking' = waiting
    \/ /\ Refused(c, gs) /\ UNCHANGED ran
       /\ asking' = IF Asks(c, gs) THEN waiting \cup {c} ELSE waiting

Call(c) == /\ Execute(c, grants, asking)
           /\ UNCHANGED <<mode, approvalMode, policy, approved>>

\* The answer comes: a grant is registered for the call without its working
\* directory, so the tool finds it or does not; then promise mode executes the
\* call again, event mode runs it past the policy and the gate.
Approve(c) ==
    /\ c \in asking /\ approved' = approved \cup {c}
    /\ \E gs \in {grants, grants \cup {c}} :
          \/ approvalMode = "promise" /\ Execute(c, gs, asking \ {c})
          \/ /\ approvalMode = "event" /\ Ran(c, "approved")
             /\ grants' = gs /\ asking' = asking \ {c}
    /\ UNCHANGED <<mode, approvalMode, policy>>

Deny(c) == /\ c \in asking /\ asking' = asking \ {c}
           /\ UNCHANGED <<mode, approvalMode, policy, grants, approved, ran>>

\* reloadPermissionPolicyFixture; one that fails changes nothing.
Reload(p) == /\ policy' = p
             /\ UNCHANGED <<mode, approvalMode, asking, grants, approved, ran>>

Next == \/ \E c \in Calls : Call(c) \/ Approve(c) \/ Deny(c)
        \/ \E p \in Policies : Reload(p)

Spec == Init /\ [][Next]_vars
-----------------------------------------------------------------------------
\* Outside bypass mode no tool but read_file runs with a risk of nine or more,
\* whoever approved it and however policies were replaced; what runs through the
\* gate is allowed by the policy in force as it runs; and what the mode itself
\* would not have approved was approved by somebody, word for word.
RunsAreWarranted ==
    \A r \in ran :
        /\ mode # "bypass" /\ r.call.tool # "read_file" => Level(r.call) < 9
        /\ r.way = "gate" => Allows(r.policy, r.call)
        /\ Verdict(r.call, FALSE) # "approve" => r.call \in approved

\* Types of the state.
TypeOK == /\ mode \in Modes /\ approvalMode \in {"promise", "event"}
          /\ policy \in Policies
          /\ asking \subseteq Calls /\ grants \subseteq Calls /\ approved \subseteq Calls
          /\ \A r \in ran : r.call \in Calls /\ r.way \in {"gate", "approved"}
                            /\ r.policy \in Policies
=============================================================================
