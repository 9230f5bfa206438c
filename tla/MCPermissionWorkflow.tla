------------------------ MODULE MCPermissionWorkflow ------------------------
\* PermissionWorkflow for TLC: the gate of a session and the registry's own
\* gate, whose context names no session and no user.
EXTENDS PermissionWorkflow

CONSTANTS s1, u1

SessionAndBase == {[session |-> s1, user |-> u1],
                   [session |-> Nobody, user |-> Nobody]}

Options == {[scope |-> "once", ttl |-> 0, uses |-> 0],
            [scope |-> "once", ttl |-> 1, uses |-> 2],
            [scope |-> "session", ttl |-> 0, uses |-> 0],
            [scope |-> "session", ttl |-> 1, uses |-> 0],
            [scope |-> "user", ttl |-> 0, uses |-> 2]}
=============================================================================
