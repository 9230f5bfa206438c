-------------------------- MODULE MCEventApproval --------------------------
\* Instances of EventApproval for TLC: the turns of one session, which share the
\* request ids of equal calls.
EXTENDS EventApproval

CONSTANTS t1, t2, alice

OneSession == [t \in Turns |-> alice]
=============================================================================
