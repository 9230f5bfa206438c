-------------------------- MODULE MCPromiseApproval --------------------------
\* Instances of PromiseApproval for TLC: the turns of one session, which share the
\* request ids of equal calls.
EXTENDS PromiseApproval

CONSTANTS t1, t2, alice

OneSession == [t \in Turns |-> alice]
=============================================================================
