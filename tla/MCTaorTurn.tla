------------------------------ MODULE MCTaorTurn ------------------------------
\* TaorTurn for TLC.
EXTENDS TaorTurn
=============================================================================
