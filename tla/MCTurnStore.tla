---------------------------- MODULE MCTurnStore ----------------------------
EXTENDS TurnStore
=============================================================================
