------------------------------ MODULE MCCleanup ------------------------------
EXTENDS Cleanup

CONSTANTS small, medium, large

\* From small, medium is due; from medium, large.
MCTokens == [l \in Langs |-> CASE l = small -> 8 [] l = medium -> 10 [] OTHER -> 12]
=============================================================================
