-------------------------- MODULE MCCollaboration --------------------------
EXTENDS Collaboration

\* Suggestions and clicks are interchangeable (used for safety only).
Symmetry == Permutations(Suggestions) \cup Permutations(Clicks)
=============================================================================
