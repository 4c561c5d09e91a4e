--------------------------- MODULE MCLegislature ---------------------------
EXTENDS Legislature

\* A suite of two benchmarks with one critical atom each.
MCBenchOf == <<0, 1>>

\* A suite of one benchmark with one critical atom.
MCOneBench == <<0>>
=============================================================================
