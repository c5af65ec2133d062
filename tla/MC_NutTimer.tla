---------------------------- MODULE MC_NutTimer ----------------------------
EXTENDS NutTimer, TLC

CONSTANTS x1, x2, x3

\* The timers from the heap are interchangeable.
MCSymmetry == Permutations({x1, x2})
=============================================================================
