----------------------------- MODULE MCActions -----------------------------
EXTENDS RestartButton, TLC

CONSTANTS r1, r2, r3

\* Requests differ in nothing but what happens to them.
RequestSymmetry == Permutations(Requests)
=============================================================================
