---------------------------- MODULE MCKeyedRequests ----------------------------
EXTENDS KeyedRequests, TLC

CONSTANTS r1, r2, r3, k1, k2

\* The requests differ in nothing but their names.
RequestSymmetry == Permutations(Request)
===============================================================================
