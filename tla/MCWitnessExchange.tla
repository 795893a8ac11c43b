--------------------------- MODULE MCWitnessExchange ---------------------------
EXTENDS WitnessExchange, TLC

CONSTANTS w1, w2, i1, i2, i3

\* Node ids and witnesses mean nothing but whether they are the same.
Symmetry == Permutations(NodeId) \cup Permutations(Witness)
===============================================================================
