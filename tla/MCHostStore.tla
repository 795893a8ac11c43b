------------------------------ MODULE MCHostStore ------------------------------
EXTENDS HostStore, TLC

CONSTANTS c1, c2, p1, k1

\* Two saves of one case and one put of the same record.
OneKey == [r \in Request |-> k1]
===============================================================================
