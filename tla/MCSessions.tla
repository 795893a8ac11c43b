------------------------------ MODULE MCSessions ------------------------------
EXTENDS Sessions, TLC

CONSTANTS h1, h2, u1, ra, rb, a1, a2, c1, c2, c3

\* Hosts, rids and administrators may be exchanged.
Exchanges == Permutations(Host) \cup Permutations(Rid) \cup Permutations(Admin) \cup Permutations(Client)
===============================================================================
