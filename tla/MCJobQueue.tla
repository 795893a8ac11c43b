------------------------------ MODULE MCJobQueue ------------------------------
(***************************************************************************)
(* Small instances of JobQueue.                                            *)
(***************************************************************************)
EXTENDS JobQueue

CONSTANTS j1, j2, c1, c2, w1, w2, p1, p2, drain1

\* One poll loop per process.
OwnerOfPoll == [l \in {p1, p2} |-> IF l = p1 THEN w1 ELSE w2]

\* A drain request beside the poll loop of the first process.
OwnerOfDrain == [l \in {p1, drain1} |-> w1]

\* Each key has one producer.
OwnKeys == [c \in {c1, c2} |-> IF c = c1 THEN {j1} ELSE {j2}]

\* Two producers of the same keys.
SharedKeys == [c \in {c1, c2} |-> {j1}]

===============================================================================
