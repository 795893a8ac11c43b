----------------------------- MODULE MCFlowReview -----------------------------
(***************************************************************************)
(* Small instances of FlowReview.                                          *)
(***************************************************************************)
EXTENDS FlowReview, TLC

CONSTANTS f1, f2, a1, a2, r1, r2, h1, h2, v1, v2

\* Requests, actors, hosts and review identities are interchangeable.
Symmetry == Permutations(Request) \cup Permutations(Review)
              \cup Permutations(Actor) \cup Permutations(Host)

\* Every call may fail but the write of the DAG's file.
AllButSave == Step \ {"save"}
===============================================================================
