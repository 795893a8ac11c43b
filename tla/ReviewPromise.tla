---------------------------- MODULE ReviewPromise ----------------------------
(***************************************************************************)
(* What the owner of a flow is promised about its review: the intent is    *)
(* recorded once, with one review; it is settled once, with one witness    *)
(* hash; and whoever is told of the result is told that review and hash.   *)
(***************************************************************************)
CONSTANTS
  Flow,    \* flow workflows
  Review,  \* identities of reviews
  Hash,    \* hashes of witness nodes
  None     \* no review, no hash

VARIABLES
  outcome,  \* what is known of each flow's review
  answers   \* the results its owner has been told

vars == <<outcome, answers>>

Draft == [stage |-> "draft", review |-> None, hash |-> None]

Init ==
  /\ outcome = [f \in Flow |-> Draft]
  /\ answers = [f \in Flow |-> {}]

\* The intent to have the flow reviewed, and its review, are on record.
Intend(f) ==
  /\ outcome[f].stage = "draft"
  /\ \E v \in Review :
       outcome' = [outcome EXCEPT ![f] = [@ EXCEPT !.stage = "intended", !.review = v]]
  /\ UNCHANGED answers

\* The witness hash is on record.
Settle(f) ==
  /\ outcome[f].stage = "intended"
  /\ \E x \in Hash :
       outcome' = [outcome EXCEPT ![f] = [@ EXCEPT !.stage = "settled", !.hash = x]]
  /\ UNCHANGED answers

\* The owner is told of the review and the hash.
Tell(f) ==
  /\ outcome[f].stage = "settled"
  /\ answers' = [answers EXCEPT
       ![f] = @ \cup {[review |-> outcome[f].review, hash |-> outcome[f].hash]}]
  /\ UNCHANGED outcome

Next == \E f \in Flow : Intend(f) \/ Settle(f) \/ Tell(f)

Spec == Init /\ [][Next]_vars
=============================================================================
