------------------------------ MODULE JobPromise ------------------------------
(***************************************************************************)
(* What the queue of packages/jobs promises to a caller of enqueue, with   *)
(* leases, owners, clocks, batches and process crashes hidden: an accepted *)
(* job stays pending while its failed attempts are counted one by one, and *)
(* it ends exactly once, completed or in the dead letter.                  *)
(***************************************************************************)
EXTENDS Integers

CONSTANTS
  Job,          \* job identifiers
  MaxAttempts   \* attempts after which a failing job is given up

VARIABLES
  promise,      \* what the caller may rely on for each job
  counted       \* failed or completed attempts the queue has counted

vars == <<promise, counted>>

Settled == {"completed", "deadLetter"}

Init ==
  /\ promise = [j \in Job |-> "absent"]
  /\ counted = [j \in Job |-> 0]

Accept(j) ==
  /\ promise[j] = "absent"
  /\ promise' = [promise EXCEPT ![j] = "pending"]
  /\ UNCHANGED counted

Complete(j) ==
  /\ promise[j] = "pending"
  /\ promise' = [promise EXCEPT ![j] = "completed"]
  /\ counted' = [counted EXCEPT ![j] = counted[j] + 1]

\* A failed attempt is counted; the last one allowed ends the job.
Fail(j) ==
  /\ promise[j] = "pending"
  /\ counted' = [counted EXCEPT ![j] = counted[j] + 1]
  /\ promise' = [promise EXCEPT ![j] =
                   IF counted[j] + 1 >= MaxAttempts THEN "deadLetter" ELSE "pending"]

Next == \E j \in Job : Accept(j) \/ Complete(j) \/ Fail(j)

Spec == Init /\ [][Next]_vars

===============================================================================
