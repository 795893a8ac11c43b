----------------------------- MODULE MCReviewDesk -----------------------------
EXTENDS ReviewDesk, TLC

CONSTANTS o1, e1, admin, b1, b2, r1, r2, c1

\* One transition of a review, and the first version of a case.
Versions == [id \in Review \cup Case |-> IF id \in Review THEN 2 ELSE 1]

Ask(status, assignee, decides) == [status |-> status, assignee |-> assignee, decides |-> decides]

\* Take it, give it to somebody, and dispose of it, which a new review refuses.
Asks == {Ask("ACKNOWLEDGED", None, FALSE), Ask("ESCALATED", e1, FALSE), Ask("DISPOSED", None, TRUE)}
===============================================================================
