--------------------------- MODULE FlowReviewProofs ---------------------------
(***************************************************************************)
(* Theorems about FlowReview for any set of flows, actors, requests and    *)
(* hosts, and any number of failures and restarts; and, for a single host, *)
(* about the node that witnesses a settled flow.                           *)
(***************************************************************************)
EXTENDS FlowReview, TLAPS

\* The three shapes of a flow: its version tells its status.
FlowsAreShaped ==
  \A f \in Flow :
    \/ flow[f] = DraftFlow
    \/ /\ flow[f].status = "WITNESS_PENDING"
       /\ flow[f].version = 2
       /\ flow[f].review \in Review
       /\ flow[f].hash = None
    \/ /\ flow[f].status = "REVIEW_REQUIRED"
       /\ flow[f].version = 3
       /\ flow[f].review \in Review
       /\ flow[f].hash \in Hash

\* What a handler holds in memory is what it read, or wrote, and still true: in
\* particular the version it expects is one at which nothing can have changed
\* that it relies on.
MemoryIsTrue(r) ==
  LET at == act[r]
      w == flow[at.flow]
  IN /\ at.step \in {"lock", "read"} => at.review = None /\ at.hash = None
     /\ at.step = "intent" => at.version = 1
     /\ at.step \in {"witness", "save", "project", "settle"} =>
          at.version = 2 /\ w.status # "DRAFT" /\ at.review = w.review
     /\ at.step \in {"save", "project", "settle"} => at.hash \in Hash
     /\ at.step = "record" => \/ at.review = None /\ at.hash = None
                              \/ at.review \in Review /\ at.hash \in Hash

MemoriesAreTrue == \A r \in Request : act[r] # None => MemoryIsTrue(r)

\* A host that is down has a restart left.
DownHostsMayRestart == \A h \in Host : h \notin up => boots[h] < MaxBoots

\* IntentIsWhole and RecordedResultHolds are not inductive: they rest on what
\* requests hold in memory, and on versions that tell the status.
FlowInv ==
  /\ TypeOK
  /\ FlowsAreShaped
  /\ IntentIsWhole
  /\ IntentBeforeWitness
  /\ MemoriesAreTrue
  /\ RecordedResultHolds
  /\ DownHostsMayRestart

\* The fields of a handler that is at work.
LEMMA WorkIsTyped ==
  ASSUME TypeOK, NEW r \in Request, act[r] # None
  PROVE  /\ act[r] \in Activity
         /\ act[r].flow \in Flow
         /\ act[r].host \in Host
         /\ KeyOf(r) \in Key
  BY DEF TypeOK, Activity, KeyOf, Key

LEMMA FlowInit == Init => FlowInv
  <1> SUFFICES ASSUME Init PROVE FlowInv
    OBVIOUS
  <1> USE FlowAssumption DEF Init
  <1>1. TypeOK
    BY DEF TypeOK, DraftFlow, EmptyDag, Dag
  <1>2. FlowsAreShaped /\ IntentIsWhole
    BY DEF FlowsAreShaped, IntentIsWhole, DraftFlow
  <1>3. IntentBeforeWitness
    BY DEF IntentBeforeWitness, EmptyDag
  <1>4. MemoriesAreTrue /\ DownHostsMayRestart
    BY DEF MemoriesAreTrue, DownHostsMayRestart
  <1>5. RecordedResultHolds
    BY DEF RecordedResultHolds, At
  <1>6. QED
    BY <1>1, <1>2, <1>3, <1>4, <1>5 DEF FlowInv

LEMMA ReceiveStep ==
  ASSUME FlowInv, NEW r \in Request, NEW a \in Actor, NEW h \in Host, NEW f \in Flow, Receive(r, a, h, f)
  PROVE  FlowInv'
  <1> USE FlowAssumption DEF FlowInv, Receive, database, hosts
  <1>1. TypeOK'
    BY DEF TypeOK, Activity, Dag, EmptyDag, Key, KeyOf, ResultOf, Incomplete, Step, At, Leave, Tell, FlowsAreShaped, MemoriesAreTrue, MemoryIsTrue
  <1>2. FlowsAreShaped'
    BY DEF FlowsAreShaped, MemoriesAreTrue, MemoryIsTrue, TypeOK, Activity, Dag, EmptyDag, Key, KeyOf, ResultOf, Incomplete, Step, At, Leave, Tell, Accepts, DraftFlow
  <1>3. IntentIsWhole'
    BY DEF IntentIsWhole, FlowsAreShaped, MemoriesAreTrue, MemoryIsTrue, TypeOK, Activity, Dag, EmptyDag, Key, KeyOf, ResultOf, Incomplete, Step, At, Leave, Tell, Accepts, Intent, Witnessed, DraftFlow
  <1>4. IntentBeforeWitness'
    BY DEF IntentBeforeWitness, MemoriesAreTrue, MemoryIsTrue, TypeOK, Activity, Dag, EmptyDag, Key, KeyOf, ResultOf, Incomplete, Step, At, Leave, Tell, Accepts
  <1>5. MemoriesAreTrue'
    BY DEF MemoriesAreTrue, MemoryIsTrue, FlowsAreShaped, TypeOK, Activity, Dag, EmptyDag, Key, KeyOf, ResultOf, Incomplete, Step, At, Leave, Tell, Accepts, DraftFlow
  <1>6. RecordedResultHolds'
    BY DEF RecordedResultHolds, SettledWith, MemoriesAreTrue, MemoryIsTrue, FlowsAreShaped, TypeOK, Activity, Dag, EmptyDag, Key, KeyOf, ResultOf, Incomplete, Step, At, Leave, Tell, Accepts, DraftFlow
  <1>7. DownHostsMayRestart'
    BY DEF DownHostsMayRestart, TypeOK
  <1>8. QED
    BY <1>1, <1>2, <1>3, <1>4, <1>5, <1>6, <1>7

LEMMA ReplayStep ==
  ASSUME FlowInv, NEW r \in Request, Replay(r)
  PROVE  FlowInv'
  <1> USE FlowAssumption DEF FlowInv, Replay, database, hosts
  <1>1. TypeOK'
    BY DEF TypeOK, Activity, Dag, EmptyDag, Key, KeyOf, ResultOf, Incomplete, Step, At, Leave, Tell, FlowsAreShaped, MemoriesAreTrue, MemoryIsTrue
  <1>2. FlowsAreShaped'
    BY DEF FlowsAreShaped, MemoriesAreTrue, MemoryIsTrue, TypeOK, Activity, Dag, EmptyDag, Key, KeyOf, ResultOf, Incomplete, Step, At, Leave, Tell, Accepts, DraftFlow
  <1>3. IntentIsWhole'
    BY DEF IntentIsWhole, FlowsAreShaped, MemoriesAreTrue, MemoryIsTrue, TypeOK, Activity, Dag, EmptyDag, Key, KeyOf, ResultOf, Incomplete, Step, At, Leave, Tell, Accepts, Intent, Witnessed, DraftFlow
  <1>4. IntentBeforeWitness'
    BY DEF IntentBeforeWitness, MemoriesAreTrue, MemoryIsTrue, TypeOK, Activity, Dag, EmptyDag, Key, KeyOf, ResultOf, Incomplete, Step, At, Leave, Tell, Accepts
  <1>5. MemoriesAreTrue'
    BY DEF MemoriesAreTrue, MemoryIsTrue, FlowsAreShaped, TypeOK, Activity, Dag, EmptyDag, Key, KeyOf, ResultOf, Incomplete, Step, At, Leave, Tell, Accepts, DraftFlow
  <1>6. RecordedResultHolds'
    BY DEF RecordedResultHolds, SettledWith, MemoriesAreTrue, MemoryIsTrue, FlowsAreShaped, TypeOK, Activity, Dag, EmptyDag, Key, KeyOf, ResultOf, Incomplete, Step, At, Leave, Tell, Accepts, DraftFlow
  <1>7. DownHostsMayRestart'
    BY DEF DownHostsMayRestart, TypeOK
  <1>8. QED
    BY <1>1, <1>2, <1>3, <1>4, <1>5, <1>6, <1>7

LEMMA LockStep ==
  ASSUME FlowInv, NEW r \in Request, Lock(r)
  PROVE  FlowInv'
  <1> USE FlowAssumption DEF FlowInv, Lock, database, hosts
  <1>1. TypeOK'
    <2>1. act[r] # None
      BY DEF At
    <2>2. /\ act[r] \in Activity
          /\ act[r].flow \in Flow
          /\ act[r].host \in Host
          /\ KeyOf(r) \in Key
      BY <2>1, WorkIsTyped
    <2>3. act'[r] \in Activity
      BY <2>2 DEF TypeOK, At, Activity, Step
    <2>4. act' \in [Request -> Activity \cup {None}]
      BY <2>3 DEF TypeOK
    <2>5. holder' \in [Key -> Request \cup {None}]
      BY <2>2 DEF TypeOK
    <2>9. QED
      BY <2>4, <2>5 DEF TypeOK
  <1>2. FlowsAreShaped'
    BY DEF FlowsAreShaped, MemoriesAreTrue, MemoryIsTrue, TypeOK, Activity, Dag, EmptyDag, Key, KeyOf, ResultOf, Incomplete, Step, At, Leave, Tell, Accepts, DraftFlow
  <1>3. IntentIsWhole'
    BY DEF IntentIsWhole, FlowsAreShaped, MemoriesAreTrue, MemoryIsTrue, TypeOK, Activity, Dag, EmptyDag, Key, KeyOf, ResultOf, Incomplete, Step, At, Leave, Tell, Accepts, Intent, Witnessed, DraftFlow
  <1>4. IntentBeforeWitness'
    BY DEF IntentBeforeWitness, MemoriesAreTrue, MemoryIsTrue, TypeOK, Activity, Dag, EmptyDag, Key, KeyOf, ResultOf, Incomplete, Step, At, Leave, Tell, Accepts
  <1>5. MemoriesAreTrue'
    BY DEF MemoriesAreTrue, MemoryIsTrue, FlowsAreShaped, TypeOK, Activity, Dag, EmptyDag, Key, KeyOf, ResultOf, Incomplete, Step, At, Leave, Tell, Accepts, DraftFlow
  <1>6. RecordedResultHolds'
    BY DEF RecordedResultHolds, SettledWith, MemoriesAreTrue, MemoryIsTrue, FlowsAreShaped, TypeOK, Activity, Dag, EmptyDag, Key, KeyOf, ResultOf, Incomplete, Step, At, Leave, Tell, Accepts, DraftFlow
  <1>7. DownHostsMayRestart'
    BY DEF DownHostsMayRestart, TypeOK
  <1>8. QED
    BY <1>1, <1>2, <1>3, <1>4, <1>5, <1>6, <1>7

LEMMA ReadFlowStep ==
  ASSUME FlowInv, NEW r \in Request, ReadFlow(r)
  PROVE  FlowInv'
  <1> USE FlowAssumption DEF FlowInv, database, hosts
  <1> DEFINE w == flow[act[r].flow]
  <1>1. /\ act[r] # None
        /\ act[r].step = "read"
        /\ act[r] \in Activity
        /\ act[r].flow \in Flow
    BY WorkIsTyped DEF ReadFlow, At
  <1>2. w.version \in Nat /\ w.review \in Review \cup {None} /\ w.hash \in Hash \cup {None}
    BY <1>1 DEF TypeOK
  <1>3. PICK at \in Activity :
          /\ act' = [act EXCEPT ![r] = at]
          /\ at.flow = act[r].flow /\ at.snapshot = act[r].snapshot
          /\ \/ at.step = "intent" /\ w.status = "DRAFT" /\ at.version = w.version
             \/ /\ at.step = "witness" /\ w.status = "WITNESS_PENDING"
                /\ at.version = w.version /\ at.review = w.review
             \/ /\ at.step = "record" /\ w.status = "REVIEW_REQUIRED"
                /\ at.review = w.review /\ at.hash = w.hash
             \/ at.step = "record" /\ at.review = None /\ at.hash = None
    <2>1. act[r].review = None /\ act[r].hash = None
      BY <1>1 DEF MemoriesAreTrue, MemoryIsTrue
    <2>2. CASE w.status = "DRAFT"
      <3> DEFINE at == [act[r] EXCEPT !.step = "intent", !.version = w.version]
      <3>1. act' = [act EXCEPT ![r] = at]
        BY <2>2 DEF ReadFlow
      <3>2. at \in Activity /\ at.flow = act[r].flow /\ at.snapshot = act[r].snapshot
            /\ at.step = "intent" /\ at.version = w.version
        BY <1>1, <1>2 DEF Activity, Step
      <3>3. QED
        BY <2>2, <3>1, <3>2
    <2>3. CASE w.status = "WITNESS_PENDING"
      <3> DEFINE at == [act[r] EXCEPT !.step = "witness", !.version = w.version, !.review = w.review]
      <3>1. act' = [act EXCEPT ![r] = at]
        BY <2>3 DEF ReadFlow
      <3>2. at \in Activity /\ at.flow = act[r].flow /\ at.snapshot = act[r].snapshot
            /\ at.step = "witness" /\ at.version = w.version /\ at.review = w.review
        BY <1>1, <1>2 DEF Activity, Step
      <3>3. QED
        BY <2>3, <3>1, <3>2
    <2>4. CASE w.status = "REVIEW_REQUIRED"
      <3> DEFINE found == [act[r] EXCEPT !.step = "record", !.review = w.review, !.hash = w.hash]
                 lost == [act[r] EXCEPT !.step = "record"]
      <3>1. act' = [act EXCEPT ![r] = found] \/ act' = [act EXCEPT ![r] = lost]
        BY <2>4 DEF ReadFlow
      <3>2. found \in Activity /\ found.flow = act[r].flow /\ found.snapshot = act[r].snapshot
            /\ found.step = "record" /\ found.review = w.review /\ found.hash = w.hash
        BY <1>1, <1>2 DEF Activity, Step
      <3>3. lost \in Activity /\ lost.flow = act[r].flow /\ lost.snapshot = act[r].snapshot
            /\ lost.step = "record" /\ lost.review = None /\ lost.hash = None
        BY <1>1, <2>1 DEF Activity, Step
      <3> HIDE DEF found, lost
      <3>4. QED
        BY <2>4, <3>1, <3>2, <3>3
    <2>5. QED
      BY <2>2, <2>3, <2>4 DEF ReadFlow
  <1>4. /\ UNCHANGED <<flow, reviews, events, projected, records, holder>>
        /\ UNCHANGED <<disk, dag, up, boots, answers, faults>>
    BY DEF ReadFlow
  <1>5. TypeOK'
    BY <1>3, <1>4 DEF TypeOK
  <1>6. FlowsAreShaped' /\ IntentIsWhole' /\ DownHostsMayRestart'
    BY <1>4 DEF FlowsAreShaped, IntentIsWhole, DownHostsMayRestart
  <1>7. IntentBeforeWitness'
    BY <1>1, <1>3, <1>4 DEF IntentBeforeWitness, TypeOK
  <1>8. MemoriesAreTrue'
    <2> SUFFICES ASSUME NEW q \in Request, act'[q] # None
                 PROVE  MemoryIsTrue(q)'
      BY DEF MemoriesAreTrue
    <2>1. CASE q = r
      BY <1>1, <1>3, <1>4, <2>1 DEF MemoryIsTrue, FlowsAreShaped, TypeOK, DraftFlow
    <2>2. CASE q # r
      BY <1>3, <1>4, <2>2 DEF MemoriesAreTrue, MemoryIsTrue, TypeOK
    <2>3. QED
      BY <2>1, <2>2
  <1>9. RecordedResultHolds'
    <2>1. ASSUME NEW q \in Request, At(q, "record")', act'[q].hash # None
          PROVE  SettledWith(act[q].flow, ResultOf(q))'
      <3>1. CASE q = r
        BY <1>1, <1>3, <1>4, <2>1, <3>1 DEF SettledWith, ResultOf, At, TypeOK
      <3>2. CASE q # r
        BY <1>3, <1>4, <2>1, <3>2 DEF RecordedResultHolds, SettledWith, ResultOf, At, TypeOK
      <3>3. QED
        BY <3>1, <3>2
    <2>2. QED
      BY <1>4, <2>1 DEF RecordedResultHolds, SettledWith
  <1>10. QED
    BY <1>5, <1>6, <1>7, <1>8, <1>9

LEMMA RecordIntentStep ==
  ASSUME FlowInv, NEW r \in Request, RecordIntent(r)
  PROVE  FlowInv'
  <1> USE FlowAssumption DEF FlowInv, RecordIntent, database, hosts
  <1>1. TypeOK'
    <2>1. act[r] # None
      BY DEF At
    <2>2. act[r] \in Activity /\ act[r].flow \in Flow
      BY <2>1, WorkIsTyped
    <2>3. PICK rev \in Review :
            /\ flow' = [flow EXCEPT ![act[r].flow] =
                 [@ EXCEPT !.status = "WITNESS_PENDING", !.version = act[r].version + 1, !.review = rev]]
            /\ reviews' = [reviews EXCEPT ![act[r].flow] = @ \cup {rev}]
            /\ act' = [act EXCEPT ![r] =
                 [@ EXCEPT !.step = "witness", !.version = act[r].version + 1, !.review = rev]]
      OBVIOUS
    <2>4. act[r].version + 1 \in Nat
      BY <2>2 DEF Activity
    <2>5. [act[r] EXCEPT !.step = "witness", !.version = act[r].version + 1, !.review = rev] \in Activity
      BY <2>2, <2>4 DEF Activity, Step
    <2>6. act' \in [Request -> Activity \cup {None}]
      BY <2>3, <2>5 DEF TypeOK
    <2>7. reviews' \in [Flow -> SUBSET Review]
      BY <2>2, <2>3 DEF TypeOK
    <2>8. events' \in [Flow -> SUBSET ({"INTENT_RECORDED", "WITNESSED"} \X Nat)]
      BY <2>2, <2>4 DEF TypeOK, Intent
    <2>9. flow' \in [Flow -> [status : {"DRAFT", "WITNESS_PENDING", "REVIEW_REQUIRED"},
                              version : Nat, review : Review \cup {None},
                              hash : Hash \cup {None}]]
      <3>1. flow[act[r].flow] \in [status : {"DRAFT", "WITNESS_PENDING", "REVIEW_REQUIRED"},
                                   version : Nat, review : Review \cup {None},
                                   hash : Hash \cup {None}]
        BY <2>2 DEF TypeOK
      <3>2. [flow[act[r].flow] EXCEPT !.status = "WITNESS_PENDING",
                 !.version = act[r].version + 1, !.review = rev]
              \in [status : {"DRAFT", "WITNESS_PENDING", "REVIEW_REQUIRED"},
                  version : Nat, review : Review \cup {None}, hash : Hash \cup {None}]
        BY <2>4, <3>1
      <3>3. QED
        BY <2>2, <2>3, <3>2 DEF TypeOK
    <2>10. QED
      BY <2>6, <2>7, <2>8, <2>9 DEF TypeOK
  <1>2. FlowsAreShaped'
    BY DEF FlowsAreShaped, MemoriesAreTrue, MemoryIsTrue, TypeOK, Activity, Dag, EmptyDag, Key, KeyOf, ResultOf, Incomplete, Step, At, Leave, Tell, Accepts, DraftFlow
  <1>3. IntentIsWhole'
    BY DEF IntentIsWhole, FlowsAreShaped, MemoriesAreTrue, MemoryIsTrue, TypeOK, Activity, Dag, EmptyDag, Key, KeyOf, ResultOf, Incomplete, Step, At, Leave, Tell, Accepts, Intent, Witnessed, DraftFlow
  <1>4. IntentBeforeWitness'
    BY DEF IntentBeforeWitness, MemoriesAreTrue, MemoryIsTrue, TypeOK, Activity, Dag, EmptyDag, Key, KeyOf, ResultOf, Incomplete, Step, At, Leave, Tell, Accepts
  <1>5. MemoriesAreTrue'
    BY DEF MemoriesAreTrue, MemoryIsTrue, FlowsAreShaped, TypeOK, Activity, Dag, EmptyDag, Key, KeyOf, ResultOf, Incomplete, Step, At, Leave, Tell, Accepts, DraftFlow
  <1>6. RecordedResultHolds'
    <2>1. act[r] # None /\ act[r].flow \in Flow
      BY WorkIsTyped DEF At
    <2>2. flow[act[r].flow].status # "REVIEW_REQUIRED"
      BY <2>1 DEF Accepts, At, FlowsAreShaped, MemoriesAreTrue, MemoryIsTrue, DraftFlow
    <2>3. \A f \in Flow : f # act[r].flow => flow'[f] = flow[f]
      BY DEF TypeOK
    <2>4. ASSUME NEW k \in Key, records'[k] \in Result
          PROVE  SettledWith(k[2], records[k])'
      BY <2>2, <2>3, <2>4 DEF RecordedResultHolds, SettledWith, Key
    <2>5. ASSUME NEW q \in Request, At(q, "record")', act'[q].hash # None
          PROVE  SettledWith(act[q].flow, ResultOf(q))'
      <3>1. q # r
        BY <2>5 DEF At, TypeOK
      <3>2. act'[q] = act[q] /\ At(q, "record") /\ act[q].flow \in Flow
        BY <2>5, <3>1, WorkIsTyped DEF At, TypeOK
      <3>3. SettledWith(act[q].flow, ResultOf(q))
        BY <2>5, <3>2 DEF RecordedResultHolds
      <3>4. flow'[act[q].flow] = flow[act[q].flow]
        BY <2>2, <2>3, <3>2, <3>3 DEF SettledWith
      <3>5. QED
        BY <3>2, <3>3, <3>4 DEF SettledWith, ResultOf
    <2>6. QED
      BY <2>4, <2>5 DEF RecordedResultHolds
  <1>7. DownHostsMayRestart'
    BY DEF DownHostsMayRestart, TypeOK
  <1>8. QED
    BY <1>1, <1>2, <1>3, <1>4, <1>5, <1>6, <1>7

LEMMA ReuseNodeStep ==
  ASSUME FlowInv, NEW r \in Request, ReuseNode(r)
  PROVE  FlowInv'
  <1> USE FlowAssumption DEF FlowInv, ReuseNode, database, hosts
  <1>1. TypeOK'
    <2>1. act[r] # None
      BY DEF At
    <2>2. /\ act[r] \in Activity
          /\ act[r].flow \in Flow
          /\ act[r].host \in Host
          /\ KeyOf(r) \in Key
      BY <2>1, WorkIsTyped
    <2>0. dag[act[r].host][act[r].flow] \in Hash \cup {None}
      BY <2>2 DEF TypeOK, Dag
    <2>3. act'[r] \in Activity
      BY <2>0, <2>2 DEF TypeOK, At, Activity, Step
    <2>4. act' \in [Request -> Activity \cup {None}]
      BY <2>3 DEF TypeOK
    <2>9. QED
      BY <2>4 DEF TypeOK
  <1>2. FlowsAreShaped'
    BY DEF FlowsAreShaped, MemoriesAreTrue, MemoryIsTrue, TypeOK, Activity, Dag, EmptyDag, Key, KeyOf, ResultOf, Incomplete, Step, At, Leave, Tell, Accepts, DraftFlow
  <1>3. IntentIsWhole'
    BY DEF IntentIsWhole, FlowsAreShaped, MemoriesAreTrue, MemoryIsTrue, TypeOK, Activity, Dag, EmptyDag, Key, KeyOf, ResultOf, Incomplete, Step, At, Leave, Tell, Accepts, Intent, Witnessed, DraftFlow
  <1>4. IntentBeforeWitness'
    BY DEF IntentBeforeWitness, MemoriesAreTrue, MemoryIsTrue, TypeOK, Activity, Dag, EmptyDag, Key, KeyOf, ResultOf, Incomplete, Step, At, Leave, Tell, Accepts
  <1>5. MemoriesAreTrue'
    BY DEF MemoriesAreTrue, MemoryIsTrue, FlowsAreShaped, TypeOK, Activity, Dag, EmptyDag, Key, KeyOf, ResultOf, Incomplete, Step, At, Leave, Tell, Accepts, DraftFlow
  <1>6. RecordedResultHolds'
    BY DEF RecordedResultHolds, SettledWith, MemoriesAreTrue, MemoryIsTrue, FlowsAreShaped, TypeOK, Activity, Dag, EmptyDag, Key, KeyOf, ResultOf, Incomplete, Step, At, Leave, Tell, Accepts, DraftFlow
  <1>7. DownHostsMayRestart'
    BY DEF DownHostsMayRestart, TypeOK
  <1>8. QED
    BY <1>1, <1>2, <1>3, <1>4, <1>5, <1>6, <1>7

LEMMA AppendNodeStep ==
  ASSUME FlowInv, NEW r \in Request, AppendNode(r)
  PROVE  FlowInv'
  <1> USE FlowAssumption DEF FlowInv, AppendNode, database, hosts
  <1>1. TypeOK'
    <2>1. act[r] # None
      BY DEF At
    <2>2. act[r] \in Activity /\ act[r].flow \in Flow /\ act[r].host \in Host
      BY <2>1, WorkIsTyped
    <2>3. <<act[r].host, boots[act[r].host]>> \in Hash
      BY <2>2 DEF TypeOK, Hash
    <2>4. dag' \in [Host -> Dag]
      BY <2>2, <2>3 DEF TypeOK, Dag
    <2>5. PICK n \in Hash, d \in Dag :
            act' = [act EXCEPT ![r] = [@ EXCEPT !.step = "save", !.hash = n, !.snapshot = d]]
      <3>1. dag'[act[r].host] \in Dag
        BY <2>2, <2>4
      <3>2. QED
        BY <2>3, <3>1
    <2>6. act' \in [Request -> Activity \cup {None}]
      <3>1. [act[r] EXCEPT !.step = "save", !.hash = n, !.snapshot = d] \in Activity
        BY <2>2, <2>5 DEF Activity, Step
      <3>2. QED
        BY <2>5, <3>1 DEF TypeOK
    <2>7. QED
      BY <2>4, <2>6 DEF TypeOK
  <1>2. FlowsAreShaped'
    BY DEF FlowsAreShaped, MemoriesAreTrue, MemoryIsTrue, TypeOK, Activity, Dag, EmptyDag, Key, KeyOf, ResultOf, Incomplete, Step, At, Leave, Tell, Accepts, DraftFlow
  <1>3. IntentIsWhole'
    BY DEF IntentIsWhole, FlowsAreShaped, MemoriesAreTrue, MemoryIsTrue, TypeOK, Activity, Dag, EmptyDag, Key, KeyOf, ResultOf, Incomplete, Step, At, Leave, Tell, Accepts, Intent, Witnessed, DraftFlow
  <1>4. IntentBeforeWitness'
    BY DEF IntentBeforeWitness, MemoriesAreTrue, MemoryIsTrue, TypeOK, Activity, Dag, EmptyDag, Key, KeyOf, ResultOf, Incomplete, Step, At, Leave, Tell, Accepts
  <1>5. MemoriesAreTrue'
    <2>1. act[r] # None /\ act[r] \in Activity /\ act[r].host \in Host /\ act[r].flow \in Flow
      BY WorkIsTyped DEF At
    <2>2. <<act[r].host, boots[act[r].host]>> \in Hash
      BY <2>1 DEF TypeOK, Hash
    <2>3. ASSUME NEW q \in Request, act'[q] # None
          PROVE  MemoryIsTrue(q)'
      <3>1. CASE q = r
        <4>1. MemoryIsTrue(r)
          BY <2>1 DEF MemoriesAreTrue
        <4>2. /\ act'[r].step = "save" /\ act'[r].flow = act[r].flow
              /\ act'[r].version = act[r].version /\ act'[r].review = act[r].review
              /\ act'[r].hash = <<act[r].host, boots[act[r].host]>>
          BY <2>1 DEF TypeOK, Activity
        <4>3. QED
          BY <2>2, <3>1, <4>1, <4>2 DEF MemoryIsTrue, At
      <3>2. CASE q # r
        BY <2>3, <3>2 DEF MemoriesAreTrue, MemoryIsTrue, TypeOK
      <3>3. QED
        BY <3>1, <3>2
    <2>4. QED
      BY <2>3 DEF MemoriesAreTrue
  <1>6. RecordedResultHolds'
    BY DEF RecordedResultHolds, SettledWith, MemoriesAreTrue, MemoryIsTrue, FlowsAreShaped, TypeOK, Activity, Dag, EmptyDag, Key, KeyOf, ResultOf, Incomplete, Step, At, Leave, Tell, Accepts, DraftFlow
  <1>7. DownHostsMayRestart'
    BY DEF DownHostsMayRestart, TypeOK
  <1>8. QED
    BY <1>1, <1>2, <1>3, <1>4, <1>5, <1>6, <1>7

LEMMA SaveDagStep ==
  ASSUME FlowInv, NEW r \in Request, SaveDag(r)
  PROVE  FlowInv'
  <1> USE FlowAssumption DEF FlowInv, SaveDag, database, hosts
  <1>1. TypeOK'
    <2>1. act[r] # None
      BY DEF At
    <2>2. /\ act[r] \in Activity
          /\ act[r].flow \in Flow
          /\ act[r].host \in Host
          /\ KeyOf(r) \in Key
      BY <2>1, WorkIsTyped
    <2>3. act'[r] \in Activity
      BY <2>2 DEF TypeOK, At, Activity, Step, Dag, EmptyDag
    <2>4. act' \in [Request -> Activity \cup {None}]
      BY <2>3 DEF TypeOK
    <2>5. disk' \in [Host -> Dag]
      BY <2>2 DEF TypeOK, Activity
    <2>9. QED
      BY <2>4, <2>5 DEF TypeOK
  <1>2. FlowsAreShaped'
    BY DEF FlowsAreShaped, MemoriesAreTrue, MemoryIsTrue, TypeOK, Activity, Dag, EmptyDag, Key, KeyOf, ResultOf, Incomplete, Step, At, Leave, Tell, Accepts, DraftFlow
  <1>3. IntentIsWhole'
    BY DEF IntentIsWhole, FlowsAreShaped, MemoriesAreTrue, MemoryIsTrue, TypeOK, Activity, Dag, EmptyDag, Key, KeyOf, ResultOf, Incomplete, Step, At, Leave, Tell, Accepts, Intent, Witnessed, DraftFlow
  <1>4. IntentBeforeWitness'
    BY DEF IntentBeforeWitness, MemoriesAreTrue, MemoryIsTrue, TypeOK, Activity, Dag, EmptyDag, Key, KeyOf, ResultOf, Incomplete, Step, At, Leave, Tell, Accepts
  <1>5. MemoriesAreTrue'
    BY DEF MemoriesAreTrue, MemoryIsTrue, FlowsAreShaped, TypeOK, Activity, Dag, EmptyDag, Key, KeyOf, ResultOf, Incomplete, Step, At, Leave, Tell, Accepts, DraftFlow
  <1>6. RecordedResultHolds'
    BY DEF RecordedResultHolds, SettledWith, MemoriesAreTrue, MemoryIsTrue, FlowsAreShaped, TypeOK, Activity, Dag, EmptyDag, Key, KeyOf, ResultOf, Incomplete, Step, At, Leave, Tell, Accepts, DraftFlow
  <1>7. DownHostsMayRestart'
    BY DEF DownHostsMayRestart, TypeOK
  <1>8. QED
    BY <1>1, <1>2, <1>3, <1>4, <1>5, <1>6, <1>7

LEMMA ProjectNodeStep ==
  ASSUME FlowInv, NEW r \in Request, ProjectNode(r)
  PROVE  FlowInv'
  <1> USE FlowAssumption DEF FlowInv, ProjectNode, database, hosts
  <1>1. TypeOK'
    <2>1. act[r] # None
      BY DEF At
    <2>2. /\ act[r] \in Activity
          /\ act[r].flow \in Flow
          /\ act[r].host \in Host
          /\ KeyOf(r) \in Key
      BY <2>1, WorkIsTyped
    <2>3. act'[r] \in Activity
      BY <2>2 DEF TypeOK, At, Activity, Step
    <2>4. act' \in [Request -> Activity \cup {None}]
      BY <2>3 DEF TypeOK
    <2>5. projected' \in Dag
      BY <2>2 DEF TypeOK, Activity, Dag
    <2>9. QED
      BY <2>4, <2>5 DEF TypeOK
  <1>2. FlowsAreShaped'
    BY DEF FlowsAreShaped, MemoriesAreTrue, MemoryIsTrue, TypeOK, Activity, Dag, EmptyDag, Key, KeyOf, ResultOf, Incomplete, Step, At, Leave, Tell, Accepts, DraftFlow
  <1>3. IntentIsWhole'
    BY DEF IntentIsWhole, FlowsAreShaped, MemoriesAreTrue, MemoryIsTrue, TypeOK, Activity, Dag, EmptyDag, Key, KeyOf, ResultOf, Incomplete, Step, At, Leave, Tell, Accepts, Intent, Witnessed, DraftFlow
  <1>4. IntentBeforeWitness'
    BY DEF IntentBeforeWitness, MemoriesAreTrue, MemoryIsTrue, TypeOK, Activity, Dag, EmptyDag, Key, KeyOf, ResultOf, Incomplete, Step, At, Leave, Tell, Accepts
  <1>5. MemoriesAreTrue'
    BY DEF MemoriesAreTrue, MemoryIsTrue, FlowsAreShaped, TypeOK, Activity, Dag, EmptyDag, Key, KeyOf, ResultOf, Incomplete, Step, At, Leave, Tell, Accepts, DraftFlow
  <1>6. RecordedResultHolds'
    BY DEF RecordedResultHolds, SettledWith, MemoriesAreTrue, MemoryIsTrue, FlowsAreShaped, TypeOK, Activity, Dag, EmptyDag, Key, KeyOf, ResultOf, Incomplete, Step, At, Leave, Tell, Accepts, DraftFlow
  <1>7. DownHostsMayRestart'
    BY DEF DownHostsMayRestart, TypeOK
  <1>8. QED
    BY <1>1, <1>2, <1>3, <1>4, <1>5, <1>6, <1>7

LEMMA SettleFlowStep ==
  ASSUME FlowInv, NEW r \in Request, SettleFlow(r)
  PROVE  FlowInv'
  <1> USE FlowAssumption DEF FlowInv, SettleFlow, database, hosts
  <1>1. TypeOK'
    <2>1. act[r] # None
      BY DEF At
    <2>2. /\ act[r] \in Activity
          /\ act[r].flow \in Flow
          /\ act[r].host \in Host
          /\ KeyOf(r) \in Key
      BY <2>1, WorkIsTyped
    <2>3. act'[r] \in Activity
      BY <2>2 DEF TypeOK, At, Activity, Step
    <2>4. act' \in [Request -> Activity \cup {None}]
      BY <2>3 DEF TypeOK
    <2>6. events' \in [Flow -> SUBSET ({"INTENT_RECORDED", "WITNESSED"} \X Nat)]
      BY <2>2 DEF TypeOK, Witnessed, Activity
    <2>7. flow' \in [Flow -> [status : {"DRAFT", "WITNESS_PENDING", "REVIEW_REQUIRED"},
                              version : Nat, review : Review \cup {None},
                              hash : Hash \cup {None}]]
      BY <2>2 DEF TypeOK, Activity
    <2>9. QED
      BY <2>4, <2>6, <2>7 DEF TypeOK
  <1>2. FlowsAreShaped'
    BY DEF FlowsAreShaped, MemoriesAreTrue, MemoryIsTrue, TypeOK, Activity, Dag, EmptyDag, Key, KeyOf, ResultOf, Incomplete, Step, At, Leave, Tell, Accepts, DraftFlow
  <1>3. IntentIsWhole'
    BY DEF IntentIsWhole, FlowsAreShaped, MemoriesAreTrue, MemoryIsTrue, TypeOK, Activity, Dag, EmptyDag, Key, KeyOf, ResultOf, Incomplete, Step, At, Leave, Tell, Accepts, Intent, Witnessed, DraftFlow
  <1>4. IntentBeforeWitness'
    BY DEF IntentBeforeWitness, MemoriesAreTrue, MemoryIsTrue, TypeOK, Activity, Dag, EmptyDag, Key, KeyOf, ResultOf, Incomplete, Step, At, Leave, Tell, Accepts
  <1>5. MemoriesAreTrue'
    BY DEF MemoriesAreTrue, MemoryIsTrue, FlowsAreShaped, TypeOK, Activity, Dag, EmptyDag, Key, KeyOf, ResultOf, Incomplete, Step, At, Leave, Tell, Accepts, DraftFlow
  <1>6. RecordedResultHolds'
    <2>1. act[r] # None /\ act[r].flow \in Flow
      BY WorkIsTyped DEF At
    <2>2. flow[act[r].flow].status # "REVIEW_REQUIRED"
      BY <2>1 DEF Accepts, At, FlowsAreShaped, MemoriesAreTrue, MemoryIsTrue, DraftFlow
    <2>3. \A f \in Flow : f # act[r].flow => flow'[f] = flow[f]
      BY DEF TypeOK
    <2>4. ASSUME NEW k \in Key, records'[k] \in Result
          PROVE  SettledWith(k[2], records[k])'
      <3>1. records[k] \in Result
        BY <2>4
      <3>2. k[2] \in Flow /\ k[2] # act[r].flow
        BY <2>2, <3>1 DEF RecordedResultHolds, SettledWith, Key
      <3>3. QED
        BY <2>3, <3>1, <3>2 DEF RecordedResultHolds, SettledWith
    <2>5. ASSUME NEW q \in Request, At(q, "record")', act'[q].hash # None
          PROVE  SettledWith(act[q].flow, ResultOf(q))'
      <3>1. act'[q].flow = act[q].flow /\ act'[q].hash = act[q].hash /\ act'[q].review = act[q].review
            /\ act[q] # None /\ act[q].flow \in Flow
        BY <2>1, <2>5, WorkIsTyped DEF At, TypeOK, Activity
      <3>2. CASE q = r
        <4>1. flow'[act[r].flow] = [status |-> "REVIEW_REQUIRED", version |-> act[r].version + 1,
                                    review |-> act[r].review, hash |-> act[r].hash]
          BY <2>1 DEF TypeOK
        <4>2. QED
          BY <3>1, <3>2, <4>1 DEF SettledWith, ResultOf
      <3>3. CASE q # r
        BY <2>2, <2>3, <2>5, <3>1, <3>3 DEF RecordedResultHolds, SettledWith, ResultOf, At, TypeOK
      <3>4. QED
        BY <3>2, <3>3
    <2>6. QED
      BY <2>4, <2>5 DEF RecordedResultHolds
  <1>7. DownHostsMayRestart'
    BY DEF DownHostsMayRestart, TypeOK
  <1>8. QED
    BY <1>1, <1>2, <1>3, <1>4, <1>5, <1>6, <1>7

LEMMA RecordAnswerStep ==
  ASSUME FlowInv, NEW r \in Request, RecordAnswer(r)
  PROVE  FlowInv'
  <1> USE FlowAssumption DEF FlowInv, RecordAnswer, database, hosts
  <1>1. TypeOK'
    <2>1. act[r] # None
      BY DEF At
    <2>2. act[r] \in Activity /\ act[r].flow \in Flow /\ KeyOf(r) \in Key
      BY <2>1, WorkIsTyped
    <2>3. ResultOf(r) \in Result \cup {Incomplete}
      BY <2>1 DEF MemoriesAreTrue, MemoryIsTrue, At, ResultOf, Result, Incomplete
    <2>4. records' \in [Key -> Result \cup {Incomplete, None}]
      BY <2>2, <2>3 DEF TypeOK
    <2>5. answers' \in [Flow -> SUBSET Result]
      BY <2>2, <2>3 DEF TypeOK, Tell
    <2>6. act' \in [Request -> Activity \cup {None}] /\ holder' \in [Key -> Request \cup {None}]
      BY DEF TypeOK, Leave
    <2>7. QED
      BY <2>4, <2>5, <2>6 DEF TypeOK
  <1>2. FlowsAreShaped'
    BY DEF FlowsAreShaped, MemoriesAreTrue, MemoryIsTrue, TypeOK, Activity, Dag, EmptyDag, Key, KeyOf, ResultOf, Incomplete, Step, At, Leave, Tell, Accepts, DraftFlow
  <1>3. IntentIsWhole'
    BY DEF IntentIsWhole, FlowsAreShaped, MemoriesAreTrue, MemoryIsTrue, TypeOK, Activity, Dag, EmptyDag, Key, KeyOf, ResultOf, Incomplete, Step, At, Leave, Tell, Accepts, Intent, Witnessed, DraftFlow
  <1>4. IntentBeforeWitness'
    BY DEF IntentBeforeWitness, MemoriesAreTrue, MemoryIsTrue, TypeOK, Activity, Dag, EmptyDag, Key, KeyOf, ResultOf, Incomplete, Step, At, Leave, Tell, Accepts
  <1>5. MemoriesAreTrue'
    BY DEF MemoriesAreTrue, MemoryIsTrue, FlowsAreShaped, TypeOK, Activity, Dag, EmptyDag, Key, KeyOf, ResultOf, Incomplete, Step, At, Leave, Tell, Accepts, DraftFlow
  <1>6. RecordedResultHolds'
    <2>1. act[r] # None /\ act[r].flow \in Flow /\ KeyOf(r) \in Key /\ KeyOf(r)[2] = act[r].flow
      BY WorkIsTyped DEF At, KeyOf
    <2>2. ResultOf(r) \in Result => SettledWith(act[r].flow, ResultOf(r))
      BY <2>1 DEF RecordedResultHolds, ResultOf, Result
    <2>3. \A k \in Key : records'[k] \in Result => SettledWith(k[2], records'[k])
      BY <2>1, <2>2 DEF RecordedResultHolds, TypeOK
    <2>4. ASSUME NEW q \in Request, At(q, "record")', act'[q].hash # None
          PROVE  SettledWith(act[q].flow, ResultOf(q))'
      <3>1. act'[q] = act[q] /\ At(q, "record")
        BY <2>4 DEF At, Leave, TypeOK
      <3>2. QED
        BY <2>4, <3>1 DEF RecordedResultHolds, SettledWith, ResultOf
    <2>5. QED
      BY <2>3, <2>4 DEF RecordedResultHolds, SettledWith
  <1>7. DownHostsMayRestart'
    BY DEF DownHostsMayRestart, TypeOK
  <1>8. QED
    BY <1>1, <1>2, <1>3, <1>4, <1>5, <1>6, <1>7

LEMMA RefuseStep ==
  ASSUME FlowInv, NEW r \in Request, Refuse(r)
  PROVE  FlowInv'
  <1> USE FlowAssumption DEF FlowInv, Refuse, database, hosts
  <1>1. TypeOK'
    BY DEF TypeOK, Activity, Dag, EmptyDag, Key, KeyOf, ResultOf, Incomplete, Step, At, Leave, Tell, FlowsAreShaped, MemoriesAreTrue, MemoryIsTrue
  <1>2. FlowsAreShaped'
    BY DEF FlowsAreShaped, MemoriesAreTrue, MemoryIsTrue, TypeOK, Activity, Dag, EmptyDag, Key, KeyOf, ResultOf, Incomplete, Step, At, Leave, Tell, Accepts, DraftFlow
  <1>3. IntentIsWhole'
    BY DEF IntentIsWhole, FlowsAreShaped, MemoriesAreTrue, MemoryIsTrue, TypeOK, Activity, Dag, EmptyDag, Key, KeyOf, ResultOf, Incomplete, Step, At, Leave, Tell, Accepts, Intent, Witnessed, DraftFlow
  <1>4. IntentBeforeWitness'
    BY DEF IntentBeforeWitness, MemoriesAreTrue, MemoryIsTrue, TypeOK, Activity, Dag, EmptyDag, Key, KeyOf, ResultOf, Incomplete, Step, At, Leave, Tell, Accepts
  <1>5. MemoriesAreTrue'
    BY DEF MemoriesAreTrue, MemoryIsTrue, FlowsAreShaped, TypeOK, Activity, Dag, EmptyDag, Key, KeyOf, ResultOf, Incomplete, Step, At, Leave, Tell, Accepts, DraftFlow
  <1>6. RecordedResultHolds'
    BY DEF RecordedResultHolds, SettledWith, MemoriesAreTrue, MemoryIsTrue, FlowsAreShaped, TypeOK, Activity, Dag, EmptyDag, Key, KeyOf, ResultOf, Incomplete, Step, At, Leave, Tell, Accepts, DraftFlow
  <1>7. DownHostsMayRestart'
    BY DEF DownHostsMayRestart, TypeOK
  <1>8. QED
    BY <1>1, <1>2, <1>3, <1>4, <1>5, <1>6, <1>7

LEMMA FailStep ==
  ASSUME FlowInv, NEW r \in Request, Fail(r)
  PROVE  FlowInv'
  <1> USE FlowAssumption DEF FlowInv, Fail, database, hosts
  <1>1. TypeOK'
    BY DEF TypeOK, Activity, Dag, EmptyDag, Key, KeyOf, ResultOf, Incomplete, Step, At, Leave, Tell, FlowsAreShaped, MemoriesAreTrue, MemoryIsTrue
  <1>2. FlowsAreShaped'
    BY DEF FlowsAreShaped, MemoriesAreTrue, MemoryIsTrue, TypeOK, Activity, Dag, EmptyDag, Key, KeyOf, ResultOf, Incomplete, Step, At, Leave, Tell, Accepts, DraftFlow
  <1>3. IntentIsWhole'
    BY DEF IntentIsWhole, FlowsAreShaped, MemoriesAreTrue, MemoryIsTrue, TypeOK, Activity, Dag, EmptyDag, Key, KeyOf, ResultOf, Incomplete, Step, At, Leave, Tell, Accepts, Intent, Witnessed, DraftFlow
  <1>4. IntentBeforeWitness'
    BY DEF IntentBeforeWitness, MemoriesAreTrue, MemoryIsTrue, TypeOK, Activity, Dag, EmptyDag, Key, KeyOf, ResultOf, Incomplete, Step, At, Leave, Tell, Accepts
  <1>5. MemoriesAreTrue'
    BY DEF MemoriesAreTrue, MemoryIsTrue, FlowsAreShaped, TypeOK, Activity, Dag, EmptyDag, Key, KeyOf, ResultOf, Incomplete, Step, At, Leave, Tell, Accepts, DraftFlow
  <1>6. RecordedResultHolds'
    BY DEF RecordedResultHolds, SettledWith, MemoriesAreTrue, MemoryIsTrue, FlowsAreShaped, TypeOK, Activity, Dag, EmptyDag, Key, KeyOf, ResultOf, Incomplete, Step, At, Leave, Tell, Accepts, DraftFlow
  <1>7. DownHostsMayRestart'
    BY DEF DownHostsMayRestart, TypeOK
  <1>8. QED
    BY <1>1, <1>2, <1>3, <1>4, <1>5, <1>6, <1>7

LEMMA CrashStep ==
  ASSUME FlowInv, NEW h \in Host, Crash(h)
  PROVE  FlowInv'
  <1> USE FlowAssumption DEF FlowInv, Crash, database, hosts
  <1>1. TypeOK'
    BY DEF TypeOK, Activity, Dag, EmptyDag, Key, KeyOf, ResultOf, Incomplete, Step, At, Leave, Tell, FlowsAreShaped, MemoriesAreTrue, MemoryIsTrue
  <1>2. FlowsAreShaped'
    BY DEF FlowsAreShaped, MemoriesAreTrue, MemoryIsTrue, TypeOK, Activity, Dag, EmptyDag, Key, KeyOf, ResultOf, Incomplete, Step, At, Leave, Tell, Accepts, DraftFlow
  <1>3. IntentIsWhole'
    BY DEF IntentIsWhole, FlowsAreShaped, MemoriesAreTrue, MemoryIsTrue, TypeOK, Activity, Dag, EmptyDag, Key, KeyOf, ResultOf, Incomplete, Step, At, Leave, Tell, Accepts, Intent, Witnessed, DraftFlow
  <1>4. IntentBeforeWitness'
    BY DEF IntentBeforeWitness, MemoriesAreTrue, MemoryIsTrue, TypeOK, Activity, Dag, EmptyDag, Key, KeyOf, ResultOf, Incomplete, Step, At, Leave, Tell, Accepts
  <1>5. MemoriesAreTrue'
    BY DEF MemoriesAreTrue, MemoryIsTrue, FlowsAreShaped, TypeOK, Activity, Dag, EmptyDag, Key, KeyOf, ResultOf, Incomplete, Step, At, Leave, Tell, Accepts, DraftFlow
  <1>6. RecordedResultHolds'
    BY DEF RecordedResultHolds, SettledWith, MemoriesAreTrue, MemoryIsTrue, FlowsAreShaped, TypeOK, Activity, Dag, EmptyDag, Key, KeyOf, ResultOf, Incomplete, Step, At, Leave, Tell, Accepts, DraftFlow
  <1>7. DownHostsMayRestart'
    BY DEF DownHostsMayRestart, TypeOK
  <1>8. QED
    BY <1>1, <1>2, <1>3, <1>4, <1>5, <1>6, <1>7

LEMMA RestartStep ==
  ASSUME FlowInv, NEW h \in Host, Restart(h)
  PROVE  FlowInv'
  <1> USE FlowAssumption DEF FlowInv, Restart, database, hosts
  <1>1. TypeOK'
    <2>1. dag' \in [Host -> Dag] /\ disk' \in [Host -> Dag] /\ projected' \in Dag
      BY DEF TypeOK, Dag
    <2>2. boots' \in [Host -> 0..MaxBoots]
      BY DEF TypeOK, DownHostsMayRestart
    <2>3. QED
      BY <2>1, <2>2 DEF TypeOK
  <1>2. FlowsAreShaped'
    BY DEF FlowsAreShaped, MemoriesAreTrue, MemoryIsTrue, TypeOK, Activity, Dag, EmptyDag, Key, KeyOf, ResultOf, Incomplete, Step, At, Leave, Tell, Accepts, DraftFlow
  <1>3. IntentIsWhole'
    BY DEF IntentIsWhole, FlowsAreShaped, MemoriesAreTrue, MemoryIsTrue, TypeOK, Activity, Dag, EmptyDag, Key, KeyOf, ResultOf, Incomplete, Step, At, Leave, Tell, Accepts, Intent, Witnessed, DraftFlow
  <1>4. IntentBeforeWitness'
    BY DEF IntentBeforeWitness, MemoriesAreTrue, MemoryIsTrue, TypeOK, Activity, Dag, EmptyDag, Key, KeyOf, ResultOf, Incomplete, Step, At, Leave, Tell, Accepts
  <1>5. MemoriesAreTrue'
    BY DEF MemoriesAreTrue, MemoryIsTrue, FlowsAreShaped, TypeOK, Activity, Dag, EmptyDag, Key, KeyOf, ResultOf, Incomplete, Step, At, Leave, Tell, Accepts, DraftFlow
  <1>6. RecordedResultHolds'
    BY DEF RecordedResultHolds, SettledWith, MemoriesAreTrue, MemoryIsTrue, FlowsAreShaped, TypeOK, Activity, Dag, EmptyDag, Key, KeyOf, ResultOf, Incomplete, Step, At, Leave, Tell, Accepts, DraftFlow
  <1>7. DownHostsMayRestart'
    BY DEF DownHostsMayRestart, TypeOK
  <1>8. QED
    BY <1>1, <1>2, <1>3, <1>4, <1>5, <1>6, <1>7

LEMMA FlowNext == FlowInv /\ [Next]_vars => FlowInv'
  <1> SUFFICES ASSUME FlowInv, [Next]_vars PROVE FlowInv'
    OBVIOUS
  <1>1. ASSUME NEW r \in Request, Handle(r) PROVE FlowInv'
    BY <1>1, ReplayStep, LockStep, ReadFlowStep, RecordIntentStep, ReuseNodeStep,
       AppendNodeStep, SaveDagStep, ProjectNodeStep, SettleFlowStep, RecordAnswerStep,
       RefuseStep DEF Handle
  <1>2. ASSUME NEW r \in Request, Fail(r) PROVE FlowInv'
    BY <1>2, FailStep
  <1>3. ASSUME NEW f \in Flow, Ask(f) PROVE FlowInv'
    BY <1>3, ReceiveStep DEF Ask
  <1>4. ASSUME NEW h \in Host, Crash(h) \/ Restart(h) PROVE FlowInv'
    BY <1>4, CrashStep, RestartStep
  <1>5. CASE UNCHANGED vars
    BY <1>5 DEF FlowInv, vars, database, hosts, TypeOK, FlowsAreShaped, IntentIsWhole,
       IntentBeforeWitness, MemoriesAreTrue, MemoryIsTrue, RecordedResultHolds,
       DownHostsMayRestart, SettledWith, ResultOf, At
  <1>6. QED
    BY <1>1, <1>2, <1>3, <1>4, <1>5 DEF Next

LEMMA FlowInvariant == Spec => []FlowInv
  BY FlowInit, FlowNext, PTL DEF Spec

\* The variables keep their types.
THEOREM FlowTypeCorrect == Spec => []TypeOK
  BY FlowInvariant, PTL DEF FlowInv

\* Review, intent event and settlement event are there exactly when the status
\* of the flow says so, for any number of racing, failing and dying requests.
THEOREM FlowIntentIsWhole == Spec => []IntentIsWhole
  BY FlowInvariant, PTL DEF FlowInv

\* No node witnesses a flow before the intent to review it is durable.
THEOREM FlowIntentBeforeWitness == Spec => []IntentBeforeWitness
  BY FlowInvariant, PTL DEF FlowInv

\* A recorded result is that of the settled flow.
THEOREM FlowRecordedResultHolds == Spec => []RecordedResultHolds
  BY FlowInvariant, PTL DEF FlowInv


\* What the owner of a flow may know of it.
Known(f) == [stage |-> StageOf(flow[f].status), review |-> flow[f].review, hash |-> flow[f].hash]

\* A step that tells the owner of flow f the result x is a step of ReviewPromise,
\* if the flow is settled with x or x is no result.
LEMMA TellsTheResult ==
  ASSUME FlowInv, NEW f \in Flow, NEW x, Tell(f, x), UNCHANGED flow,
         x \in Result \cup {Incomplete}, x \in Result => SettledWith(f, x)
  PROVE  [Promise!Next]_Promise!vars
  <1> USE DEF Promise!vars
  <1>1. CASE x = Incomplete
    <2>1. answers' = answers
      BY <1>1 DEF Tell, FlowInv, TypeOK
    <2>2. QED
      BY <2>1
  <1>2. CASE x # Incomplete
    <2>1. SettledWith(f, x)
      BY <1>2
    <2>2. answers' = [answers EXCEPT ![f] = @ \cup {x}]
      BY <1>2 DEF Tell, FlowInv, TypeOK
    <2>3. Promise!Tell(f)
      BY <2>1, <2>2 DEF Promise!Tell, SettledWith, StageOf
    <2>4. QED
      BY <2>3 DEF Promise!Next
  <1>3. QED
    BY <1>1, <1>2

LEMMA PromiseNext == FlowInv /\ [Next]_vars => [Promise!Next]_Promise!vars
  <1> SUFFICES ASSUME FlowInv, [Next]_vars PROVE [Promise!Next]_Promise!vars
    OBVIOUS
  <1>1. ASSUME NEW r \in Request, RecordIntent(r)
        PROVE  Promise!Next
    <2>1. PICK f \in Flow : f = act[r].flow
      BY <1>1, WorkIsTyped DEF RecordIntent, At, FlowInv
    <2>2. act[r].version = 1 /\ flow[f].version = 1
      BY <1>1, <2>1 DEF RecordIntent, At, Accepts, FlowInv, MemoriesAreTrue, MemoryIsTrue
    <2>3. flow[f] = DraftFlow
      BY <2>1, <2>2 DEF FlowInv, FlowsAreShaped
    <2>4. PICK rev \in Review :
            flow' = [flow EXCEPT ![f] = [@ EXCEPT !.status = "WITNESS_PENDING",
                                                  !.version = act[r].version + 1, !.review = rev]]
      BY <1>1, <2>1 DEF RecordIntent
    <2>5. /\ flow'[f].status = "WITNESS_PENDING"
          /\ flow'[f].review = rev
          /\ flow'[f].hash = flow[f].hash
          /\ \A g \in Flow : g # f => flow'[g] = flow[g]
      <3> DEFINE next == [flow[f] EXCEPT !.status = "WITNESS_PENDING",
                                        !.version = act[r].version + 1, !.review = rev]
      <3>1. flow[f] \in [status : {"DRAFT", "WITNESS_PENDING", "REVIEW_REQUIRED"},
                         version : Nat, review : Review \cup {None}, hash : Hash \cup {None}]
        BY <2>1 DEF FlowInv, TypeOK
      <3>2. next.status = "WITNESS_PENDING" /\ next.review = rev /\ next.hash = flow[f].hash
        BY <3>1
      <3>3. flow'[f] = next /\ \A g \in Flow : g # f => flow'[g] = flow[g]
        BY <2>1, <2>4 DEF FlowInv, TypeOK
      <3>4. QED
        BY <3>2, <3>3
    <2>6. [g \in Flow |-> Known(g)]' = [[g \in Flow |-> Known(g)] EXCEPT
             ![f] = [@ EXCEPT !.stage = "intended", !.review = rev]]
      BY <2>3, <2>5, ZenonT(30) DEF Known, StageOf, DraftFlow
    <2>7. [g \in Flow |-> Known(g)][f].stage = "draft"
      BY <2>3 DEF Known, StageOf, DraftFlow
    <2>8. answers' = answers
      BY <1>1 DEF RecordIntent
    <2>9. Promise!Intend(f)
      BY <2>6, <2>7, <2>8 DEF Promise!Intend, Known
    <2>10. QED
      BY <2>9 DEF Promise!Next
  <1>2. ASSUME NEW r \in Request, SettleFlow(r)
        PROVE  Promise!Next
    <2>1. PICK f \in Flow : f = act[r].flow
      BY <1>2, WorkIsTyped DEF SettleFlow, At, FlowInv
    <2>2. PICK x \in Hash : x = act[r].hash
      BY <1>2 DEF SettleFlow, At, FlowInv, MemoriesAreTrue, MemoryIsTrue
    <2>3. act[r].version = 2 /\ flow[f].version = 2 /\ act[r].review = flow[f].review
      BY <1>2, <2>1 DEF SettleFlow, At, Accepts, FlowInv, MemoriesAreTrue, MemoryIsTrue
    <2>4. flow[f].status = "WITNESS_PENDING"
      BY <2>3 DEF FlowInv, FlowsAreShaped, DraftFlow
    <2>5. /\ flow'[f].status = "REVIEW_REQUIRED"
          /\ flow'[f].review = flow[f].review
          /\ flow'[f].hash = x
          /\ \A g \in Flow : g # f => flow'[g] = flow[g]
      BY <1>2, <2>1, <2>2, <2>3 DEF SettleFlow, FlowInv, TypeOK
    <2>6. [g \in Flow |-> Known(g)]' = [[g \in Flow |-> Known(g)] EXCEPT
             ![f] = [@ EXCEPT !.stage = "settled", !.hash = x]]
      BY <2>4, <2>5 DEF Known, StageOf
    <2>7. [g \in Flow |-> Known(g)][f].stage = "intended"
      BY <2>4 DEF Known, StageOf
    <2>8. answers' = answers
      BY <1>2 DEF SettleFlow
    <2>9. Promise!Settle(f)
      BY <2>6, <2>7, <2>8 DEF Promise!Settle, Known
    <2>10. QED
      BY <2>9 DEF Promise!Next
  <1>3. ASSUME NEW r \in Request, Replay(r)
        PROVE  [Promise!Next]_Promise!vars
    <2>1. PICK f \in Flow : f = act[r].flow /\ KeyOf(r) \in Key /\ KeyOf(r)[2] = f
      BY <1>3, WorkIsTyped DEF Replay, At, FlowInv, KeyOf
    <2>2. PICK x \in Result \cup {Incomplete} : x = records[KeyOf(r)]
      BY <1>3, <2>1 DEF Replay, FlowInv, TypeOK
    <2>3. x \in Result => SettledWith(f, x)
      BY <2>1, <2>2 DEF FlowInv, RecordedResultHolds
    <2>4. Tell(f, x) /\ UNCHANGED flow
      BY <1>3, <2>1, <2>2 DEF Replay, Tell, database
    <2>5. QED
      BY <2>3, <2>4, TellsTheResult
  <1>4. ASSUME NEW r \in Request, RecordAnswer(r)
        PROVE  [Promise!Next]_Promise!vars
    <2>1. PICK f \in Flow : f = act[r].flow /\ act[r] # None
      BY <1>4, WorkIsTyped DEF RecordAnswer, At, FlowInv
    <2>2. PICK x \in Result \cup {Incomplete} : x = ResultOf(r)
      BY <1>4, <2>1 DEF RecordAnswer, At, FlowInv, MemoriesAreTrue, MemoryIsTrue,
         ResultOf, Result, Incomplete
    <2>3. x \in Result => SettledWith(f, x)
      BY <1>4, <2>1, <2>2, FlowAssumption
      DEF RecordAnswer, FlowInv, RecordedResultHolds, ResultOf, Result
    <2>4. Tell(f, x) /\ UNCHANGED flow
      BY <1>4, <2>1, <2>2 DEF RecordAnswer, Tell, database
    <2>5. QED
      BY <2>3, <2>4, TellsTheResult
  <1>5. ASSUME UNCHANGED <<flow, answers>>
        PROVE  [Promise!Next]_Promise!vars
    BY <1>5 DEF Promise!vars
  <1>6. ASSUME NEW r \in Request, Handle(r) PROVE [Promise!Next]_Promise!vars
    BY <1>1, <1>2, <1>3, <1>4, <1>5, <1>6 DEF Handle, Lock, ReadFlow, ReuseNode,
       AppendNode, SaveDag, ProjectNode, Refuse, database
  <1>7. CASE UNCHANGED vars
    BY <1>5, <1>7 DEF vars, database
  <1>8. QED
    BY <1>5, <1>6, <1>7 DEF Next, Ask, Receive, Fail, Crash, Restart, database

\* The requests keep the promise: a flow has one review and one witness hash,
\* settled once, and every answer tells of those.
THEOREM FlowKeepsPromise == Spec => KeepsPromise
  <1>1. Init => Promise!Init
    BY DEF Init, Promise!Init, Promise!Draft, DraftFlow, StageOf
  <1>2. QED
    BY <1>1, PromiseNext, FlowInvariant, PTL DEF Spec, KeepsPromise, Promise!Spec

-----------------------------------------------------------------------------
(***************************************************************************)
(* The witness of a settled flow, in the DAG and in its file.              *)
(*                                                                         *)
(* A host keeps its DAG in a file of its own, so what follows is about the *)
(* only host; a node that could not be written is in memory for good, so   *)
(* it is about a file that can be written; and the file holds what the     *)
(* last save to end had copied, so commits must not overlap.  With one     *)
(* flow and one actor they do not, because of the lock.                    *)
(***************************************************************************)
SoleHost == \A g, h \in Host : g = h
FileCanBeWritten == "save" \notin Faulty
SoleKey == \A k, l \in Key : k = l

\* A commit finds no save of another one under way.
CommitsAlone ==
  \A r \in Request :
    ReuseNode(r) \/ AppendNode(r) => \A q \in Request : ~At(q, "save")

HandlersLive == \A r \in Request : act[r] # None => act[r].host \in up

\* Memory and file differ by the node that is being saved, and what the
\* database knows of the nodes is in the file.
FileFollows ==
  \A h \in Host, f \in Flow :
    /\ h \in up /\ disk[h][f] # None => dag[h][f] = disk[h][f]
    /\ h \in up /\ dag[h][f] # disk[h][f] => \E r \in Request : At(r, "save")
    /\ h \notin up => dag[h][f] = None
    /\ projected[f] \in {None, disk[h][f]}
    /\ flow[f].status = "REVIEW_REQUIRED" => flow[f].hash = disk[h][f]

\* What the handler r holds of its node is in memory, and later in the file.
HoldsNode(r) ==
  LET at == act[r]
  IN /\ at.step = "save" => at.snapshot = dag[at.host] /\ at.hash = dag[at.host][at.flow]
     /\ at.step \in {"project", "settle"} => at.hash = disk[at.host][at.flow]
     /\ at.step = "record" => at.hash # None

HandlersHoldNodes == \A r \in Request : act[r] # None => HoldsNode(r)

\* OneWitness, WitnessIsSaved and ReplaysConverge are not inductive: they rest
\* on what handlers hold on their way to the settlement of the flow.
WitnessInv == HandlersLive /\ FileFollows /\ HandlersHoldNodes /\ ReplaysConverge

LEMMA WitnessInit == Init => WitnessInv
  <1> SUFFICES ASSUME Init PROVE WitnessInv
    OBVIOUS
  <1>1. HandlersLive /\ HandlersHoldNodes
    BY DEF Init, HandlersLive, HandlersHoldNodes
  <1>2. ASSUME NEW h \in Host, NEW f \in Flow
        PROVE  /\ h \in up /\ disk[h][f] = None /\ dag[h][f] = None /\ projected[f] = None
               /\ flow[f].status = "DRAFT"
    BY DEF Init, EmptyDag, DraftFlow
  <1>3. FileFollows
    BY <1>2 DEF FileFollows
  <1>4. ReplaysConverge
    <2>1. None # Incomplete
      BY NullAssumption
    <2>2. QED
      BY <2>1 DEF Init, ReplaysConverge
  <1>5. QED
    BY <1>1, <1>3, <1>4 DEF WitnessInv

\* A step of handler r that leaves memory and file alone, and starts or ends no
\* save, keeps the invariant if what it holds and writes agrees with the file.
LEMMA WitnessKept ==
  ASSUME TypeOK, WitnessInv, NEW r \in Request,
         UNCHANGED <<disk, dag, up>>,
         \A q \in Request \ {r} : act'[q] = act[q],
         ~At(r, "save"),
         act'[r] # None =>
           /\ act'[r].host \in up
           /\ act'[r].step # "save"
           /\ act'[r].step \in {"project", "settle"} =>
                act'[r].hash = disk[act'[r].host][act'[r].flow]
           /\ act'[r].step = "record" => act'[r].hash # None,
         \A h \in Host, f \in Flow :
           /\ projected'[f] \in {None, disk[h][f]}
           /\ flow'[f].status = "REVIEW_REQUIRED" => flow'[f].hash = disk[h][f],
         \A k \in Key : records'[k] \in {records[k]} \cup Result
  PROVE  WitnessInv'
  <1>1. HandlersLive' /\ HandlersHoldNodes'
    BY DEF WitnessInv, HandlersLive, HandlersHoldNodes, HoldsNode
  <1>2. FileFollows'
    <2>1. ASSUME NEW q \in Request, At(q, "save") PROVE At(q, "save")'
      BY <2>1 DEF At
    <2>2. QED
      BY <2>1 DEF WitnessInv, FileFollows
  <1>3. ReplaysConverge'
    <2>1. Incomplete \notin Result
      BY FlowAssumption DEF Result, Incomplete
    <2>2. QED
      BY <2>1 DEF WitnessInv, ReplaysConverge
  <1>4. QED
    BY <1>1, <1>2, <1>3 DEF WitnessInv

\* A handler that leaves the database alone and is done, or is not at its node.
LEMMA WitnessUntouched ==
  ASSUME TypeOK, WitnessInv, NEW r \in Request,
         UNCHANGED <<flow, projected, disk, dag, up, records>>,
         \A q \in Request \ {r} : act'[q] = act[q],
         ~At(r, "save"),
         act'[r] # None =>
           /\ act'[r].host \in up
           /\ act'[r].step \in {"lock", "read", "intent", "witness"}
  PROVE  WitnessInv'
  <1>1. \A h \in Host, f \in Flow :
          /\ projected'[f] \in {None, disk[h][f]}
          /\ flow'[f].status = "REVIEW_REQUIRED" => flow'[f].hash = disk[h][f]
    BY DEF WitnessInv, FileFollows
  <1>2. QED
    BY <1>1, WitnessKept

\* Handlers that go from step to step before the node, or leave.
LEMMA WitnessWaits ==
  ASSUME FlowInv, WitnessInv, FileCanBeWritten, NEW r \in Request,
         \/ \E a \in Actor, h \in Host, f \in Flow : Receive(r, a, h, f)
         \/ Replay(r) \/ Lock(r) \/ Refuse(r) \/ Fail(r)
  PROVE  WitnessInv'
  <1>1. TypeOK
    BY DEF FlowInv
  <1>2. ~At(r, "save")
    BY DEF Receive, Replay, Lock, Refuse, Fail, At, FileCanBeWritten
  <1>3. UNCHANGED <<flow, projected, disk, dag, up, records>>
    BY DEF Receive, Replay, Lock, Refuse, Fail, database, hosts
  <1>4. /\ \A q \in Request \ {r} : act'[q] = act[q]
        /\ act'[r] # None => act'[r].host \in up /\ act'[r].step \in {"lock", "read"}
    <2>1. CASE \E a \in Actor, h \in Host, f \in Flow : Receive(r, a, h, f)
      BY <1>1, <2>1 DEF Receive, TypeOK
    <2>2. CASE Lock(r)
      <3>1. act[r] # None /\ act[r] \in Activity /\ act[r].host \in up
        BY <1>1, <2>2, WorkIsTyped DEF Lock, At, WitnessInv, HandlersLive
      <3>2. act' = [act EXCEPT ![r] = [act[r] EXCEPT !.step = "read"]]
        BY <2>2 DEF Lock
      <3>3. QED
        BY <1>1, <3>1, <3>2 DEF TypeOK, Activity
    <2>3. CASE Replay(r) \/ Refuse(r) \/ Fail(r)
      BY <1>1, <2>3 DEF Replay, Refuse, Fail, Leave, TypeOK
    <2>4. QED
      BY <2>1, <2>2, <2>3
  <1>5. QED
    BY <1>1, <1>2, <1>3, <1>4, WitnessUntouched

\* A settled flow is found: its node is in memory, as it is in the file.
LEMMA WitnessReadFlow ==
  ASSUME FlowInv, WitnessInv, NEW r \in Request, ReadFlow(r)
  PROVE  WitnessInv'
  <1> DEFINE w == flow[act[r].flow]
             n == dag[act[r].host][act[r].flow]
  <1>1. /\ TypeOK /\ act[r] # None /\ act[r].step = "read" /\ act[r] \in Activity
        /\ act[r].flow \in Flow /\ act[r].host \in Host /\ act[r].host \in up
    BY WorkIsTyped DEF FlowInv, ReadFlow, At, WitnessInv, HandlersLive
  <1>2. UNCHANGED <<flow, projected, disk, dag, up, records>>
    BY DEF ReadFlow, database, hosts
  <1>3. ~At(r, "save")
    BY <1>1 DEF At
  <1>4. CASE w.status = "DRAFT"
    <2>1. act' = [act EXCEPT ![r] = [act[r] EXCEPT !.step = "intent", !.version = w.version]]
      BY <1>4 DEF ReadFlow
    <2>2. QED
      BY <1>1, <1>2, <1>3, <2>1, WitnessUntouched DEF TypeOK, Activity
  <1>5. CASE w.status = "WITNESS_PENDING"
    <2>1. act' = [act EXCEPT ![r] =
            [act[r] EXCEPT !.step = "witness", !.version = w.version, !.review = w.review]]
      BY <1>5 DEF ReadFlow
    <2>2. QED
      BY <1>1, <1>2, <1>3, <2>1, WitnessUntouched DEF TypeOK, Activity
  <1>6. CASE w.status = "REVIEW_REQUIRED"
    <2>1. w.hash = disk[act[r].host][act[r].flow] /\ w.hash \in Hash
      BY <1>1, <1>6 DEF WitnessInv, FileFollows, FlowInv, FlowsAreShaped, DraftFlow
    <2>2. n # None
      BY <1>1, <2>1, FlowAssumption DEF WitnessInv, FileFollows
    <2>3. w.review \in reviews[act[r].flow]
      BY <1>1, <1>6 DEF FlowInv, IntentIsWhole
    <2>4. act' = [act EXCEPT ![r] =
            [act[r] EXCEPT !.step = "record", !.review = w.review, !.hash = w.hash]]
      BY <1>6, <2>2, <2>3 DEF ReadFlow
    <2>5. /\ \A q \in Request \ {r} : act'[q] = act[q]
          /\ act'[r].host \in up /\ act'[r].step = "record" /\ act'[r].hash # None
      BY <1>1, <2>1, <2>4, FlowAssumption DEF TypeOK, Activity
    <2>6. \A h \in Host, f \in Flow :
            /\ projected'[f] \in {None, disk[h][f]}
            /\ flow'[f].status = "REVIEW_REQUIRED" => flow'[f].hash = disk[h][f]
      BY <1>2 DEF WitnessInv, FileFollows
    <2>7. QED
      BY <1>1, <1>2, <1>3, <2>5, <2>6, WitnessKept
  <1>7. QED
    BY <1>4, <1>5, <1>6 DEF ReadFlow

LEMMA WitnessRecordIntent ==
  ASSUME FlowInv, WitnessInv, NEW r \in Request, RecordIntent(r)
  PROVE  WitnessInv'
  <1>1. /\ TypeOK /\ act[r] # None /\ act[r].step = "intent" /\ act[r] \in Activity
        /\ act[r].flow \in Flow /\ act[r].host \in up
    BY WorkIsTyped DEF FlowInv, RecordIntent, At, WitnessInv, HandlersLive
  <1>2. PICK rev \in Review \ Drawn :
          /\ flow' = [flow EXCEPT ![act[r].flow] = [@ EXCEPT !.status = "WITNESS_PENDING",
                        !.version = act[r].version + 1, !.review = rev]]
          /\ act' = [act EXCEPT ![r] = [@ EXCEPT !.step = "witness",
                        !.version = act[r].version + 1, !.review = rev]]
    BY Zenon DEF RecordIntent
  <1>3. UNCHANGED <<projected, disk, dag, up, records>>
    BY DEF RecordIntent, hosts
  <1>4. /\ \A q \in Request \ {r} : act'[q] = act[q]
        /\ act'[r].host \in up /\ act'[r].step = "witness"
    BY <1>1, <1>2 DEF TypeOK, Activity
  <1>5. \A f \in Flow : flow'[f].status = "REVIEW_REQUIRED" => flow'[f] = flow[f]
    BY <1>1, <1>2 DEF TypeOK
  <1>6. \A h \in Host, f \in Flow :
          /\ projected'[f] \in {None, disk[h][f]}
          /\ flow'[f].status = "REVIEW_REQUIRED" => flow'[f].hash = disk[h][f]
    BY <1>3, <1>5 DEF WitnessInv, FileFollows
  <1>7. ~At(r, "save")
    BY <1>1 DEF At
  <1>8. QED
    BY <1>1, <1>3, <1>4, <1>6, <1>7, WitnessKept

\* No save is under way, so a node in memory is in the file.
LEMMA WitnessReuseNode ==
  ASSUME FlowInv, WitnessInv, NEW r \in Request, ReuseNode(r), CommitsAlone
  PROVE  WitnessInv'
  <1> DEFINE n == dag[act[r].host][act[r].flow]
  <1>1. /\ TypeOK /\ act[r] # None /\ act[r].step = "witness" /\ act[r] \in Activity
        /\ act[r].flow \in Flow /\ act[r].host \in Host /\ act[r].host \in up
    BY WorkIsTyped DEF FlowInv, ReuseNode, At, WitnessInv, HandlersLive
  <1>2. \A q \in Request : ~At(q, "save")
    BY DEF CommitsAlone
  <1>3. n = disk[act[r].host][act[r].flow]
    BY <1>1, <1>2 DEF WitnessInv, FileFollows
  <1>4. act' = [act EXCEPT ![r] = [act[r] EXCEPT !.step = "settle", !.hash = n]]
    BY DEF ReuseNode
  <1>5. /\ \A q \in Request \ {r} : act'[q] = act[q]
        /\ act'[r].host = act[r].host /\ act'[r].flow = act[r].flow
        /\ act'[r].step = "settle" /\ act'[r].hash = n
    BY <1>1, <1>4 DEF TypeOK, Activity
  <1>6. UNCHANGED <<flow, projected, disk, dag, up, records>>
    BY DEF ReuseNode, database, hosts
  <1>7. \A h \in Host, f \in Flow :
          /\ projected'[f] \in {None, disk[h][f]}
          /\ flow'[f].status = "REVIEW_REQUIRED" => flow'[f].hash = disk[h][f]
    BY <1>6 DEF WitnessInv, FileFollows
  <1>8. QED
    BY <1>1, <1>2, <1>3, <1>5, <1>6, <1>7, WitnessKept

LEMMA WitnessAppendNode ==
  ASSUME FlowInv, WitnessInv, NEW r \in Request, AppendNode(r), CommitsAlone
  PROVE  WitnessInv'
  <1> DEFINE h == act[r].host
             f == act[r].flow
             n == <<h, boots[h]>>
  <1>1. /\ TypeOK /\ act[r] # None /\ act[r].step = "witness" /\ act[r] \in Activity
        /\ f \in Flow /\ h \in Host /\ h \in up /\ dag[h][f] = None
    BY WorkIsTyped DEF FlowInv, AppendNode, At, WitnessInv, HandlersLive
  <1>2. \A q \in Request : ~At(q, "save")
    BY DEF CommitsAlone
  <1>3. /\ UNCHANGED <<flow, projected, disk, up, records>>
        /\ dag' = [dag EXCEPT ![h][f] = n]
        /\ act' = [act EXCEPT ![r] =
             [act[r] EXCEPT !.step = "save", !.hash = n, !.snapshot = dag'[h]]]
    BY DEF AppendNode, database, hosts
  <1>4. /\ dag'[h][f] = n
        /\ \A g \in Host, e \in Flow : g # h \/ e # f => dag'[g][e] = dag[g][e]
    BY <1>1, <1>3 DEF TypeOK, Dag
  <1>5. /\ \A q \in Request \ {r} : act'[q] = act[q]
        /\ act'[r] # None /\ act'[r].host = h /\ act'[r].flow = f /\ act'[r].step = "save"
        /\ act'[r].hash = n /\ act'[r].snapshot = dag'[h]
    <2> DEFINE at == [act[r] EXCEPT !.step = "save", !.hash = n, !.snapshot = dag'[h]]
    <2>1. at.host = h /\ at.flow = f /\ at.step = "save" /\ at.hash = n /\ at.snapshot = dag'[h]
      BY <1>1 DEF Activity
    <2>2. act'[r] = at /\ \A q \in Request \ {r} : act'[q] = act[q]
      BY <1>1, <1>3 DEF TypeOK
    <2>3. at \in Activity
      <3>1. n \in Hash
        BY <1>1 DEF TypeOK, Hash
      <3>2. dag'[h] \in Dag
        BY <1>1, AppendNodeStep DEF FlowInv, TypeOK
      <3>3. QED
        BY <1>1, <3>1, <3>2 DEF Activity, Step
    <2>4. QED
      BY <2>1, <2>2, <2>3, NullAssumption
  <1>6. At(r, "save")'
    BY <1>5 DEF At
  <1>7. HandlersLive'
    BY <1>1, <1>3, <1>5 DEF WitnessInv, HandlersLive
  <1>8. FileFollows'
    BY <1>1, <1>2, <1>3, <1>4, <1>6 DEF WitnessInv, FileFollows
  <1>9. HandlersHoldNodes'
    <2> SUFFICES ASSUME NEW q \in Request, act'[q] # None PROVE HoldsNode(q)'
      BY DEF HandlersHoldNodes
    <2>1. CASE q = r
      BY <1>4, <1>5, <2>1 DEF HoldsNode
    <2>2. CASE q # r
      <3>1. act'[q] = act[q] /\ HoldsNode(q) /\ act[q].step # "save"
        BY <1>2, <1>5, <2>2 DEF WitnessInv, HandlersHoldNodes, At
      <3>2. QED
        BY <1>3, <3>1 DEF HoldsNode
    <2>3. QED
      BY <2>1, <2>2
  <1>10. QED
    BY <1>3, <1>7, <1>8, <1>9 DEF WitnessInv, ReplaysConverge

\* What is written is what memory holds: no commit came in between.
LEMMA WitnessSaveDag ==
  ASSUME FlowInv, WitnessInv, SoleHost, NEW r \in Request, SaveDag(r)
  PROVE  WitnessInv'
  <1> DEFINE h == act[r].host
             f == act[r].flow
  <1>1. /\ TypeOK /\ act[r] # None /\ act[r].step = "save" /\ act[r] \in Activity
        /\ f \in Flow /\ h \in Host /\ h \in up
        /\ act[r].snapshot = dag[h] /\ act[r].hash = dag[h][f]
    BY WorkIsTyped DEF FlowInv, SaveDag, At, WitnessInv, HandlersLive, HandlersHoldNodes, HoldsNode
  <1>2. /\ UNCHANGED <<flow, projected, dag, up, records>>
        /\ disk' = [disk EXCEPT ![h] = dag[h]]
        /\ act' = [act EXCEPT ![r] = [act[r] EXCEPT !.step = "project", !.snapshot = EmptyDag]]
    BY <1>1 DEF SaveDag, database, hosts
  <1>3. /\ disk'[h] = dag[h] /\ \A g \in Host \ {h} : disk'[g] = disk[g]
        /\ \A g \in Host, e \in Flow : g \in up /\ disk[g][e] # None => disk'[g][e] = disk[g][e]
    BY <1>1, <1>2 DEF TypeOK, WitnessInv, FileFollows
  <1>4. /\ \A q \in Request \ {r} : act'[q] = act[q]
        /\ act'[r].host = h /\ act'[r].flow = f /\ act'[r].step = "project"
        /\ act'[r].hash = dag[h][f]
    BY <1>1, <1>2 DEF TypeOK, Activity
  <1>5. HandlersLive'
    BY <1>1, <1>2, <1>4 DEF WitnessInv, HandlersLive
  <1>6. FileFollows'
    <2> SUFFICES ASSUME NEW g \in Host, NEW e \in Flow
                 PROVE  /\ dag[g][e] = disk'[g][e] /\ g \in up
                        /\ projected[e] \in {None, disk'[g][e]}
                        /\ flow[e].status = "REVIEW_REQUIRED" => flow[e].hash = disk'[g][e]
      BY <1>2 DEF FileFollows
    <2>1. g = h
      BY <1>1 DEF SoleHost
    <2>2. disk[g][e] # None => disk'[g][e] = disk[g][e]
      BY <1>1, <1>3, <2>1
    <2>3. flow[e].status = "REVIEW_REQUIRED" => flow[e].hash # None
      BY FlowAssumption DEF FlowInv, FlowsAreShaped, DraftFlow
    <2>4. QED
      BY <1>1, <1>3, <2>1, <2>2, <2>3 DEF WitnessInv, FileFollows
  <1>7. HandlersHoldNodes'
    <2> SUFFICES ASSUME NEW q \in Request, act'[q] # None PROVE HoldsNode(q)'
      BY DEF HandlersHoldNodes
    <2>1. CASE q = r
      BY <1>3, <1>4, <2>1 DEF HoldsNode
    <2>2. CASE q # r
      <3>1. act'[q] = act[q] /\ act[q] # None /\ HoldsNode(q)
        BY <1>4, <2>2 DEF WitnessInv, HandlersHoldNodes
      <3>2. act[q].host \in Host /\ act[q].host \in up /\ act[q].flow \in Flow
        BY <1>1, <3>1, WorkIsTyped DEF WitnessInv, HandlersLive
      <3>3. act[q].step \in {"project", "settle"} => act[q].hash # None
        BY <3>1, FlowAssumption DEF FlowInv, MemoriesAreTrue, MemoryIsTrue
      <3>4. act[q].step \in {"project", "settle"} =>
              act[q].hash = disk'[act[q].host][act[q].flow]
        <4>1. act[q].step \in {"project", "settle"} =>
                act[q].hash = disk[act[q].host][act[q].flow]
          BY <3>1 DEF HoldsNode
        <4>2. QED
          BY <1>3, <3>2, <3>3, <4>1
      <3>5. QED
        BY <1>2, <3>1, <3>4 DEF HoldsNode
    <2>3. QED
      BY <2>1, <2>2
  <1>8. QED
    BY <1>2, <1>5, <1>6, <1>7 DEF WitnessInv, ReplaysConverge

LEMMA WitnessProjectNode ==
  ASSUME FlowInv, WitnessInv, SoleHost, NEW r \in Request, ProjectNode(r)
  PROVE  WitnessInv'
  <1> DEFINE h == act[r].host
             f == act[r].flow
  <1>1. /\ TypeOK /\ act[r] # None /\ act[r].step = "project" /\ act[r] \in Activity
        /\ f \in Flow /\ h \in Host /\ h \in up /\ act[r].hash = disk[h][f]
    BY WorkIsTyped DEF FlowInv, ProjectNode, At, WitnessInv, HandlersLive, HandlersHoldNodes, HoldsNode
  <1>2. /\ UNCHANGED <<flow, disk, dag, up, records>>
        /\ projected' = [projected EXCEPT ![f] = act[r].hash]
        /\ act' = [act EXCEPT ![r] = [act[r] EXCEPT !.step = "settle"]]
    BY DEF ProjectNode, hosts
  <1>3. /\ \A q \in Request \ {r} : act'[q] = act[q]
        /\ act'[r].host = h /\ act'[r].flow = f /\ act'[r].step = "settle"
        /\ act'[r].hash = disk[h][f]
    BY <1>1, <1>2 DEF TypeOK, Activity
  <1>4. ASSUME NEW g \in Host, NEW e \in Flow
        PROVE  /\ projected'[e] \in {None, disk[g][e]}
               /\ flow'[e].status = "REVIEW_REQUIRED" => flow'[e].hash = disk[g][e]
    <2>1. g = h
      BY <1>1 DEF SoleHost
    <2>2. projected'[e] = IF e = f THEN disk[h][f] ELSE projected[e]
      BY <1>1, <1>2 DEF TypeOK, Dag
    <2>3. QED
      BY <1>2, <2>1, <2>2 DEF WitnessInv, FileFollows
  <1>5. ~At(r, "save")
    BY <1>1 DEF At
  <1>6. QED
    BY <1>1, <1>2, <1>3, <1>4, <1>5, WitnessKept

LEMMA WitnessSettleFlow ==
  ASSUME FlowInv, WitnessInv, SoleHost, NEW r \in Request, SettleFlow(r)
  PROVE  WitnessInv'
  <1> DEFINE h == act[r].host
             f == act[r].flow
  <1>1. /\ TypeOK /\ act[r] # None /\ act[r].step = "settle" /\ act[r] \in Activity
        /\ f \in Flow /\ h \in Host /\ h \in up /\ act[r].hash = disk[h][f]
    BY WorkIsTyped DEF FlowInv, SettleFlow, At, WitnessInv, HandlersLive, HandlersHoldNodes, HoldsNode
  <1>2. act[r].hash # None
    BY <1>1, FlowAssumption DEF FlowInv, MemoriesAreTrue, MemoryIsTrue
  <1>3. /\ UNCHANGED <<projected, disk, dag, up, records>>
        /\ act' = [act EXCEPT ![r] = [act[r] EXCEPT !.step = "record"]]
        /\ flow' = [flow EXCEPT ![f] =
             [status |-> "REVIEW_REQUIRED", version |-> act[r].version + 1,
              review |-> act[r].review, hash |-> act[r].hash]]
    BY DEF SettleFlow, hosts
  <1>4. /\ \A q \in Request \ {r} : act'[q] = act[q]
        /\ act'[r].host = h /\ act'[r].step = "record" /\ act'[r].hash # None
    BY <1>1, <1>2, <1>3 DEF TypeOK, Activity
  <1>5. ASSUME NEW g \in Host, NEW e \in Flow
        PROVE  /\ projected'[e] \in {None, disk[g][e]}
               /\ flow'[e].status = "REVIEW_REQUIRED" => flow'[e].hash = disk[g][e]
    <2>1. g = h
      BY <1>1 DEF SoleHost
    <2>2. flow'[f].hash = disk[h][f] /\ (e # f => flow'[e] = flow[e])
      BY <1>1, <1>3 DEF TypeOK
    <2>3. QED
      BY <1>3, <2>1, <2>2 DEF WitnessInv, FileFollows
  <1>6. ~At(r, "save")
    BY <1>1 DEF At
  <1>7. QED
    BY <1>1, <1>3, <1>4, <1>5, <1>6, WitnessKept

LEMMA WitnessRecordAnswer ==
  ASSUME FlowInv, WitnessInv, NEW r \in Request, RecordAnswer(r)
  PROVE  WitnessInv'
  <1>1. /\ TypeOK /\ act[r] # None /\ act[r].step = "record" /\ KeyOf(r) \in Key
        /\ act[r].hash # None
    BY WorkIsTyped DEF FlowInv, RecordAnswer, At, WitnessInv, HandlersHoldNodes, HoldsNode
  <1>2. ResultOf(r) \in Result
    BY <1>1, FlowAssumption DEF FlowInv, MemoriesAreTrue, MemoryIsTrue, ResultOf, Result
  <1>3. /\ UNCHANGED <<flow, projected, disk, dag, up>>
        /\ records' = [records EXCEPT ![KeyOf(r)] = ResultOf(r)]
        /\ act' = [act EXCEPT ![r] = None]
    BY DEF RecordAnswer, Leave, database, hosts
  <1>4. \A k \in Key : records'[k] \in {records[k]} \cup Result
    BY <1>1, <1>2, <1>3 DEF TypeOK
  <1>5. act'[r] = None /\ \A q \in Request \ {r} : act'[q] = act[q]
    BY <1>1, <1>3 DEF TypeOK
  <1>6. \A h \in Host, f \in Flow :
          /\ projected'[f] \in {None, disk[h][f]}
          /\ flow'[f].status = "REVIEW_REQUIRED" => flow'[f].hash = disk[h][f]
    BY <1>3 DEF WitnessInv, FileFollows
  <1>7. ~At(r, "save")
    BY <1>1 DEF At
  <1>8. QED
    BY <1>1, <1>3, <1>4, <1>5, <1>6, <1>7, WitnessKept

LEMMA WitnessCrash ==
  ASSUME FlowInv, WitnessInv, SoleHost, NEW h \in Host, Crash(h)
  PROVE  WitnessInv'
  <1>1. /\ UNCHANGED <<flow, projected, records, disk>>
        /\ up' = up \ {h} /\ dag' = [dag EXCEPT ![h] = EmptyDag]
        /\ \A r \in Request : act[r] # None /\ act[r].host = h => act'[r] = None
        /\ \A r \in Request : act'[r] # None => act'[r] = act[r]
    BY DEF Crash, database
  <1>2. \A g \in Host : g = h
    BY DEF SoleHost
  <1>3. \A r \in Request : act'[r] = None
    BY <1>1, <1>2, WorkIsTyped DEF FlowInv
  <1>4. \A g \in Host, f \in Flow : g \notin up' /\ dag'[g][f] = None
    BY <1>1, <1>2 DEF FlowInv, TypeOK, EmptyDag
  <1>5. HandlersLive' /\ HandlersHoldNodes'
    BY <1>3 DEF HandlersLive, HandlersHoldNodes
  <1>6. FileFollows'
    BY <1>1, <1>4 DEF WitnessInv, FileFollows
  <1>7. QED
    BY <1>1, <1>5, <1>6 DEF WitnessInv, ReplaysConverge

\* A file that holds nothing is that of a DAG of which nothing was projected,
\* so memory is what the file holds.
LEMMA WitnessRestart ==
  ASSUME FlowInv, WitnessInv, SoleHost, NEW h \in Host, Restart(h)
  PROVE  WitnessInv'
  <1>1. TypeOK /\ h \notin up /\ \A g \in Host : g = h
    BY DEF FlowInv, Restart, SoleHost
  <1>2. PICK imported \in SUBSET Flow, sent \in SUBSET Flow :
          LET Hydrated == IF disk[h] # EmptyDag THEN disk[h]
                          ELSE [f \in Flow |-> IF f \in imported THEN projected[f] ELSE None]
          IN /\ dag' = [dag EXCEPT ![h] = Hydrated]
             /\ disk' = [disk EXCEPT ![h] = Hydrated]
             /\ projected' = [f \in Flow |->
                  IF f \in sent /\ projected[f] = None THEN Hydrated[f] ELSE projected[f]]
    BY DEF Restart
  <1>3. (IF disk[h] # EmptyDag THEN disk[h]
         ELSE [f \in Flow |-> IF f \in imported THEN projected[f] ELSE None]) = disk[h]
    <2>1. CASE disk[h] = EmptyDag
      <3>1. \A f \in Flow : projected[f] = None
        <4>1. \A f \in Flow : disk[h][f] = None
          BY <2>1 DEF EmptyDag
        <4>2. QED
          BY <4>1 DEF WitnessInv, FileFollows
      <3>2. [f \in Flow |-> IF f \in imported THEN projected[f] ELSE None] = EmptyDag
        BY <3>1 DEF EmptyDag
      <3>3. QED
        BY <2>1, <3>2
    <2>2. QED
      BY <2>1
  <1>4. /\ dag' = [dag EXCEPT ![h] = disk[h]]
        /\ disk' = [disk EXCEPT ![h] = disk[h]]
        /\ projected' = [f \in Flow |->
             IF f \in sent /\ projected[f] = None THEN disk[h][f] ELSE projected[f]]
    BY <1>2, <1>3, Zenon
  <1>5. UNCHANGED <<flow, records, act>> /\ up' = up \cup {h}
    BY DEF Restart
  <1>6. \A r \in Request : act[r] = None
    BY <1>1, WorkIsTyped DEF WitnessInv, HandlersLive
  <1>7. \A g \in Host, f \in Flow :
          /\ g \in up' /\ dag'[g][f] = disk[g][f] /\ disk'[g][f] = disk[g][f]
          /\ projected'[f] \in {None, disk[g][f]}
    BY <1>1, <1>4, <1>5 DEF TypeOK, WitnessInv, FileFollows
  <1>8. HandlersLive' /\ HandlersHoldNodes'
    BY <1>5, <1>6 DEF HandlersLive, HandlersHoldNodes
  <1>9. FileFollows'
    BY <1>5, <1>7 DEF WitnessInv, FileFollows
  <1>10. QED
    BY <1>5, <1>8, <1>9 DEF WitnessInv, ReplaysConverge

LEMMA WitnessNext ==
  ASSUME FlowInv, WitnessInv, SoleHost, FileCanBeWritten, [Next]_vars, [CommitsAlone]_vars
  PROVE  WitnessInv'
  <1>1. ASSUME NEW r \in Request, Handle(r), CommitsAlone PROVE WitnessInv'
    BY <1>1, WitnessWaits, WitnessReadFlow, WitnessRecordIntent, WitnessReuseNode,
       WitnessAppendNode, WitnessSaveDag, WitnessProjectNode, WitnessSettleFlow,
       WitnessRecordAnswer DEF Handle
  <1>2. ASSUME NEW r \in Request, Fail(r) PROVE WitnessInv'
    BY <1>2, WitnessWaits
  <1>3. ASSUME NEW f \in Flow, Ask(f) PROVE WitnessInv'
    BY <1>3, WitnessWaits DEF Ask
  <1>4. ASSUME NEW h \in Host, Crash(h) \/ Restart(h) PROVE WitnessInv'
    BY <1>4, WitnessCrash, WitnessRestart
  <1>5. CASE UNCHANGED vars
    BY <1>5 DEF vars, database, hosts, WitnessInv, HandlersLive, FileFollows,
       HandlersHoldNodes, HoldsNode, ReplaysConverge, At
  <1>6. QED
    BY <1>1, <1>2, <1>3, <1>4, <1>5 DEF Next

LEMMA WitnessHolds ==
  ASSUME FlowInv, WitnessInv
  PROVE  OneWitness /\ WitnessIsSaved /\ ReplaysConverge
  <1>1. OneWitness
    <2>1. ASSUME NEW f \in Flow, flow[f].status = "REVIEW_REQUIRED", NEW h \in Host
          PROVE  /\ flow[f].hash = disk[h][f] /\ flow[f].hash # None
                 /\ dag[h][f] \in {None, flow[f].hash} /\ projected[f] \in {None, flow[f].hash}
      BY <2>1, FlowAssumption DEF WitnessInv, FileFollows, FlowInv, FlowsAreShaped, DraftFlow
    <2>2. ASSUME NEW f \in Flow, flow[f].status = "REVIEW_REQUIRED"
          PROVE  \E h \in Host : TRUE
      BY <2>2 DEF FlowInv, FlowsAreShaped, DraftFlow, Hash
    <2>3. QED
      BY <2>1, <2>2 DEF OneWitness
  <1>2. WitnessIsSaved
    <2>1. ASSUME NEW f \in Flow, flow[f].status = "REVIEW_REQUIRED"
          PROVE  \E h \in Host : disk[h][f] = flow[f].hash
      <3>1. PICK h \in Host : TRUE
        BY <2>1 DEF FlowInv, FlowsAreShaped, DraftFlow, Hash
      <3>2. QED
        BY <2>1, <3>1 DEF WitnessInv, FileFollows
    <2>2. QED
      BY <2>1 DEF WitnessIsSaved
  <1>3. QED
    BY <1>1, <1>2 DEF WitnessInv

LEMMA WitnessAlways ==
  ASSUME SoleHost, FileCanBeWritten
  PROVE  Spec /\ [][CommitsAlone]_vars => [](FlowInv /\ WitnessInv)
  <1>1. Init => WitnessInv
    BY WitnessInit
  <1>2. FlowInv /\ WitnessInv /\ [Next]_vars /\ [CommitsAlone]_vars => WitnessInv'
    BY WitnessNext
  <1>3. QED
    BY <1>1, <1>2, FlowInvariant, PTL DEF Spec

\* On a single host whose file can be written, memory, file, projection and
\* flow agree on one node, and a settled flow's node is in the file, for any
\* flows, actors, requests and restarts, as long as no commit finds the save of
\* another one under way.
THEOREM WitnessAgreesWithoutRaces ==
  ASSUME SoleHost, FileCanBeWritten
  PROVE  Spec /\ [][CommitsAlone]_vars => []OneWitness /\ []WitnessIsSaved
  BY WitnessAlways, WitnessHolds, PTL

\* Under the same conditions no request ends with its state incomplete on
\* record, so a replay never contradicts the settled flow.
THEOREM ReplaysConvergeWithoutRaces ==
  ASSUME SoleHost, FileCanBeWritten
  PROVE  Spec /\ [][CommitsAlone]_vars => []ReplaysConverge
  BY WitnessAlways, WitnessHolds, PTL

\* A handler that is past the lock of its key holds it.
HoldersWork ==
  \A r \in Request : act[r] # None /\ act[r].step # "lock" => holder[KeyOf(r)] = r

LEMMA HoldersInit == Init => HoldersWork
  BY DEF Init, HoldersWork

LEMMA HoldersNext == FlowInv /\ HoldersWork /\ [Next]_vars => HoldersWork'
  <1> SUFFICES ASSUME FlowInv, HoldersWork, [Next]_vars PROVE HoldersWork'
    OBVIOUS
  <1>0. TypeOK
    BY DEF FlowInv
  <1>1. ASSUME NEW r \in Request, NEW a \in Actor, NEW h \in Host, NEW f \in Flow, Receive(r, a, h, f)
        PROVE  HoldersWork'
    BY <1>0, <1>1 DEF Receive, HoldersWork, KeyOf, TypeOK
  <1>2. ASSUME NEW r \in Request, Leave(r) PROVE HoldersWork'
    <2>1. act'[r] = None /\ \A q \in Request \ {r} : act'[q] = act[q]
      BY <1>0, <1>2 DEF Leave, TypeOK
    <2>2. \A k \in Key : holder[k] # r => holder'[k] = holder[k]
      BY <1>2 DEF Leave
    <2>3. ASSUME NEW q \in Request, act'[q] # None, act'[q].step # "lock"
          PROVE  holder'[KeyOf(q)'] = q
      <3>1. q # r /\ act'[q] = act[q] /\ KeyOf(q)' = KeyOf(q)
        BY <2>1, <2>3 DEF KeyOf
      <3>2. holder[KeyOf(q)] = q /\ KeyOf(q) \in Key
        BY <1>0, <2>3, <3>1, WorkIsTyped DEF HoldersWork
      <3>3. QED
        BY <2>2, <3>1, <3>2
    <2>4. QED
      BY <2>3 DEF HoldersWork
  <1>3. ASSUME NEW r \in Request, Lock(r) PROVE HoldersWork'
    <2>1. /\ act[r] # None /\ act[r] \in Activity /\ KeyOf(r) \in Key /\ holder[KeyOf(r)] = None
          /\ holder' = [holder EXCEPT ![KeyOf(r)] = r]
          /\ act' = [act EXCEPT ![r] = [act[r] EXCEPT !.step = "read"]]
      BY <1>0, <1>3, WorkIsTyped DEF Lock, At
    <2>2. /\ \A q \in Request \ {r} : act'[q] = act[q]
          /\ act'[r].actor = act[r].actor /\ act'[r].flow = act[r].flow
      BY <1>0, <2>1 DEF TypeOK, Activity
    <2>3. holder'[KeyOf(r)] = r /\ \A k \in Key \ {KeyOf(r)} : holder'[k] = holder[k]
      BY <1>0, <2>1 DEF TypeOK
    <2>4. ASSUME NEW q \in Request, act'[q] # None, act'[q].step # "lock"
          PROVE  holder'[KeyOf(q)'] = q
      <3>1. CASE q = r
        BY <2>2, <2>3, <3>1 DEF KeyOf
      <3>2. CASE q # r
        <4>1. act'[q] = act[q] /\ KeyOf(q)' = KeyOf(q)
          BY <2>2, <3>2 DEF KeyOf
        <4>2. holder[KeyOf(q)] = q /\ KeyOf(q) \in Key
          BY <1>0, <2>4, <4>1, WorkIsTyped DEF HoldersWork
        <4>3. QED
          BY <2>1, <2>3, <4>1, <4>2, FlowAssumption
      <3>3. QED
        BY <3>1, <3>2
    <2>5. QED
      BY <2>4 DEF HoldersWork
  <1>4. ASSUME NEW r \in Request, UNCHANGED holder, act[r] # None, act[r].step # "lock",
               act'[r].actor = act[r].actor, act'[r].flow = act[r].flow,
               \A q \in Request \ {r} : act'[q] = act[q]
        PROVE  HoldersWork'
    BY <1>4 DEF HoldersWork, KeyOf
  <1>5. ASSUME NEW r \in Request,
               \/ ReadFlow(r) \/ RecordIntent(r) \/ ReuseNode(r) \/ AppendNode(r)
               \/ SaveDag(r) \/ ProjectNode(r) \/ SettleFlow(r)
        PROVE  HoldersWork'
    <2> DEFINE w == flow[act[r].flow]
    <2>1. act[r] # None /\ act[r].step # "lock"
      BY <1>5 DEF ReadFlow, RecordIntent, ReuseNode, AppendNode, SaveDag, ProjectNode, SettleFlow, At
    <2>2. act[r] \in Activity
      BY <1>0, <2>1, WorkIsTyped
    <2>3. ASSUME NEW at, act' = [act EXCEPT ![r] = at], UNCHANGED holder,
                 at.actor = act[r].actor, at.flow = act[r].flow
          PROVE  HoldersWork'
      BY <1>0, <1>4, <2>1, <2>3 DEF TypeOK
    <2>4. CASE ReadFlow(r)
      <3>1. UNCHANGED holder
        BY <2>4 DEF ReadFlow
      <3>2. \/ act' = [act EXCEPT ![r] = [act[r] EXCEPT !.step = "intent", !.version = w.version]]
            \/ act' = [act EXCEPT ![r] =
                 [act[r] EXCEPT !.step = "witness", !.version = w.version, !.review = w.review]]
            \/ act' = [act EXCEPT ![r] =
                 [act[r] EXCEPT !.step = "record", !.review = w.review, !.hash = w.hash]]
            \/ act' = [act EXCEPT ![r] = [act[r] EXCEPT !.step = "record"]]
        BY <2>4 DEF ReadFlow
      <3>3. QED
        BY <2>2, <2>3, <3>1, <3>2 DEF Activity
    <2>5. CASE RecordIntent(r)
      <3>1. PICK rev \in Review \ Drawn :
              act' = [act EXCEPT ![r] = [@ EXCEPT !.step = "witness",
                        !.version = act[r].version + 1, !.review = rev]]
        BY <2>5, Zenon DEF RecordIntent
      <3>2. UNCHANGED holder
        BY <2>5 DEF RecordIntent
      <3>3. QED
        BY <2>2, <2>3, <3>1, <3>2 DEF Activity
    <2>6. CASE ReuseNode(r)
      <3>1. /\ UNCHANGED holder
            /\ act' = [act EXCEPT ![r] =
                 [act[r] EXCEPT !.step = "settle", !.hash = dag[act[r].host][act[r].flow]]]
        BY <2>6 DEF ReuseNode
      <3>2. QED
        BY <2>2, <2>3, <3>1 DEF Activity
    <2>7. CASE AppendNode(r)
      <3>1. /\ UNCHANGED holder
            /\ act' = [act EXCEPT ![r] =
                 [act[r] EXCEPT !.step = "save", !.hash = <<act[r].host, boots[act[r].host]>>,
                                !.snapshot = dag'[act[r].host]]]
        BY <2>7 DEF AppendNode
      <3>2. QED
        BY <2>2, <2>3, <3>1 DEF Activity
    <2>8. CASE SaveDag(r)
      <3>1. /\ UNCHANGED holder
            /\ act' = [act EXCEPT ![r] = [act[r] EXCEPT !.step = "project", !.snapshot = EmptyDag]]
        BY <2>8 DEF SaveDag
      <3>2. QED
        BY <2>2, <2>3, <3>1 DEF Activity
    <2>9. CASE ProjectNode(r)
      <3>1. UNCHANGED holder /\ act' = [act EXCEPT ![r] = [act[r] EXCEPT !.step = "settle"]]
        BY <2>9 DEF ProjectNode
      <3>2. QED
        BY <2>2, <2>3, <3>1 DEF Activity
    <2>10. CASE SettleFlow(r)
      <3>1. UNCHANGED holder /\ act' = [act EXCEPT ![r] = [act[r] EXCEPT !.step = "record"]]
        BY <2>10 DEF SettleFlow
      <3>2. QED
        BY <2>2, <2>3, <3>1 DEF Activity
    <2>11. QED
      BY <1>5, <2>4, <2>5, <2>6, <2>7, <2>8, <2>9, <2>10
  <1>6. ASSUME NEW h \in Host, Crash(h) PROVE HoldersWork'
    <2>1. ASSUME NEW q \in Request, act'[q] # None, act'[q].step # "lock"
          PROVE  holder'[KeyOf(q)'] = q
      <3>1. act'[q] = act[q] /\ KeyOf(q)' = KeyOf(q) /\ act[q].host # h
        BY <1>6, <2>1 DEF Crash, KeyOf
      <3>2. holder[KeyOf(q)] = q /\ KeyOf(q) \in Key
        BY <1>0, <2>1, <3>1, WorkIsTyped DEF HoldersWork
      <3>3. QED
        BY <1>6, <3>1, <3>2 DEF Crash
    <2>2. QED
      BY <2>1 DEF HoldersWork
  <1>7. ASSUME UNCHANGED <<act, holder>> PROVE HoldersWork'
    BY <1>7 DEF HoldersWork, KeyOf
  <1>8. QED
    BY <1>1, <1>2, <1>3, <1>5, <1>6, <1>7 DEF Next, Handle, Ask, Replay, RecordAnswer,
       Refuse, Fail, Restart, vars

\* With one key, the lock makes commits take turns.
LEMMA LockMakesTurns ==
  ASSUME SoleKey, TypeOK, HoldersWork
  PROVE  CommitsAlone
  <1> SUFFICES ASSUME NEW r \in Request, ReuseNode(r) \/ AppendNode(r),
                      NEW q \in Request, At(q, "save")
               PROVE  FALSE
    BY DEF CommitsAlone
  <1>1. act[r] # None /\ act[r].step = "witness" /\ act[q] # None /\ act[q].step = "save"
    BY DEF ReuseNode, AppendNode, At
  <1>2. KeyOf(r) \in Key /\ KeyOf(q) \in Key /\ KeyOf(r) = KeyOf(q)
    BY <1>1, WorkIsTyped DEF SoleKey
  <1>3. holder[KeyOf(r)] = r /\ holder[KeyOf(q)] = q
    BY <1>1 DEF HoldersWork
  <1>4. QED
    BY <1>1, <1>2, <1>3

\* With one flow and one actor nothing more is needed: on a single host whose
\* file can be written, memory, file, projection and flow agree on one node.
THEOREM SoleFlowHasOneWitness ==
  ASSUME SoleHost, FileCanBeWritten, SoleKey
  PROVE  Spec => []OneWitness /\ []WitnessIsSaved /\ []ReplaysConverge
  <1>1. FlowInv /\ HoldersWork => CommitsAlone
    BY LockMakesTurns DEF FlowInv
  <1>2. Spec => []HoldersWork
    BY HoldersInit, HoldersNext, FlowInvariant, PTL DEF Spec
  <1>3. Spec /\ [][CommitsAlone]_vars => []OneWitness /\ []WitnessIsSaved /\ []ReplaysConverge
    BY WitnessAgreesWithoutRaces, ReplaysConvergeWithoutRaces
  <1>4. QED
    BY <1>1, <1>2, <1>3, FlowInvariant, PTL

=============================================================================
