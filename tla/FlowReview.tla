------------------------------ MODULE FlowReview ------------------------------
(***************************************************************************)
(* POST /api/v1/flow/workflows/:id/request-review of the HTTP host, on     *)
(* PostgreSQL: the request that records a review of a flow, commits its    *)
(* definition to the witness DAG and settles the flow, under an            *)
(* idempotency record.                                                     *)
(*                                                                         *)
(* The database (entities, event ledger, idempotency records, witness      *)
(* projection) is shared by all hosts; each host keeps the witness DAG in  *)
(* memory and saves it to a file of its own.  A transaction is one step.   *)
(* Between two awaits of the handler any other request may run, fail, or   *)
(* find the process gone.                                                  *)
(*                                                                         *)
(* A flow is requested once, in version 1, so the node id of its witness   *)
(* node is the flow's: a DAG is a function from flows to node hashes.      *)
(***************************************************************************)
EXTENDS Integers

CONSTANTS
  Flow,      \* FLOW_WORKFLOW entities, created as drafts
  Actor,     \* user ids bound to the owner's RID
  Request,   \* HTTP requests that may be in progress at the same time
  Host,      \* processes that serve the API
  Review,    \* identities createReview may draw
  None,      \* null
  Faulty,    \* steps at which a call to the database or the disk may fail
  MaxFaults, \* bound: how many such failures
  MaxBoots   \* bound: how often a host may restart

Step == {"lock", "read", "intent", "witness", "save", "project", "settle", "record"}

\* A node has a fresh nonce; a process appends a node id once, so host and
\* boot tell the hashes of a flow's nodes apart.
Hash == Host \X (0..MaxBoots)
Result == [review : Review, hash : Hash]

ASSUME FlowAssumption ==
  /\ None \notin Request \cup Review \cup Hash \cup Result
  /\ Faulty \subseteq Step
  /\ MaxFaults \in Nat
  /\ MaxBoots \in Nat

VARIABLES
  flow,       \* entities: the flows
  reviews,    \* entities: the HUMAN_REVIEWs that target each flow
  events,     \* event_ledger: the ids of each flow's events
  records,    \* idempotency_records, by key
  holder,     \* the request that holds the advisory lock of a key
  projected,  \* witness_nodes, by node id
  disk,       \* qdag.json of each host
  dag,        \* the WitnessDag in each host's memory
  up,         \* the hosts that serve requests
  boots,      \* how often each host has restarted
  act,        \* the handler of each request
  answers,    \* the results that the owner has been told (200)
  faults      \* failures so far

database == <<flow, reviews, events, projected>>
hosts == <<disk, dag, up, boots>>
vars == <<database, records, holder, hosts, act, answers, faults>>

-----------------------------------------------------------------------------
(* Data.                                                                   *)

Key == Actor \X Flow
KeyOf(r) == <<act[r].actor, act[r].flow>>

Dag == [Flow -> Hash \cup {None}]
EmptyDag == [f \in Flow |-> None]

Incomplete == [review |-> None, hash |-> None]   \* 409 FLOW_REVIEW_STATE_INCOMPLETE

\* What the handler of a request holds in memory.
Activity ==
  [step : Step, actor : Actor, host : Host, flow : Flow, version : Nat,
   review : Review \cup {None}, hash : Hash \cup {None}, snapshot : Dag]

\* null is not a record.
ASSUME NullAssumption == None # Incomplete /\ None \notin Activity

DraftFlow == [status |-> "DRAFT", version |-> 1, review |-> None, hash |-> None]
Intent(v) == <<"INTENT_RECORDED", v>>
Witnessed(v) == <<"WITNESSED", v>>

ResultInMemory(r) ==
  [review |-> act[r].review, hash |-> dag[act[r].host][act[r].flow]]

ResultOf(r) == [review |-> act[r].review, hash |-> act[r].hash]

\* Flow f is settled, and x is what it was settled with.
SettledWith(f, x) ==
  /\ flow[f].status = "REVIEW_REQUIRED"
  /\ x = [review |-> flow[f].review, hash |-> flow[f].hash]

Drawn == UNION {reviews[f] : f \in Flow}
At(r, s) == act[r] # None /\ act[r].step = s

\* The handler r answers, or throws: its lock is released, and it is done.
Leave(r) ==
  /\ holder' = [k \in Key |-> IF holder[k] = r THEN None ELSE holder[k]]
  /\ act' = [act EXCEPT ![r] = None]

TellAnything(f, x) == answers' = [answers EXCEPT ![f] = @ \cup {x}]

\* The owner of flow f is told of result x.
Tell(f, x) ==
  answers' = [answers EXCEPT ![f] = @ \cup ({x} \ {Incomplete})]

-----------------------------------------------------------------------------
Init ==
  /\ flow = [f \in Flow |-> DraftFlow]
  /\ reviews = [f \in Flow |-> {}]
  /\ events = [f \in Flow |-> {}]
  /\ records = [k \in Key |-> None]
  /\ holder = [k \in Key |-> None]
  /\ projected = EmptyDag
  /\ disk = [h \in Host |-> EmptyDag]
  /\ dag = [h \in Host |-> EmptyDag]
  /\ up = Host
  /\ boots = [h \in Host |-> 0]
  /\ act = [r \in Request |-> None]
  /\ answers = [f \in Flow |-> {}]
  /\ faults = 0

\* A request passes authentication and the check of ownership.
Receive(r, a, h, f) ==
  /\ act[r] = None
  /\ h \in up
  /\ act' = [act EXCEPT ![r] =
       [step |-> "lock", actor |-> a, host |-> h, flow |-> f, version |-> 0,
        review |-> None, hash |-> None, snapshot |-> EmptyDag]]
  /\ UNCHANGED <<database, records, holder, hosts, answers, faults>>

\* execute: under the advisory lock, a recorded answer is given again.
Replay(r) ==
  /\ At(r, "lock")
  /\ holder[KeyOf(r)] = None
  /\ records[KeyOf(r)] # None
  /\ Tell(act[r].flow, records[KeyOf(r)])
  /\ Leave(r)
  /\ UNCHANGED <<database, records, hosts, faults>>

\* execute: otherwise the work is done, holding the lock.
Lock(r) ==
  /\ At(r, "lock")
  /\ holder[KeyOf(r)] = None
  /\ records[KeyOf(r)] = None
  /\ holder' = [holder EXCEPT ![KeyOf(r)] = r]
  /\ act' = [act EXCEPT ![r].step = "read"]
  /\ UNCHANGED <<database, records, hosts, answers, faults>>

ReadFlowWitnessFirst(r) ==
  /\ At(r, "read")
  /\ LET w == flow[act[r].flow]
         next == IF w.status = "REVIEW_REQUIRED" THEN "record" ELSE "witness"
     IN act' = [act EXCEPT ![r] =
          [@ EXCEPT !.step = next, !.version = w.version, !.review = w.review, !.hash = w.hash]]
  /\ UNCHANGED <<database, records, holder, hosts, answers, faults>>

\* The handler reads the flow and goes on from where it stands.  A settled
\* flow is answered for if its review and its node are found: the node in the
\* DAG of this process.
ReadFlow(r) ==
  /\ At(r, "read")
  /\ LET w == flow[act[r].flow]
         Found == w.review \in reviews[act[r].flow] /\ dag[act[r].host][act[r].flow] # None
         Go(at) == act' = [act EXCEPT ![r] = at]
     IN \/ /\ w.status = "DRAFT"
           /\ Go([act[r] EXCEPT !.step = "intent", !.version = w.version])
        \/ /\ w.status = "WITNESS_PENDING"
           /\ Go([act[r] EXCEPT !.step = "witness", !.version = w.version, !.review = w.review])
        \/ /\ w.status = "REVIEW_REQUIRED" /\ Found
           /\ Go([act[r] EXCEPT !.step = "record", !.review = w.review, !.hash = w.hash])
        \/ /\ w.status = "REVIEW_REQUIRED" /\ ~Found
           /\ Go([act[r] EXCEPT !.step = "record"])
  /\ UNCHANGED <<database, records, holder, hosts, answers, faults>>

AcceptsBlindly(f, expected, event) == TRUE
AcceptsOneEvent(f, expected, event) == flow[f].version = expected /\ events[f] = {}

\* saveEntity with expectedVersion, and the primary key of the event ledger.
Accepts(f, expected, event) ==
  /\ flow[f].version = expected
  /\ event \notin events[f]

\* The first transaction: the flow waits for its witness, the review is
\* queued, the intent is in the ledger.
RecordIntent(r) ==
  /\ At(r, "intent")
  /\ LET f == act[r].flow
         v == act[r].version + 1
     IN /\ Accepts(f, act[r].version, Intent(v))
        /\ \E rev \in Review \ Drawn :
             /\ flow' = [flow EXCEPT ![f] =
                  [@ EXCEPT !.status = "WITNESS_PENDING", !.version = v, !.review = rev]]
             /\ reviews' = [reviews EXCEPT ![f] = @ \cup {rev}]
             /\ act' = [act EXCEPT ![r] =
                  [@ EXCEPT !.step = "witness", !.version = v, !.review = rev]]
        /\ events' = [events EXCEPT ![f] = @ \cup {Intent(v)}]
  /\ UNCHANGED <<records, holder, projected, hosts, answers, faults>>

\* The node is in this process's DAG already.
ReuseNode(r) ==
  /\ At(r, "witness")
  /\ LET n == dag[act[r].host][act[r].flow]
     IN /\ n # None
        /\ act' = [act EXCEPT ![r] = [@ EXCEPT !.step = "settle", !.hash = n]]
  /\ UNCHANGED <<database, records, holder, hosts, answers, faults>>

AppendUnsaved(r) ==
  /\ At(r, "witness")
  /\ LET h == act[r].host
         f == act[r].flow
         n == <<h, boots[h]>>
     IN /\ dag[h][f] = None
        /\ dag' = [dag EXCEPT ![h][f] = n]
        /\ act' = [act EXCEPT ![r] = [@ EXCEPT !.step = "settle", !.hash = n]]
  /\ UNCHANGED <<database, records, holder, disk, up, boots, answers, faults>>

\* commit: append, and what save is to write, with no await in between.
AppendNode(r) ==
  /\ At(r, "witness")
  /\ LET h == act[r].host
         f == act[r].flow
         n == <<h, boots[h]>>
     IN /\ dag[h][f] = None
        /\ dag' = [dag EXCEPT ![h][f] = n]
        /\ act' = [act EXCEPT ![r] =
             [@ EXCEPT !.step = "save", !.hash = n, !.snapshot = dag'[h]]]
  /\ UNCHANGED <<database, records, holder, disk, up, boots, answers, faults>>

\* commit: the snapshot replaces the file.
SaveDag(r) ==
  /\ At(r, "save")
  /\ disk' = [disk EXCEPT ![act[r].host] = act[r].snapshot]
  /\ act' = [act EXCEPT ![r] = [@ EXCEPT !.step = "project", !.snapshot = EmptyDag]]
  /\ UNCHANGED <<database, records, holder, dag, up, boots, answers, faults>>

\* commit: putNode; node_id is unique.
ProjectNode(r) ==
  /\ At(r, "project")
  /\ projected[act[r].flow] \in {None, act[r].hash}
  /\ projected' = [projected EXCEPT ![act[r].flow] = act[r].hash]
  /\ act' = [act EXCEPT ![r].step = "settle"]
  /\ UNCHANGED <<flow, reviews, events, records, holder, hosts, answers, faults>>

\* The second transaction: the flow carries its witness hash.
SettleFlow(r) ==
  /\ At(r, "settle")
  /\ LET f == act[r].flow
         v == act[r].version + 1
     IN /\ Accepts(f, act[r].version, Witnessed(v))
        /\ flow' = [flow EXCEPT ![f] =
             [status |-> "REVIEW_REQUIRED", version |-> v,
              review |-> act[r].review, hash |-> act[r].hash]]
        /\ events' = [events EXCEPT ![f] = @ \cup {Witnessed(v)}]
  /\ act' = [act EXCEPT ![r].step = "record"]
  /\ UNCHANGED <<reviews, records, holder, projected, hosts, answers, faults>>

\* execute: the answer is recorded with the release of the lock, then given.
RecordAnswer(r) ==
  /\ At(r, "record")
  /\ records' = [records EXCEPT ![KeyOf(r)] = ResultOf(r)]
  /\ Tell(act[r].flow, ResultOf(r))
  /\ Leave(r)
  /\ UNCHANGED <<database, hosts, faults>>

\* A transaction or an insert is refused: 500, and nothing is recorded.
Refuse(r) ==
  /\ \/ /\ At(r, "intent")
        /\ ~Accepts(act[r].flow, act[r].version, Intent(act[r].version + 1))
     \/ /\ At(r, "settle")
        /\ ~Accepts(act[r].flow, act[r].version, Witnessed(act[r].version + 1))
     \/ /\ At(r, "project")
        /\ projected[act[r].flow] \notin {None, act[r].hash}
  /\ Leave(r)
  /\ UNCHANGED <<database, records, hosts, answers, faults>>

\* The call that the handler awaits fails: 500, and nothing is recorded.  A
\* call that takes effect and then fails is one that fails at the next step.
Fail(r) ==
  /\ act[r] # None
  /\ act[r].step \in Faulty
  /\ faults < MaxFaults
  /\ faults' = faults + 1
  /\ Leave(r)
  /\ UNCHANGED <<database, records, hosts, answers>>

\* The process dies: its memory, its requests and their locks are gone.
Crash(h) ==
  /\ h \in up
  /\ boots[h] < MaxBoots
  /\ up' = up \ {h}
  /\ dag' = [dag EXCEPT ![h] = EmptyDag]
  /\ LET Gone == {r \in Request : act[r] # None /\ act[r].host = h}
     IN /\ act' = [r \in Request |-> IF r \in Gone THEN None ELSE act[r]]
        /\ holder' = [k \in Key |-> IF holder[k] \in Gone THEN None ELSE holder[k]]
  /\ UNCHANGED <<database, records, disk, boots, answers, faults>>

RestartEmpty(h) ==
  /\ h \notin up
  /\ up' = up \cup {h}
  /\ boots' = [boots EXCEPT ![h] = @ + 1]
  /\ UNCHANGED <<database, records, holder, disk, dag, act, answers, faults>>

\* buildApp: the DAG is read from the file; if that holds nothing, from the
\* projection; its nodes are projected; the file is saved.  The two exchanges
\* with the database end at their first error, which is only logged.
Restart(h) ==
  /\ h \notin up
  /\ up' = up \cup {h}
  /\ boots' = [boots EXCEPT ![h] = @ + 1]
  /\ \E imported, sent \in SUBSET Flow :
       LET Hydrated == IF disk[h] # EmptyDag THEN disk[h]
                       ELSE [f \in Flow |-> IF f \in imported THEN projected[f] ELSE None]
       IN /\ dag' = [dag EXCEPT ![h] = Hydrated]
          /\ disk' = [disk EXCEPT ![h] = Hydrated]
          /\ projected' = [f \in Flow |->
               IF f \in sent /\ projected[f] = None THEN Hydrated[f] ELSE projected[f]]
  /\ UNCHANGED <<flow, reviews, events, records, holder, act, answers, faults>>

Handle(r) ==
  \/ Replay(r) \/ Lock(r) \/ ReadFlow(r) \/ RecordIntent(r)
  \/ ReuseNode(r) \/ AppendNode(r) \/ SaveDag(r) \/ ProjectNode(r)
  \/ SettleFlow(r) \/ RecordAnswer(r) \/ Refuse(r)

Ask(f) == \E r \in Request, a \in Actor, h \in Host : Receive(r, a, h, f)

Next ==
  \/ \E r \in Request : Handle(r) \/ Fail(r)
  \/ \E f \in Flow : Ask(f)
  \/ \E h \in Host : Crash(h) \/ Restart(h)

Spec == Init /\ [][Next]_vars

(***************************************************************************)
(* Fairness: a handler goes on while its process lives; a process that     *)
(* died is started again; the owner of a flow asks again and again.        *)
(***************************************************************************)
FairSpec ==
  /\ Spec
  /\ \A r \in Request : WF_vars(Handle(r))
  /\ \A f \in Flow : WF_vars(Ask(f))
  /\ \A h \in Host : WF_vars(Restart(h))

-----------------------------------------------------------------------------
(* Properties.                                                             *)

\* Types of the variables, of the rows of workflow.routes.ts and
\* postgres-idempotency.ts and of the DAG of witness-dag.ts.
TypeOK ==
  /\ flow \in [Flow -> [status : {"DRAFT", "WITNESS_PENDING", "REVIEW_REQUIRED"},
                        version : Nat, review : Review \cup {None},
                        hash : Hash \cup {None}]]
  /\ reviews \in [Flow -> SUBSET Review]
  /\ events \in [Flow -> SUBSET ({"INTENT_RECORDED", "WITNESSED"} \X Nat)]
  /\ records \in [Key -> Result \cup {Incomplete, None}]
  /\ holder \in [Key -> Request \cup {None}]
  /\ projected \in Dag
  /\ disk \in [Host -> Dag]
  /\ dag \in [Host -> Dag]
  /\ up \subseteq Host
  /\ boots \in [Host -> 0..MaxBoots]
  /\ act \in [Request -> Activity \cup {None}]
  /\ answers \in [Flow -> SUBSET Result]
  /\ faults \in Nat

\* A flow has its review, its intent event and its settlement event exactly
\* when its status says so, whatever requests raced, failed or died
\* (workflow.routes.ts:112 and 129).
IntentIsWhole ==
  \A f \in Flow :
    LET w == flow[f]
    IN /\ w.status = "DRAFT" => reviews[f] = {} /\ events[f] = {}
       /\ w.status # "DRAFT" => reviews[f] = {w.review}
       /\ w.status = "WITNESS_PENDING" => events[f] = {Intent(w.version)}
       /\ w.status = "REVIEW_REQUIRED" =>
            events[f] = {Intent(w.version - 1), Witnessed(w.version)}

\* A node of the flow exists, in memory, on a disk, in a write that is under
\* way or in the projection, only once the intent to review it is durable
\* (docs/SECURITY.md:50; workflow.routes.ts:112 before 124).
IntentBeforeWitness ==
  \A f \in Flow :
    \/ flow[f].status # "DRAFT"
    \/ /\ projected[f] = None
       /\ \A h \in Host : disk[h][f] = None /\ dag[h][f] = None
       /\ \A r \in Request : act[r] # None => act[r].snapshot[f] = None

\* A result that is on record, or about to be, is that of the settled flow:
\* no replay can contradict it (workflow.routes.ts:136, idempotency replays).
RecordedResultHolds ==
  /\ \A k \in Key : records[k] \in Result => SettledWith(k[2], records[k])
  /\ \A r \in Request :
       At(r, "record") /\ act[r].hash # None => SettledWith(act[r].flow, ResultOf(r))

\* Every host, the projection and the flow itself agree on the node that
\* witnesses the flow (one host; witness-dag.ts:105, the unique node_id).
OneWitness ==
  \A f \in Flow : flow[f].status = "REVIEW_REQUIRED" =>
    /\ projected[f] \in {None, flow[f].hash}
    /\ \A h \in Host : /\ disk[h][f] \in {None, flow[f].hash}
                       /\ dag[h][f] \in {None, flow[f].hash}

\* A settled flow's witness node survives the process: it is in the file
\* (workflow.routes.ts:129 after local-dag-store.ts:36).
WitnessIsSaved ==
  \A f \in Flow : flow[f].status = "REVIEW_REQUIRED" =>
    \E h \in Host : disk[h][f] = flow[f].hash

\* A request never ends with 409 FLOW_REVIEW_STATE_INCOMPLETE on record, which
\* is what every replay would then be given (docs/API.md:83).
ReplaysConverge == \A k \in Key : records[k] # Incomplete

\* What the requests do is what ReviewPromise allows: one review, one hash,
\* and every answer tells of those (docs/API.md:83).
StageOf(status) ==
  IF status = "DRAFT" THEN "draft"
  ELSE IF status = "WITNESS_PENDING" THEN "intended" ELSE "settled"

Promise == INSTANCE ReviewPromise WITH
  outcome <- [f \in Flow |-> [stage |-> StageOf(flow[f].status),
                              review |-> flow[f].review, hash |-> flow[f].hash]]

KeepsPromise == Promise!Spec

\* A flow whose intent is recorded is settled, and its owner told, if the
\* owner goes on asking: a crash or an error leaves nothing that a later
\* request cannot resume (docs/SECURITY.md:50, workflow.routes.ts:89).
IntentIsSettled ==
  \A f \in Flow : flow[f].status = "WITNESS_PENDING" ~> answers[f] # {}

=============================================================================
