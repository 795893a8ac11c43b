------------------------ MODULE ContinuousResearchProofs ------------------------
(***************************************************************************)
(* What holds of the research of one source for any cases, contents and    *)
(* runners, any attempts and intervals, and any answers that fail to come, *)
(* stores that reject, processes that die and leases that expire: that     *)
(* redelivered polls keep the start of their run, that a change goes on    *)
(* awaiting review, that completed polls leave nothing unreviewed, that    *)
(* completed re-analyses are linked, and that a source is called           *)
(* unavailable only for a cause, each but for the races and crashes its    *)
(* property names; and, while there are fewer faults than attempts, that   *)
(* the slot of the next poll stays open.                                   *)
(***************************************************************************)
EXTENDS ContinuousResearch, FiniteSetTheorems, SequenceTheorems, TLAPS

\* The steps of a poll that has recorded its run, those of a re-analysis, and the rest.
BegunPc  == {"fetch", "compare", "persist", "enqueue", "freshen", "finish", "catch", "record"}
PollPc   == BegunPc \cup {"start", "read", "begin"}
CasePc   == {"candidate", "link", "relink"}
RunnerPc == PollPc \cup CasePc \cup {"idle", "done", "failed"}

\* Those at which a poll has contents in hand.
GotPc == {"compare", "persist", "enqueue", "freshen", "finish"}

\* What a review may list.
LinkLists == SUBSET Case

ErrorKind == {"none", "retrieval", "store", "duplicate"}

Locals ==
  [pc : RunnerPc, job : Job \cup {None}, found : BOOLEAN, started : Instant \cup {None},
   old : Freshness \cup {None}, got : Revision \cup {None}, changed : BOOLEAN,
   todo : SUBSET Case, seen : LinkLists, error : ErrorKind]

PollJobs == {PollJob(t) : t \in Instant}
CaseJobs == {CaseJob(c, rev) : c \in Case, rev \in Revision}

\* A poll that has looked for its run, and one that has recorded it.
Starting(a) == a.pc \in {"read", "begin"}
Begun(a) == a.pc \in BegunPc \/ (a.pc = "done" /\ a.job \in PollJobs)

TypeOK ==
  /\ published \in Seq(Revision) /\ published # << >>
  /\ now \in Instant
  /\ head \in Revision \cup {None} /\ ledger \in SUBSET Revision
  /\ fresh \in Freshness \cup {None}
  /\ runs \in [Instant -> Run \cup {None}]
  /\ reviews \in [Revision -> LinkLists \cup {None}]
  /\ promise \in [Job -> {"absent", "pending"} \cup Queue!Settled]
  /\ act \in [Runner -> Locals]
  /\ sched \in [pc : {"idle", "sync", "schedule", "refresh"}, snap : Freshness \cup {None}]

\* What a runner is at is of a kind with its job, a poll has the contents it
\* compares, and the scheduler writes back a record.
Shape(a) ==
  /\ a.pc \in PollPc => a.job \in PollJobs
  /\ Starting(a) \/ Begun(a) => a.started \in Instant
  /\ a.pc \in CasePc => a.job \in CaseJobs
  /\ a.pc \in {"done", "failed"} => a.job \in Job
  /\ a.pc \in GotPc => a.got \in Revision

Shapes ==
  /\ \A r \in Runner : Shape(act[r])
  /\ sched.pc = "refresh" => sched.snap \in Freshness

TypeInv == TypeOK /\ Shapes

-------------------------------------------------------------------------------
(* Types *)

LEMMA Jobs ==
  /\ Job = PollJobs \cup CaseJobs
  /\ \A t \in Instant : PollJob(t)[1] = "poll" /\ PollJob(t)[2] = t
  /\ \A c \in Case, rev \in Revision :
       CaseJob(c, rev)[1] = "case" /\ CaseJob(c, rev)[2] = c /\ CaseJob(c, rev)[3] = rev
  BY DEF Job, PollJobs, CaseJobs, PollJob, CaseJob

LEMMA JobKinds ==
  /\ PollJobs \cap CaseJobs = {}
  /\ \A j \in PollJobs : j[1] = "poll" /\ j[2] \in Instant /\ j = PollJob(j[2]) /\ j \in Job
  /\ \A j \in CaseJobs : /\ j[1] = "case" /\ j[2] \in Case /\ j[3] \in Revision
                         /\ j = CaseJob(j[2], j[3]) /\ j \in Job
  <1>1. \A j \in PollJobs : j[1] = "poll" /\ j[2] \in Instant /\ j = PollJob(j[2]) /\ j \in Job
    BY Jobs DEF PollJobs
  <1>2. \A j \in CaseJobs : /\ j[1] = "case" /\ j[2] \in Case /\ j[3] \in Revision
                            /\ j = CaseJob(j[2], j[3]) /\ j \in Job
    BY Jobs DEF CaseJobs
  <1>3. QED
    BY <1>1, <1>2

LEMMA ContentType ==
  ASSUME TypeOK
  PROVE  Len(published) \in Nat /\ Len(published) \in DOMAIN published /\ Content \in Revision
  <1>1. Len(published) \in Nat /\ Len(published) \in 1 .. Len(published)
        /\ DOMAIN published = 1 .. Len(published)
    BY EmptySeq, LenProperties DEF TypeOK
  <1>2. published[Len(published)] \in Revision
    BY <1>1, ElementOfSeq DEF TypeOK
  <1>3. QED
    BY <1>1, <1>2 DEF Content

LEMMA EnqueueType ==
  ASSUME TypeInv, NEW j \in Job, Enqueue(j)
  PROVE  /\ promise' \in [Job -> {"absent", "pending"} \cup Queue!Settled]
         /\ \A k \in Job \ {j} : promise'[k] = promise[k]
         /\ promise'[j] = IF promise[j] = "absent" THEN "pending" ELSE promise[j]
  BY DEF TypeInv, TypeOK, Enqueue, Queue!Accept, queue

LEMMA EvaluatedType == \A s \in Instant \cup {None} : Evaluated(s) \in {"STALE", "FRESH"}
  BY DEF Evaluated

LEMMA SurroundingsType ==
  ASSUME TypeInv, (\E rev \in Revision : Publish(rev)) \/ Advance \/ \E c \in Case : RequestReanalysis(c)
  PROVE  TypeInv'
  <1>1. ASSUME NEW rev \in Revision, Publish(rev) PROVE TypeInv'
    <2>1. published' = Append(published, rev) /\ published \in Seq(Revision)
      BY <1>1 DEF Publish, TypeInv, TypeOK
    <2>2. published' \in Seq(Revision) /\ published' # << >>
      BY <2>1, AppendProperties, EmptySeq
    <2>3. QED
      BY <1>1, <2>2 DEF Publish, TypeInv, TypeOK, Shapes, records, queue
  <1>2. CASE Advance
    <2>1. now' \in Instant
      BY <1>2, ResearchAssumption DEF Advance, TypeInv, TypeOK, Instant
    <2>2. QED
      BY <1>2, <2>1 DEF Advance, TypeInv, TypeOK, Shapes, records, queue
  <1>3. ASSUME NEW c \in Case, RequestReanalysis(c) PROVE TypeInv'
    <2>1. CaseJob(c, head) \in Job
      BY <1>3 DEF RequestReanalysis, TypeInv, TypeOK, Job
    <2>2. promise' \in [Job -> {"absent", "pending"} \cup Queue!Settled]
      BY <1>3, <2>1, EnqueueType DEF RequestReanalysis
    <2>3. QED
      BY <1>3, <2>2 DEF RequestReanalysis, TypeInv, TypeOK, Shapes, records
  <1>4. QED
    BY <1>1, <1>2, <1>3

LEMMA SchedulerType == ASSUME TypeInv, SchedulerStep PROVE TypeInv'
  <1>1. CASE RefreshRead
    <2>1. /\ sched' \in [pc : {"idle", "sync", "schedule", "refresh"}, snap : Freshness \cup {None}]
          /\ sched'.pc = "refresh" => sched'.snap \in Freshness
      <3>1. CASE fresh = None \/ fresh.state = "UNAVAILABLE" \/ Evaluated(fresh.success) = fresh.state
        <4>1. sched' = [Quiet EXCEPT !.pc = "sync"]
          BY <1>1, <3>1 DEF RefreshRead
        <4>2. QED
          BY <4>1 DEF Quiet
      <3>2. CASE ~(fresh = None \/ fresh.state = "UNAVAILABLE" \/ Evaluated(fresh.success) = fresh.state)
        <4>1. sched' = [pc |-> "refresh", snap |-> [fresh EXCEPT !.state = Evaluated(fresh.success)]]
          BY <1>1, <3>2 DEF RefreshRead
        <4>2. fresh \in Freshness
          BY <3>2 DEF TypeInv, TypeOK
        <4>3. [fresh EXCEPT !.state = Evaluated(fresh.success)] \in Freshness
          BY <4>2, EvaluatedType DEF Freshness
        <4>4. QED
          BY <4>1, <4>3
      <3>3. QED
        BY <3>1, <3>2
    <2>2. QED
      BY <1>1, <2>1 DEF RefreshRead, TypeInv, TypeOK, Shapes, records, queue
  <1>2. CASE RefreshWrite
    BY <1>2 DEF RefreshWrite, Quiet, TypeInv, TypeOK, Shapes, queue
  <1>3. CASE SyncDeadLetters
    <2>1. \A t \in Instant : runs[t] # None => [runs[t] EXCEPT !.status = "DEAD_LETTER"] \in Run
      BY DEF TypeInv, TypeOK, Run
    <2>2. runs' \in [Instant -> Run \cup {None}]
      BY <1>3, <2>1 DEF SyncDeadLetters, TypeInv, TypeOK
    <2>3. QED
      BY <1>3, <2>2 DEF SyncDeadLetters, Quiet, TypeInv, TypeOK, Shapes, queue
  <1>4. CASE ScheduleDue
    <2>1. promise' \in [Job -> {"absent", "pending"} \cup Queue!Settled]
      <3>1. CASE ~IsDue
        BY <1>4, <3>1 DEF ScheduleDue, queue, TypeInv, TypeOK
      <3>2. CASE IsDue
        <4> DEFINE t == IF fresh = None THEN now ELSE fresh.due
        <4>1. t \in Instant
          BY <3>2, ResearchAssumption DEF IsDue, TypeInv, TypeOK, Freshness, Instant
        <4>2. PollJob(t) \in Job /\ Enqueue(PollJob(t))
          BY <1>4, <3>2, <4>1 DEF ScheduleDue, Job
        <4>3. QED
          BY <4>2, EnqueueType
      <3>3. QED
        BY <3>1, <3>2
    <2>2. QED
      BY <1>4, <2>1 DEF ScheduleDue, Quiet, TypeInv, TypeOK, Shapes, records
  <1>5. QED
    BY <1>1, <1>2, <1>3, <1>4 DEF SchedulerStep

\* A step of runner r that writes only its locals, and records of their type.
LEMMA LocalsType ==
  ASSUME TypeInv, NEW r \in Runner, act' \in [Runner -> Locals],
         \A q \in Runner \ {r} : act'[q] = act[q], Shape(act'[r]),
         UNCHANGED <<published, now, sched>>,
         head' \in Revision \cup {None}, ledger' \in SUBSET Revision,
         fresh' \in Freshness \cup {None}, runs' \in [Instant -> Run \cup {None}],
         reviews' \in [Revision -> LinkLists \cup {None}],
         promise' \in [Job -> {"absent", "pending"} \cup Queue!Settled]
  PROVE  TypeInv'
  <1>1. TypeOK'
    BY DEF TypeInv, TypeOK
  <1>2. Shapes'
    BY DEF TypeInv, Shapes
  <1>3. QED
    BY <1>1, <1>2 DEF TypeInv

\* A step that leaves the records.
LEMMA LocalsOnlyType ==
  ASSUME TypeInv, NEW r \in Runner, act' \in [Runner -> Locals],
         \A q \in Runner \ {r} : act'[q] = act[q], Shape(act'[r]),
         UNCHANGED <<published, now, sched, records, queue>>
  PROVE  TypeInv'
  BY LocalsType DEF records, queue, TypeInv, TypeOK

LEMMA LocalsAre == ASSUME TypeInv, NEW r \in Runner PROVE act[r] \in Locals /\ Shape(act[r])
  BY DEF TypeInv, TypeOK, Shapes

\* Runner r goes on with its job and has the locals b.
Has(r, b) ==
  /\ act' \in [Runner -> Locals] /\ act'[r] = b
  /\ \A q \in Runner \ {r} : act'[q] = act[q]

LEMMA Becomes ==
  ASSUME TypeInv, NEW r \in Runner, NEW b \in Locals, act' = [act EXCEPT ![r] = b]
  PROVE  Has(r, b)
  BY DEF TypeInv, TypeOK, Has

\* The same poll or re-analysis, whatever it has found out since it began.
SameTask(a, b) == b.job = a.job /\ b.found = a.found /\ b.started = a.started /\ b.old = a.old

\* What the locals of a handler are after an assignment to some of them.
LEMMA LocalsMove ==
  ASSUME NEW a \in Locals, NEW p \in RunnerPc
  PROVE  LET b == [a EXCEPT !.pc = p] IN
         /\ b \in Locals /\ b.pc = p /\ SameTask(a, b)
         /\ b.got = a.got /\ b.seen = a.seen
            /\ b.error = a.error /\ b.changed = a.changed
  BY DEF Locals, SameTask

LEMMA LocalsFetched ==
  ASSUME NEW a \in Locals, NEW rev \in Revision
  PROVE  LET b == [a EXCEPT !.pc = "compare", !.got = rev] IN
         /\ b \in Locals /\ b.pc = "compare" /\ SameTask(a, b)
         /\ b.got = rev /\ b.error = a.error
  BY DEF Locals, SameTask, RunnerPc, PollPc, BegunPc

LEMMA LocalsAccepted ==
  ASSUME NEW a \in Locals
  PROVE  LET b == [a EXCEPT !.pc = "enqueue", !.changed = TRUE, !.todo = Case] IN
         /\ b \in Locals /\ b.pc = "enqueue" /\ SameTask(a, b)
         /\ b.got = a.got /\ b.error = a.error
  BY DEF Locals, SameTask, RunnerPc, PollPc, BegunPc

LEMMA LocalsFailed ==
  ASSUME NEW a \in Locals, NEW e \in {"retrieval", "store", "duplicate"}
  PROVE  LET b == [a EXCEPT !.pc = "catch", !.error = e] IN
         /\ b \in Locals /\ b.pc = "catch" /\ SameTask(a, b)
         /\ b.got = a.got /\ b.error = e
  BY DEF Locals, SameTask, RunnerPc, PollPc, BegunPc, ErrorKind

LEMMA LocalsRead ==
  ASSUME NEW a \in Locals, NEW l \in LinkLists
  PROVE  LET b == [a EXCEPT !.pc = "relink", !.seen = l] IN
         /\ b \in Locals /\ b.pc = "relink" /\ SameTask(a, b)
         /\ b.seen = l /\ b.error = a.error
  BY DEF Locals, SameTask, RunnerPc, CasePc

\* The step of a handler that leaves its task and comes to pc.
GoesOn(r, pc) ==
  /\ act' \in [Runner -> Locals]
  /\ \A q \in Runner \ {r} : act'[q] = act[q]
  /\ act'[r].pc = pc /\ SameTask(act[r], act'[r])

LEMMA GotoFacts ==
  ASSUME TypeInv, NEW r \in Runner, NEW p \in RunnerPc, Goto(r, p)
  PROVE  /\ GoesOn(r, p) /\ act'[r].got = act[r].got /\ act'[r].seen = act[r].seen
         /\ act'[r].error = act[r].error /\ act'[r].changed = act[r].changed
  <1> DEFINE b == [act[r] EXCEPT !.pc = p]
  <1>1. act' = [act EXCEPT ![r] = b]
    BY DEF Goto
  <1>2. /\ b \in Locals /\ b.pc = p /\ SameTask(act[r], b) /\ b.got = act[r].got /\ b.seen = act[r].seen
        /\ b.error = act[r].error /\ b.changed = act[r].changed
    BY LocalsAre, LocalsMove
  <1> HIDE DEF b
  <1>3. QED
    BY <1>1, <1>2, Becomes DEF Has, GoesOn

LEMMA ToIdle ==
  ASSUME TypeInv, NEW r \in Runner, act' = [act EXCEPT ![r] = Idle]
  PROVE  /\ act' \in [Runner -> Locals] /\ act'[r] = Idle /\ act'[r].pc = "idle" /\ act'[r].error = "none"
         /\ \A q \in Runner \ {r} : act'[q] = act[q]
  <1>1. Idle \in Locals /\ Idle.pc = "idle" /\ Idle.error = "none"
    BY DEF Idle, Locals, RunnerPc, LinkLists, ErrorKind
  <1>2. QED
    BY <1>1, Becomes DEF Has

LEMMA StartedAtType == ASSUME TypeInv, NEW t \in Instant PROVE StartedAt(t) \in Instant
  BY DEF TypeInv, TypeOK, StartedAt, Run

LEMMA NextDueType == ASSUME TypeInv PROVE NextDue(now) \in 0 .. (MaxTime + PollInterval)
  BY ResearchAssumption DEF TypeInv, TypeOK, NextDue, Instant

\* The runner at a step of a poll that has recorded its run, and of a re-analysis.
LEMMA AtPoll ==
  ASSUME TypeInv, NEW r \in Runner, act[r].pc \in PollPc
  PROVE  /\ act[r].job \in PollJobs /\ act[r].job \in Job /\ act[r].job[2] \in Instant
         /\ act[r].job = PollJob(act[r].job[2])
         /\ act[r].pc \in BegunPc \cup {"read", "begin"} => act[r].started \in Instant
         /\ act[r].pc \in GotPc => act[r].got \in Revision
  BY LocalsAre, JobKinds DEF Shape, Starting, Begun

LEMMA AtCase ==
  ASSUME TypeInv, NEW r \in Runner, act[r].pc \in CasePc
  PROVE  /\ act[r].job \in CaseJobs /\ act[r].job \in Job /\ act[r].job[1] = "case"
         /\ act[r].job[2] \in Case /\ act[r].job[3] \in Revision
         /\ act[r].job = CaseJob(act[r].job[2], act[r].job[3])
  BY LocalsAre, JobKinds DEF Shape

\* A step of a poll within its try block, and a step of a re-analysis, that leave
\* the records: they keep the types.
LEMMA GoesOnType ==
  ASSUME TypeInv, NEW r \in Runner, GoesOn(r, act'[r].pc), act[r].pc \in PollPc \cup CasePc,
         act[r].pc \in CasePc => act'[r].pc \in CasePc \cup {"done", "failed"},
         act[r].pc \in PollPc => act'[r].pc \in PollPc \cup {"done", "failed"},
         act[r].pc = "start" => act'[r].pc \in {"start", "failed"},
         act'[r].pc \in GotPc => act'[r].got \in Revision
  PROVE  Shape(act'[r])
  <1>1. CASE act[r].pc \in CasePc
    <2>1. act'[r].job \in CaseJobs /\ act'[r].job \in Job /\ act'[r].job \notin PollJobs
      BY <1>1, AtCase, JobKinds DEF GoesOn, SameTask
    <2>2. act'[r].pc \notin PollPc
      BY <1>1 DEF CasePc, PollPc, BegunPc
    <2>3. QED
      BY <2>1, <2>2 DEF Shape, Starting, Begun, PollPc
  <1>2. CASE act[r].pc \in PollPc
    <2>1. act'[r].job \in PollJobs /\ act'[r].job \in Job
      BY <1>2, AtPoll DEF GoesOn, SameTask
    <2>2. act'[r].pc \notin CasePc
      BY <1>2 DEF CasePc, PollPc, BegunPc
    <2>3. act[r].pc # "start" => act'[r].started \in Instant
      BY <1>2, AtPoll DEF GoesOn, SameTask, PollPc
    <2>4. Starting(act'[r]) \/ Begun(act'[r]) => act[r].pc # "start"
      BY DEF Starting, Begun, BegunPc
    <2>5. QED
      BY <2>1, <2>2, <2>3, <2>4 DEF Shape
  <1>3. QED
    BY <1>1, <1>2

LEMMA TakeFacts ==
  ASSUME TypeInv, NEW r \in Runner, NEW j \in Job, act[r].pc = "idle",
         act' = [act EXCEPT ![r] = Taken(r, j)], UNCHANGED <<published, now, sched, records, queue>>
  PROVE  /\ TypeInv' /\ \A q \in Runner \ {r} : act'[q] = act[q]
         /\ act'[r].pc \in {"start", "candidate"} /\ act'[r].job = j
         /\ act'[r].pc = "candidate" <=> j \in CaseJobs
         /\ act'[r].error = act[r].error
  <1> DEFINE p == IF j[1] = "poll" THEN "start" ELSE "candidate"
             b == [act[r] EXCEPT !.pc = p, !.job = j]
  <1>1. \/ j \in PollJobs /\ j \notin CaseJobs /\ p = "start"
        \/ j \in CaseJobs /\ j \notin PollJobs /\ p = "candidate"
    BY Jobs, JobKinds
  <1>2. PICK k \in RunnerPc : k = p
    BY <1>1 DEF RunnerPc, CasePc, PollPc
  <1>3. b \in Locals /\ b.pc = p /\ b.job = j /\ b.error = act[r].error
    <2>1. PICK a \in Locals : a = act[r]
      BY LocalsAre
    <2>2. b = [a EXCEPT !.pc = k, !.job = j]
      BY <1>2, <2>1, Zenon
    <2> HIDE DEF b, p
    <2>3. QED
      BY <1>2, <2>1, <2>2 DEF Locals
  <1>4. act' = [act EXCEPT ![r] = b]
    BY DEF Taken
  <1> HIDE DEF b, p
  <1>5. Has(r, b)
    BY <1>3, <1>4, Becomes
  <1>6. Shape(act'[r])
    BY <1>1, <1>3, <1>5 DEF Has, Shape, Starting, Begun, PollPc, BegunPc, CasePc, GotPc
  <1>7. TypeInv'
    BY <1>5, <1>6, LocalsOnlyType DEF Has
  <1>8. QED
    BY <1>1, <1>3, <1>5, <1>7 DEF Has

LEMMA ReadRunFacts ==
  ASSUME TypeInv, NEW r \in Runner, ReadRun(r)
  PROVE  /\ TypeInv' /\ act[r].pc = "start" /\ \A q \in Runner \ {r} : act'[q] = act[q]
         /\ act'[r].pc = "read" /\ act'[r].job = act[r].job
         /\ act'[r].error = act[r].error
         /\ act'[r].found <=> runs[act[r].job[2]] # None
         /\ act'[r].started = StartedAt(act[r].job[2])
  <1> DEFINE t == act[r].job[2]
             b == [act[r] EXCEPT !.pc = "read", !.found = runs[t] # None, !.started = StartedAt(t)]
  <1>1. act[r].pc = "start" /\ act[r].job \in PollJobs /\ t \in Instant /\ StartedAt(t) \in Instant
    BY AtPoll, StartedAtType DEF ReadRun, At, PollPc
  <1>2. b \in Locals /\ b.pc = "read" /\ b.job = act[r].job /\ b.error = act[r].error
        /\ b.found = (runs[t] # None) /\ b.started = StartedAt(t)
    <2>1. PICK a \in Locals : a = act[r]
      BY LocalsAre
    <2>2. PICK s \in Instant : s = StartedAt(t)
      BY <1>1
    <2>3. PICK f \in BOOLEAN : f = (runs[t] # None)
      OBVIOUS
    <2>4. b = [a EXCEPT !.pc = "read", !.found = f, !.started = s]
      BY <2>1, <2>2, <2>3, Zenon
    <2> HIDE DEF b, t
    <2>5. QED
      BY <2>1, <2>2, <2>3, <2>4 DEF Locals, RunnerPc, PollPc
  <1>3. act' = [act EXCEPT ![r] = b]
    BY DEF ReadRun
  <1> HIDE DEF b
  <1>4. Has(r, b)
    BY <1>2, <1>3, Becomes
  <1>5. Shape(act'[r])
    BY <1>1, <1>2, <1>4 DEF Has, Shape, Starting, Begun, BegunPc, CasePc, GotPc
  <1>6. TypeInv'
    BY <1>4, <1>5, LocalsOnlyType DEF Has, ReadRun
  <1>7. QED
    BY <1>1, <1>2, <1>4, <1>6 DEF Has

LEMMA ReadFreshnessFacts ==
  ASSUME TypeInv, NEW r \in Runner, ReadFreshness(r)
  PROVE  /\ TypeInv' /\ act[r].pc = "read" /\ \A q \in Runner \ {r} : act'[q] = act[q]
         /\ act'[r].pc = "begin" /\ act'[r].old = fresh
         /\ act'[r].job = act[r].job /\ act'[r].found = act[r].found
         /\ act'[r].started = act[r].started /\ act'[r].error = act[r].error
  <1> DEFINE b == [act[r] EXCEPT !.pc = "begin", !.old = fresh]
  <1>1. act[r].pc = "read" /\ act[r].job \in PollJobs /\ act[r].started \in Instant
        /\ fresh \in Freshness \cup {None}
    BY AtPoll DEF ReadFreshness, At, PollPc, TypeInv, TypeOK
  <1>2. /\ b \in Locals /\ b.pc = "begin" /\ b.old = fresh
        /\ b.job = act[r].job /\ b.found = act[r].found
        /\ b.started = act[r].started /\ b.error = act[r].error
    <2>1. PICK a \in Locals : a = act[r]
      BY LocalsAre
    <2>2. PICK f \in Freshness \cup {None} : f = fresh
      BY <1>1
    <2>3. b = [a EXCEPT !.pc = "begin", !.old = f]
      BY <2>1, <2>2, Zenon
    <2> HIDE DEF b
    <2>4. QED
      BY <2>1, <2>2, <2>3 DEF Locals, RunnerPc, PollPc
  <1>3. act' = [act EXCEPT ![r] = b]
    BY DEF ReadFreshness
  <1> HIDE DEF b
  <1>4. Has(r, b)
    BY <1>2, <1>3, Becomes
  <1>5. Shape(act'[r])
    BY <1>1, <1>2, <1>4 DEF Has, Shape, Starting, Begun, BegunPc, CasePc, GotPc
  <1>6. TypeInv'
    BY <1>4, <1>5, LocalsOnlyType DEF Has, ReadFreshness
  <1>7. QED
    BY <1>1, <1>2, <1>4, <1>6 DEF Has

\* A run of a known start.
LEMMA RunsType ==
  ASSUME TypeInv, NEW t \in Instant, NEW s \in Instant, NEW rev \in Revision \cup {None},
         NEW st \in {"RUNNING", "COMPLETED", "FAILED", "DEAD_LETTER"},
         runs' = [runs EXCEPT ![t] = [status |-> st, started |-> s, revision |-> rev]]
  PROVE  /\ runs' \in [Instant -> Run \cup {None}]
         /\ runs'[t] # None /\ runs'[t].started = s /\ runs'[t].status = st /\ runs'[t].revision = rev
         /\ \A u \in Instant \ {t} : runs'[u] = runs[u]
  <1> DEFINE run == [status |-> st, started |-> s, revision |-> rev]
  <1>1. run \in Run /\ run.started = s /\ run.status = st /\ run.revision = rev
    BY DEF Run
  <1>2. run # None
    BY <1>1, RecordAssumption
  <1> HIDE DEF run
  <1>3. runs' = [runs EXCEPT ![t] = run]
    BY DEF run
  <1>4. QED
    BY <1>1, <1>2, <1>3 DEF TypeInv, TypeOK

LEMMA WriteRunningFacts ==
  ASSUME TypeInv, NEW r \in Runner, WriteRunning(r)
  PROVE  LET t == act[r].job[2] IN
         /\ TypeInv' /\ act[r].pc = "begin" /\ GoesOn(r, "fetch") /\ act'[r].error = act[r].error
         /\ t \in Instant /\ act[r].job = PollJob(t)
         /\ runs'[t] # None /\ runs'[t].started = act[r].started /\ runs'[t].status = "RUNNING"
         /\ \A u \in Instant \ {t} : runs'[u] = runs[u]
         /\ doubled' = IF ~act[r].found /\ runs[t] # None THEN doubled \cup {t} ELSE doubled
  <1> DEFINE t == act[r].job[2]
  <1>1. act[r].pc = "begin" /\ act[r].started \in Instant /\ t \in Instant /\ act[r].job = PollJob(t)
    BY AtPoll DEF WriteRunning, At, PollPc
  <1>2. GoesOn(r, "fetch") /\ act'[r].error = act[r].error
    BY GotoFacts DEF WriteRunning, RunnerPc, PollPc, BegunPc
  <1>3. runs' = [runs EXCEPT ![t] = [status |-> "RUNNING", started |-> act[r].started, revision |-> None]]
    BY DEF WriteRunning
  <1>4. /\ runs' \in [Instant -> Run \cup {None}]
        /\ runs'[t] # None /\ runs'[t].started = act[r].started /\ runs'[t].status = "RUNNING"
        /\ \A u \in Instant \ {t} : runs'[u] = runs[u]
    BY <1>1, <1>3, RunsType
  <1>5. Shape(act'[r])
    BY <1>1, <1>2, GoesOnType DEF GoesOn, PollPc, BegunPc, GotPc, CasePc
  <1>6. TypeInv'
    BY <1>2, <1>4, <1>5, LocalsType DEF GoesOn, WriteRunning, TypeInv, TypeOK, queue
  <1>7. QED
    BY <1>1, <1>2, <1>4, <1>6 DEF WriteRunning

LEMMA FetchFacts ==
  ASSUME TypeInv, NEW r \in Runner, Fetch(r)
  PROVE  /\ TypeInv' /\ act[r].pc = "fetch" /\ GoesOn(r, "compare") /\ act'[r].got = Content
         /\ act'[r].error = act[r].error /\ Content \in Revision
  <1>1. act[r].pc = "fetch" /\ Content \in Revision
    BY ContentType DEF Fetch, At, TypeInv
  <1> DEFINE b == [act[r] EXCEPT !.pc = "compare", !.got = Content]
  <1>2. /\ b \in Locals /\ b.pc = "compare" /\ SameTask(act[r], b) /\ b.got = Content
        /\ b.error = act[r].error
    BY <1>1, LocalsAre, LocalsFetched
  <1>3. act' = [act EXCEPT ![r] = b]
    BY Zenon DEF Fetch
  <1> HIDE DEF b
  <1>4. GoesOn(r, "compare") /\ act'[r].got = Content /\ act'[r].error = act[r].error
    BY <1>2, <1>3, Becomes DEF Has, GoesOn
  <1>5. Shape(act'[r])
    BY <1>1, <1>4, GoesOnType DEF GoesOn, PollPc, BegunPc, CasePc
  <1>6. TypeInv'
    BY <1>4, <1>5, LocalsOnlyType DEF GoesOn, Fetch
  <1>7. QED
    BY <1>1, <1>4, <1>6

\* A poll whose step fails goes to the catch block.
LEMMA CatchFacts ==
  ASSUME TypeInv, NEW r \in Runner, Begun(act[r]), NEW e \in {"retrieval", "store", "duplicate"},
         act' = [act EXCEPT ![r] = [@ EXCEPT !.pc = "catch", !.error = e]],
         UNCHANGED <<published, now, sched, records, queue>>
  PROVE  TypeInv' /\ GoesOn(r, "catch") /\ act'[r].error = e /\ act'[r].got = act[r].got
  <1> DEFINE b == [act[r] EXCEPT !.pc = "catch", !.error = e]
  <1>1. /\ b \in Locals /\ b.pc = "catch" /\ SameTask(act[r], b) /\ b.got = act[r].got /\ b.error = e
    BY LocalsAre, LocalsFailed
  <1>2. act' = [act EXCEPT ![r] = b]
    BY Zenon
  <1> HIDE DEF b
  <1>3. GoesOn(r, "catch") /\ act'[r].error = e /\ act'[r].got = act[r].got
    BY <1>1, <1>2, Becomes DEF Has, GoesOn
  <1>4. act[r].job \in PollJobs /\ act[r].started \in Instant
    BY LocalsAre DEF Shape, Begun, PollPc
  <1>5. Shape(act'[r])
    BY <1>3, <1>4 DEF Shape, GoesOn, SameTask, CasePc, GotPc
  <1>6. TypeInv'
    BY <1>3, <1>5, LocalsOnlyType DEF GoesOn
  <1>7. QED
    BY <1>3, <1>6

LEMMA CompareFacts ==
  ASSUME TypeInv, NEW r \in Runner, Compare(r)
  PROVE  /\ TypeInv' /\ act[r].pc = "compare" /\ act[r].got \in Revision
         /\ act'[r].got = act[r].got /\ act'[r].error = act[r].error
         /\ \/ GoesOn(r, "freshen") /\ head = act[r].got
            \/ GoesOn(r, "persist") /\ head # act[r].got
  <1>1. PICK p \in {"freshen", "persist"} :
          Goto(r, p) /\ (p = "freshen" <=> head = act[r].got)
    BY DEF Compare, Unchanged
  <1>2. act[r].pc = "compare" /\ act[r].got \in Revision
    BY AtPoll DEF Compare, At, PollPc, BegunPc, GotPc
  <1>3. p \in RunnerPc
    BY DEF RunnerPc, PollPc, BegunPc
  <1>4. GoesOn(r, p) /\ act'[r].got = act[r].got /\ act'[r].error = act[r].error
    BY <1>1, <1>3, GotoFacts
  <1>5. Shape(act'[r])
    BY <1>2, <1>4, GoesOnType DEF GoesOn, PollPc, BegunPc, CasePc
  <1>6. TypeInv'
    BY <1>4, <1>5, LocalsOnlyType DEF GoesOn, Compare
  <1>7. QED
    BY <1>1, <1>2, <1>4, <1>6

\* The other polls that have contents in hand which they may yet persist.
Crossing(r) == {q \in Runner \ {r} : act[q].pc \in {"compare", "persist"}}

LEMMA PersistFacts ==
  ASSUME TypeInv, NEW r \in Runner, Persist(r)
  PROVE  /\ TypeInv' /\ act[r].pc = "persist" /\ act[r].got \in Revision /\ act'[r].got = act[r].got
         /\ \/ /\ Accepts(act[r].got) /\ GoesOn(r, "enqueue") /\ act'[r].error = act[r].error
               /\ head' = act[r].got /\ ledger' = ledger \cup {act[r].got}
               /\ crossed' = IF Crossing(r) = {} THEN crossed
                             ELSE crossed \cup {act[r].got} \cup {act[q].got : q \in Crossing(r)}
            \/ /\ ~Accepts(act[r].got) /\ GoesOn(r, "catch") /\ UNCHANGED <<head, ledger, crossed>>
               /\ act'[r].error = "duplicate"
  <1>1. act[r].pc = "persist" /\ act[r].got \in Revision /\ Begun(act[r])
    BY AtPoll DEF Persist, At, PollPc, BegunPc, GotPc, Begun
  <1>2. CASE Accepts(act[r].got)
    <2> DEFINE b == [act[r] EXCEPT !.pc = "enqueue", !.changed = TRUE, !.todo = Case]
    <2>1. /\ b \in Locals /\ b.pc = "enqueue" /\ SameTask(act[r], b)
          /\ b.got = act[r].got /\ b.error = act[r].error
      BY LocalsAre, LocalsAccepted
    <2>2. act' = [act EXCEPT ![r] = b]
      BY <1>2, Zenon DEF Persist
    <2> HIDE DEF b
    <2>3. GoesOn(r, "enqueue") /\ act'[r].got = act[r].got /\ act'[r].error = act[r].error
      BY <2>1, <2>2, Becomes DEF Has, GoesOn
    <2>4. /\ head' = act[r].got /\ ledger' = ledger \cup {act[r].got}
          /\ crossed' = IF Crossing(r) = {} THEN crossed
                        ELSE crossed \cup {act[r].got} \cup {act[q].got : q \in Crossing(r)}
      BY <1>2 DEF Persist, Crossing
    <2>5. head' \in Revision \cup {None} /\ ledger' \in SUBSET Revision
      BY <1>1, <2>4 DEF TypeInv, TypeOK
    <2>6. Shape(act'[r])
      BY <1>1, <2>3, GoesOnType DEF GoesOn, PollPc, BegunPc, CasePc
    <2>7. TypeInv'
      BY <2>3, <2>5, <2>6, LocalsType DEF GoesOn, Persist, TypeInv, TypeOK, queue
    <2>8. QED
      BY <1>1, <1>2, <2>3, <2>4, <2>7
  <1>3. CASE ~Accepts(act[r].got)
    <2>1. /\ act' = [act EXCEPT ![r] = [@ EXCEPT !.pc = "catch", !.error = "duplicate"]]
          /\ UNCHANGED <<published, now, sched, records, queue, crossed>>
      BY <1>3 DEF Persist, records
    <2>2. QED
      BY <1>1, <1>3, <2>1, CatchFacts DEF records
  <1>4. QED
    BY <1>2, <1>3

LEMMA EnqueueCaseFacts ==
  ASSUME TypeInv, NEW r \in Runner, NEW c \in Case, EnqueueCase(r, c)
  PROVE  /\ TypeInv' /\ act[r].pc = "enqueue" /\ GoesOn(r, "enqueue")
         /\ act[r].got \in Revision /\ act'[r].got = act[r].got /\ act'[r].error = act[r].error
         /\ CaseJob(c, act[r].got) \in Job /\ Enqueue(CaseJob(c, act[r].got))
         /\ \A j \in Job : promise'[j] \in {promise[j], "pending"}
         /\ \A j \in Job : promise'[j] = "absent" => promise[j] = "absent"
         /\ \A j \in Job : promise'[j] # promise[j] => j = CaseJob(c, act[r].got)
  <1>1. act[r].pc = "enqueue" /\ act[r].got \in Revision
    BY AtPoll DEF EnqueueCase, At, PollPc, BegunPc, GotPc
  <1>2. CaseJob(c, act[r].got) \in Job /\ Enqueue(CaseJob(c, act[r].got))
    BY <1>1 DEF Job, EnqueueCase
  <1>3. /\ promise' \in [Job -> {"absent", "pending"} \cup Queue!Settled]
        /\ \A j \in Job : promise'[j] \in {promise[j], "pending"}
        /\ \A j \in Job : promise'[j] = "absent" => promise[j] = "absent"
        /\ \A j \in Job : promise'[j] # promise[j] => j = CaseJob(c, act[r].got)
    BY <1>2, EnqueueType
  <1>4. GoesOn(r, "enqueue") /\ act'[r].got = act[r].got /\ act'[r].error = act[r].error
    <2>1. act' = [act EXCEPT ![r].todo = act[r].todo \ {c}]
      BY DEF EnqueueCase
    <2>2. QED
      BY <1>1, <2>1 DEF TypeInv, TypeOK, Locals, GoesOn, SameTask
  <1>5. Shape(act'[r])
    BY <1>1, <1>4, GoesOnType DEF GoesOn, PollPc, BegunPc, CasePc
  <1>6. TypeInv'
    BY <1>3, <1>4, <1>5, LocalsType DEF EnqueueCase, TypeInv, TypeOK, records, GoesOn
  <1>7. QED
    BY <1>1, <1>2, <1>3, <1>4, <1>6

LEMMA WriteReviewFacts ==
  ASSUME TypeInv, NEW r \in Runner, WriteReview(r)
  PROVE  /\ TypeInv' /\ act[r].pc = "enqueue" /\ GoesOn(r, "freshen")
         /\ act[r].got \in Revision /\ act'[r].got = act[r].got /\ act'[r].error = act[r].error
         /\ reviews' = [reviews EXCEPT ![act[r].got] = {}]
         /\ reviews'[act[r].got] = {}
         /\ \A rev \in Revision \ {act[r].got} : reviews'[rev] = reviews[rev]
  <1>1. act[r].pc = "enqueue" /\ act[r].got \in Revision
    BY AtPoll DEF WriteReview, At, PollPc, BegunPc, GotPc
  <1>2. GoesOn(r, "freshen") /\ act'[r].got = act[r].got /\ act'[r].error = act[r].error
    BY GotoFacts DEF WriteReview, RunnerPc, PollPc, BegunPc
  <1>3. reviews' = [reviews EXCEPT ![act[r].got] = {}]
    BY DEF WriteReview
  <1>4. /\ reviews' \in [Revision -> LinkLists \cup {None}] /\ reviews'[act[r].got] = {}
        /\ \A rev \in Revision \ {act[r].got} : reviews'[rev] = reviews[rev]
    BY <1>1, <1>3 DEF TypeInv, TypeOK, LinkLists
  <1>5. Shape(act'[r])
    BY <1>1, <1>2, GoesOnType DEF GoesOn, PollPc, BegunPc, CasePc
  <1>6. TypeInv'
    BY <1>2, <1>4, <1>5, LocalsType DEF WriteReview, TypeInv, TypeOK, queue, GoesOn
  <1>7. QED
    BY <1>1, <1>2, <1>3, <1>4, <1>6

LEMMA WriteFreshnessFacts ==
  ASSUME TypeInv, NEW r \in Runner, WriteFreshness(r)
  PROVE  /\ TypeInv' /\ act[r].pc = "freshen" /\ GoesOn(r, "finish")
         /\ act'[r].got = act[r].got /\ act'[r].error = act[r].error
         /\ fresh' \in Freshness /\ fresh'.change = ChangeState(act[r].old, act[r].changed)
         /\ fresh'.state = "FRESH" /\ fresh'.due = now + PollInterval
  <1>1. act[r].pc = "freshen" /\ act[r].got \in Revision
    BY AtPoll DEF WriteFreshness, At, PollPc, BegunPc, GotPc
  <1>2. GoesOn(r, "finish") /\ act'[r].got = act[r].got /\ act'[r].error = act[r].error
    BY GotoFacts DEF WriteFreshness, RunnerPc, PollPc, BegunPc
  <1>3. ChangeState(act[r].old, act[r].changed) \in {"UNCHANGED", "REVIEW_REQUIRED"}
    BY DEF ChangeState
  <1>4. /\ fresh' \in Freshness /\ fresh'.change = ChangeState(act[r].old, act[r].changed)
        /\ fresh'.state = "FRESH" /\ fresh'.due = NextDue(now)
    BY <1>3, NextDueType DEF WriteFreshness, Freshness, TypeInv, TypeOK
  <1>5. Shape(act'[r])
    BY <1>1, <1>2, GoesOnType DEF GoesOn, PollPc, BegunPc, CasePc
  <1>6. TypeInv'
    BY <1>2, <1>4, <1>5, LocalsType DEF WriteFreshness, TypeInv, TypeOK, queue, GoesOn
  <1>7. QED
    BY <1>1, <1>2, <1>4, <1>6 DEF NextDue

LEMMA CompleteRunFacts ==
  ASSUME TypeInv, NEW r \in Runner, CompleteRun(r)
  PROVE  LET t == act[r].job[2] IN
         /\ TypeInv' /\ act[r].pc = "finish" /\ GoesOn(r, "done") /\ act'[r].error = act[r].error
         /\ act[r].got \in Revision /\ act[r].job \in PollJobs /\ t \in Instant /\ act[r].job = PollJob(t)
         /\ runs'[t] # None /\ runs'[t].started = act[r].started /\ runs'[t].revision = act[r].got
         /\ \A u \in Instant \ {t} : runs'[u] = runs[u]
  <1> DEFINE t == act[r].job[2]
  <1>1. /\ act[r].pc = "finish" /\ act[r].got \in Revision /\ act[r].started \in Instant
        /\ act[r].job \in PollJobs /\ t \in Instant /\ act[r].job = PollJob(t)
    BY AtPoll DEF CompleteRun, At, PollPc, BegunPc, GotPc
  <1>2. GoesOn(r, "done") /\ act'[r].error = act[r].error
    BY GotoFacts DEF CompleteRun, RunnerPc
  <1>3. runs' = [runs EXCEPT ![t] = [status |-> "COMPLETED", started |-> act[r].started, revision |-> act[r].got]]
    BY DEF CompleteRun
  <1>4. /\ runs' \in [Instant -> Run \cup {None}]
        /\ runs'[t] # None /\ runs'[t].started = act[r].started /\ runs'[t].revision = act[r].got
        /\ \A u \in Instant \ {t} : runs'[u] = runs[u]
    <2>1. PICK rev \in Revision : rev = act[r].got
      BY <1>1
    <2>2. PICK s \in Instant : s = act[r].started
      BY <1>1
    <2> HIDE DEF t
    <2>3. runs' = [runs EXCEPT ![t] = [status |-> "COMPLETED", started |-> s, revision |-> rev]]
      BY <1>3, <2>1, <2>2
    <2>4. QED
      BY <1>1, <2>1, <2>2, <2>3, RunsType
  <1>5. Shape(act'[r])
    BY <1>1, <1>2, GoesOnType DEF GoesOn, PollPc, BegunPc, GotPc, CasePc
  <1>6. TypeInv'
    BY <1>2, <1>4, <1>5, LocalsType DEF CompleteRun, TypeInv, TypeOK, queue, GoesOn
  <1>7. QED
    BY <1>1, <1>2, <1>4, <1>6

LEMMA CatchPollFacts ==
  ASSUME TypeInv, NEW r \in Runner, CatchPoll(r)
  PROVE  /\ TypeInv' /\ act[r].pc = "catch" /\ GoesOn(r, "record")
         /\ act'[r].got = act[r].got /\ act'[r].error = act[r].error
         /\ fresh' \in Freshness /\ fresh'.due = now + PollInterval
         /\ fresh'.state = "UNAVAILABLE" /\ fresh'.error = act[r].error
         /\ fresh'.change = IF act[r].old = None THEN "UNCHANGED" ELSE act[r].old.change
  <1> DEFINE old == act[r].old
  <1>1. act[r].pc = "catch"
    BY DEF CatchPoll, At
  <1>2. GoesOn(r, "record") /\ act'[r].got = act[r].got /\ act'[r].error = act[r].error
    BY GotoFacts DEF CatchPoll, RunnerPc, PollPc, BegunPc
  <1>3. /\ fresh' \in Freshness /\ fresh'.due = NextDue(now)
        /\ fresh'.state = "UNAVAILABLE" /\ fresh'.error = act[r].error
        /\ fresh'.change = IF old = None THEN "UNCHANGED" ELSE old.change
    <2>1. old \in Freshness \cup {None} /\ act[r].error \in ErrorKind
      BY LocalsAre DEF Locals
    <2>2. QED
      BY <2>1, NextDueType DEF CatchPoll, Freshness, ErrorKind
  <1>4. Shape(act'[r])
    BY <1>1, <1>2, GoesOnType DEF GoesOn, PollPc, BegunPc, GotPc, CasePc
  <1>5. TypeInv'
    BY <1>2, <1>3, <1>4, LocalsType DEF CatchPoll, TypeInv, TypeOK, queue, GoesOn
  <1>6. QED
    BY <1>1, <1>2, <1>3, <1>5 DEF NextDue

LEMMA FailRunFacts ==
  ASSUME TypeInv, NEW r \in Runner, FailRun(r)
  PROVE  LET t == act[r].job[2] IN
         /\ TypeInv' /\ act[r].pc = "record" /\ GoesOn(r, "failed")
         /\ act'[r].got = act[r].got /\ act'[r].error = act[r].error
         /\ act[r].job \in PollJobs /\ t \in Instant /\ act[r].job = PollJob(t)
         /\ runs'[t] # None /\ runs'[t].started = act[r].started /\ runs'[t].status = "FAILED"
         /\ \A u \in Instant \ {t} : runs'[u] = runs[u]
  <1> DEFINE t == act[r].job[2]
  <1>1. /\ act[r].pc = "record" /\ act[r].started \in Instant
        /\ act[r].job \in PollJobs /\ t \in Instant /\ act[r].job = PollJob(t)
    BY AtPoll DEF FailRun, At, PollPc, BegunPc
  <1>2. GoesOn(r, "failed") /\ act'[r].got = act[r].got /\ act'[r].error = act[r].error
    BY GotoFacts DEF FailRun, RunnerPc
  <1>3. runs' = [runs EXCEPT ![t] = [status |-> "FAILED", started |-> act[r].started, revision |-> None]]
    BY DEF FailRun
  <1>4. /\ runs' \in [Instant -> Run \cup {None}]
        /\ runs'[t] # None /\ runs'[t].started = act[r].started /\ runs'[t].status = "FAILED"
        /\ \A u \in Instant \ {t} : runs'[u] = runs[u]
    BY <1>1, <1>3, RunsType
  <1>5. Shape(act'[r])
    BY <1>1, <1>2, GoesOnType DEF GoesOn, PollPc, BegunPc, GotPc, CasePc
  <1>6. TypeInv'
    BY <1>2, <1>4, <1>5, LocalsType DEF FailRun, TypeInv, TypeOK, queue, GoesOn
  <1>7. QED
    BY <1>1, <1>2, <1>4, <1>6

LEMMA WriteCandidateFacts ==
  ASSUME TypeInv, NEW r \in Runner, WriteCandidate(r)
  PROVE  /\ TypeInv' /\ act[r].pc = "candidate" /\ GoesOn(r, "link") /\ act'[r].error = act[r].error
         /\ candidates' = [candidates EXCEPT ![act[r].job[3]] = @ \cup {act[r].job[2]}]
  <1>1. act[r].pc = "candidate"
    BY DEF WriteCandidate, At
  <1>2. GoesOn(r, "link") /\ act'[r].error = act[r].error
    BY GotoFacts DEF WriteCandidate, RunnerPc, CasePc
  <1>3. Shape(act'[r])
    BY <1>1, <1>2, GoesOnType DEF GoesOn, PollPc, BegunPc, GotPc, CasePc
  <1>4. TypeInv'
    BY <1>2, <1>3, LocalsType DEF WriteCandidate, TypeInv, TypeOK, queue, GoesOn
  <1>5. QED
    BY <1>1, <1>2, <1>4 DEF WriteCandidate

LEMMA ReadReviewFacts ==
  ASSUME TypeInv, NEW r \in Runner, ReadReview(r)
  PROVE  /\ TypeInv' /\ act[r].pc = "link" /\ act'[r].error = act[r].error
         /\ raced' = IF AtReview(act[r].job[3]) = {} THEN raced ELSE raced \cup {act[r].job[3]}
         /\ \/ reviews[act[r].job[3]] = None /\ GoesOn(r, "done")
            \/ /\ GoesOn(r, "relink") /\ act'[r].seen = reviews[act[r].job[3]]
               /\ reviews[act[r].job[3]] # None
  <1>1. act[r].pc = "link" /\ act[r].job[3] \in Revision
    BY AtCase DEF ReadReview, At, CasePc
  <1>2. raced' = IF AtReview(act[r].job[3]) = {} THEN raced ELSE raced \cup {act[r].job[3]}
    BY DEF ReadReview
  <1>3. CASE reviews[act[r].job[3]] = None
    <2>1. Goto(r, "done")
      BY <1>3 DEF ReadReview, Goto
    <2>2. GoesOn(r, "done") /\ act'[r].error = act[r].error
      BY <2>1, GotoFacts DEF RunnerPc
    <2>3. Shape(act'[r])
      BY <1>1, <2>2, GoesOnType DEF GoesOn, PollPc, BegunPc, GotPc, CasePc
    <2>4. TypeInv'
      BY <2>2, <2>3, LocalsOnlyType DEF ReadReview, GoesOn
    <2>5. QED
      BY <1>1, <1>2, <1>3, <2>2, <2>4
  <1>4. CASE reviews[act[r].job[3]] # None
    <2> DEFINE links == reviews[act[r].job[3]]
               b == [act[r] EXCEPT !.pc = "relink", !.seen = links]
    <2>1. links \in LinkLists
      <3>1. reviews \in [Revision -> LinkLists \cup {None}]
        BY DEF TypeInv, TypeOK
      <3>2. links \in LinkLists \cup {None}
        BY <1>1, <3>1, Zenon
      <3>3. QED
        BY <1>4, <3>2
    <2>2. /\ b \in Locals /\ b.pc = "relink" /\ SameTask(act[r], b) /\ b.seen = links
          /\ b.error = act[r].error
      BY <2>1, LocalsAre, LocalsRead
    <2>3. act' = [act EXCEPT ![r] = b]
      BY <1>4, Zenon DEF ReadReview
    <2> HIDE DEF b
    <2>4. GoesOn(r, "relink") /\ act'[r].seen = links /\ act'[r].error = act[r].error
      BY <2>2, <2>3, Becomes DEF Has, GoesOn
    <2>5. Shape(act'[r])
      BY <1>1, <2>4, GoesOnType DEF GoesOn, PollPc, BegunPc, GotPc, CasePc
    <2>6. TypeInv'
      BY <2>4, <2>5, LocalsOnlyType DEF ReadReview, GoesOn
    <2>7. QED
      BY <1>1, <1>2, <1>4, <2>4, <2>6
  <1>5. QED
    BY <1>3, <1>4

LEMMA WriteLinksFacts ==
  ASSUME TypeInv, NEW r \in Runner, WriteLinks(r)
  PROVE  LET rev == act[r].job[3] IN
         /\ TypeInv' /\ act[r].pc = "relink" /\ GoesOn(r, "done") /\ act'[r].error = act[r].error
         /\ act[r].job[2] \in Case /\ rev \in Revision /\ act[r].job = CaseJob(act[r].job[2], rev)
         /\ reviews' = [reviews EXCEPT ![rev] = Links(r)]
         /\ reviews'[rev] = Links(r) /\ Links(r) # None
         /\ \A u \in Revision \ {rev} : reviews'[u] = reviews[u]
  <1> DEFINE rev == act[r].job[3]
  <1>1. /\ act[r].pc = "relink" /\ act[r].job[2] \in Case /\ rev \in Revision
        /\ act[r].job = CaseJob(act[r].job[2], rev)
    BY AtCase DEF WriteLinks, At, CasePc
  <1>2. GoesOn(r, "done") /\ act'[r].error = act[r].error
    BY GotoFacts DEF WriteLinks, RunnerPc
  <1>3. Links(r) \in LinkLists
    BY <1>1, LocalsAre DEF Links, Locals, LinkLists
  <1>4. reviews' = [reviews EXCEPT ![rev] = Links(r)]
    BY DEF WriteLinks
  <1>5. /\ reviews' \in [Revision -> LinkLists \cup {None}]
        /\ reviews'[rev] = Links(r) /\ \A u \in Revision \ {rev} : reviews'[u] = reviews[u]
    <2> HIDE DEF rev
    <2>1. QED
      BY <1>1, <1>3, <1>4 DEF TypeInv, TypeOK
  <1>6. Links(r) # None
    BY <1>3, RecordAssumption DEF LinkLists
  <1>7. Shape(act'[r])
    BY <1>1, <1>2, GoesOnType DEF GoesOn, PollPc, BegunPc, GotPc, CasePc
  <1>8. TypeInv'
    BY <1>2, <1>5, <1>7, LocalsType DEF WriteLinks, TypeInv, TypeOK, queue, GoesOn
  <1>9. QED
    BY <1>1, <1>2, <1>4, <1>5, <1>6, <1>8

\* Only a handler that is done completes its job; nothing reopens one.
LEMMA SettleFacts ==
  ASSUME TypeInv, NEW r \in Runner, Settle(r)
  PROVE  /\ TypeInv' /\ act[r].pc \in {"done", "failed"} /\ act[r].job \in Job
         /\ act'[r].pc = "idle" /\ act'[r].error = "none" /\ \A q \in Runner \ {r} : act'[q] = act[q]
         /\ \A j \in Job : promise'[j] # promise[j] => j = act[r].job
         /\ \A j \in Job : promise'[j] = "completed" => promise[j] = "completed" \/ act[r].pc = "done"
         /\ \A j \in Job : promise'[j] = "absent" <=> promise[j] = "absent"
  <1>1. act[r].pc \in {"done", "failed"} /\ act[r].job \in Job
    BY LocalsAre DEF Settle, At, Shape
  <1>2. /\ act' \in [Runner -> Locals] /\ act'[r].pc = "idle" /\ act'[r].error = "none"
        /\ \A q \in Runner \ {r} : act'[q] = act[q]
    BY ToIdle DEF Settle, Leaves
  <1>3. /\ promise' \in [Job -> {"absent", "pending"} \cup Queue!Settled]
        /\ \A j \in Job : promise'[j] # promise[j] => j = act[r].job
        /\ \A j \in Job : promise'[j] = "completed" => promise[j] = "completed" \/ act[r].pc = "done"
        /\ \A j \in Job : promise'[j] = "absent" <=> promise[j] = "absent"
    <2> DEFINE j == act[r].job
    <2>1. CASE UNCHANGED promise
      BY <2>1 DEF TypeInv, TypeOK
    <2>2. CASE promise[j] = "pending" /\ act[r].pc = "done" /\ Queue!Complete(j)
      <3>1. promise' = [promise EXCEPT ![j] = "completed"]
        BY <2>2 DEF Queue!Complete
      <3>2. QED
        BY <1>1, <2>2, <3>1 DEF TypeInv, TypeOK, Queue!Settled
    <2>3. CASE promise[j] = "pending" /\ Queue!Fail(j)
      <3>1. PICK p \in {"deadLetter", "pending"} : promise' = [promise EXCEPT ![j] = p]
        BY <2>3 DEF Queue!Fail
      <3>2. QED
        BY <1>1, <2>3, <3>1 DEF TypeInv, TypeOK, Queue!Settled
    <2>4. QED
      BY <2>1, <2>2, <2>3 DEF Settle, At, queue
  <1>4. Shape(act'[r])
    BY <1>2 DEF Shape, Starting, Begun, PollPc, BegunPc, CasePc, GotPc
  <1>5. TypeInv'
    BY <1>2, <1>3, <1>4, LocalsType DEF Settle, TypeInv, TypeOK, records
  <1>6. QED
    BY <1>1, <1>2, <1>3, <1>5

\* A fault of one runner: its poll goes to the catch block, its handler ends
\* without success, it is gone, or it takes a job that another one is at.
LEMMA FaultFacts ==
  ASSUME TypeInv, NEW r \in Runner, FaultStep(r)
  PROVE  /\ TypeInv' /\ \A q \in Runner \ {r} : act'[q] = act[q]
         /\ UNCHANGED <<published, now, sched, records, queue, crossed, raced, doubled>>
         /\ faults < MaxFaults /\ faults' = faults + 1
         /\ overtaken' \in {overtaken, overtaken \ {r}} /\ (overtaken' # overtaken => act'[r].pc = "idle")
         /\ cutOff' = IF act[r].pc = "enqueue" THEN cutOff \cup {act[r].got} ELSE cutOff
         /\ \/ /\ GoesOn(r, "catch") /\ Begun(act[r]) /\ act'[r].got = act[r].got
               /\ act[r].pc \notin {"catch", "record"}
               /\ act'[r].error \in {"retrieval", "store"} /\ act'[r].error \in Faults
            \/ /\ GoesOn(r, "failed") /\ act[r].pc \in PollPc \cup CasePc \cup {"done"}
               /\ act'[r].error = act[r].error /\ act'[r].got = act[r].got
            \/ act'[r].pc = "idle" /\ act'[r].error = "none"
            \/ /\ act[r].pc = "idle" /\ act'[r].pc \in {"start", "candidate"}
               /\ act'[r].pc = "candidate" <=> act'[r].job \in CaseJobs
               /\ act'[r].job \in Job /\ promise[act'[r].job] = "pending"
               /\ act'[r].error = act[r].error
  <1>1. CASE FetchFails(r)
    <2>1. /\ act[r].pc = "fetch" /\ Begun(act[r]) /\ "retrieval" \in Faults
          /\ act' = [act EXCEPT ![r] = [@ EXCEPT !.pc = "catch", !.error = "retrieval"]]
          /\ UNCHANGED <<published, now, sched, records, queue, observed>>
          /\ faults < MaxFaults /\ faults' = faults + 1
      BY <1>1 DEF FetchFails, Fault, At, Begun, BegunPc
    <2>2. TypeInv' /\ GoesOn(r, "catch") /\ act'[r].error = "retrieval" /\ act'[r].got = act[r].got
      BY <2>1, CatchFacts
    <2>3. QED
      BY <2>1, <2>2 DEF GoesOn, observed
  <1>2. CASE StoreFails(r)
    <2>1. /\ "store" \in Faults /\ UNCHANGED <<published, now, sched, records, queue, crossed, raced, doubled, overtaken>>
          /\ faults < MaxFaults /\ faults' = faults + 1
          /\ cutOff' = IF act[r].pc = "enqueue" THEN cutOff \cup {act[r].got} ELSE cutOff
      BY <1>2 DEF StoreFails, Fault, BreaksOff, At
    <2>2. CASE Guarded(r) /\ act' = [act EXCEPT ![r] = [@ EXCEPT !.pc = "catch", !.error = "store"]]
      <3>1. Begun(act[r])
        <4>1. CASE act[r].pc \in BegunPc
          BY <4>1 DEF Begun
        <4>2. CASE act[r].pc = "done" /\ act[r].job[1] = "poll"
          <5>1. act[r].job \in Job
            BY <4>2, LocalsAre DEF Shape
          <5>2. act[r].job \in PollJobs
            BY <4>2, <5>1, Jobs, JobKinds
          <5>3. QED
            BY <4>2, <5>2 DEF Begun
        <4>3. QED
          BY <2>2, <4>1, <4>2 DEF Guarded, At, BegunPc
      <3>2. TypeInv' /\ GoesOn(r, "catch") /\ act'[r].error = "store" /\ act'[r].got = act[r].got
        BY <2>1, <2>2, <3>1, CatchFacts
      <3>3. act[r].pc \notin {"catch", "record"}
        BY <2>2 DEF Guarded, At
      <3>4. QED
        BY <2>1, <3>1, <3>2, <3>3 DEF GoesOn
    <2>3. CASE Unguarded(r) /\ Goto(r, "failed")
      <3>1. GoesOn(r, "failed") /\ act'[r].error = act[r].error /\ act'[r].got = act[r].got
        BY <2>3, GotoFacts DEF RunnerPc
      <3>2. act[r].pc \in PollPc \cup CasePc \cup {"done"}
        BY <2>3 DEF Unguarded, At, PollPc, BegunPc, CasePc
      <3>3. act[r].job \in Job
        BY <3>2, AtPoll, AtCase, LocalsAre DEF Shape
      <3>4. Shape(act'[r])
        BY <3>1, <3>3 DEF Shape, Starting, Begun, GoesOn, SameTask, PollPc, BegunPc, CasePc, GotPc
      <3>5. TypeInv'
        BY <2>1, <3>1, <3>4, LocalsOnlyType DEF GoesOn
      <3>6. QED
        BY <2>1, <3>1, <3>2, <3>5 DEF GoesOn
    <2>4. QED
      BY <1>2, <2>2, <2>3 DEF StoreFails
  <1>3. CASE Lose(r)
    <2>1. /\ UNCHANGED <<published, now, sched, records, queue, crossed, raced, doubled>>
          /\ faults < MaxFaults /\ faults' = faults + 1 /\ overtaken' = overtaken \ {r}
          /\ cutOff' = IF act[r].pc = "enqueue" THEN cutOff \cup {act[r].got} ELSE cutOff
      BY <1>3 DEF Lose, Fault, Leaves, BreaksOff, At
    <2>2. /\ act' \in [Runner -> Locals] /\ act'[r].pc = "idle" /\ act'[r].error = "none"
          /\ \A q \in Runner \ {r} : act'[q] = act[q]
      BY <1>3, ToIdle DEF Lose, Leaves
    <2>3. Shape(act'[r])
      BY <2>2 DEF Shape, Starting, Begun, PollPc, BegunPc, CasePc, GotPc
    <2>4. TypeInv'
      BY <2>1, <2>2, <2>3, LocalsOnlyType
    <2>5. QED
      BY <2>1, <2>2, <2>4
  <1>4. ASSUME NEW j \in Job, Retake(r, j)
        PROVE  /\ TypeInv' /\ \A q \in Runner \ {r} : act'[q] = act[q]
               /\ UNCHANGED <<published, now, sched, records, queue, crossed, raced, doubled>>
               /\ faults < MaxFaults /\ faults' = faults + 1
               /\ overtaken' = overtaken /\ cutOff' = cutOff
               /\ act[r].pc = "idle" /\ act'[r].pc \in {"start", "candidate"}
               /\ act'[r].pc = "candidate" <=> act'[r].job \in CaseJobs
               /\ act'[r].job \in Job /\ promise[act'[r].job] = "pending"
               /\ act'[r].error = act[r].error
    <2>1. /\ UNCHANGED <<published, now, sched, records, queue, crossed, cutOff, raced, doubled, overtaken>>
          /\ act[r].pc = "idle" /\ promise[j] = "pending" /\ act' = [act EXCEPT ![r] = Taken(r, j)]
          /\ faults < MaxFaults /\ faults' = faults + 1
      BY <1>4 DEF Retake, Fault, At
    <2>2. QED
      BY <2>1, TakeFacts
  <1>5. QED
    BY <1>1, <1>2, <1>3, <1>4 DEF FaultStep

LEMMA TakeStep ==
  ASSUME TypeInv, NEW r \in Runner, NEW j \in Job, Take(r, j)
  PROVE  /\ TypeInv' /\ act[r].pc = "idle" /\ \A q \in Runner \ {r} : act'[q] = act[q]
         /\ act'[r].pc \in {"start", "candidate"} /\ act'[r].job = j
         /\ act'[r].pc = "candidate" <=> j \in CaseJobs
         /\ act'[r].error = act[r].error /\ promise[j] = "pending"
         /\ UNCHANGED <<published, now, sched, records, queue, observed, faults>>
  <1>1. /\ act[r].pc = "idle" /\ act' = [act EXCEPT ![r] = Taken(r, j)]
        /\ UNCHANGED <<published, now, sched, records, queue, observed, faults>>
        /\ promise[j] = "pending"
    BY DEF Take, At
  <1>2. QED
    BY <1>1, TakeFacts

LEMMA TypeInvHolds == Spec => []TypeInv
  <1>1. Init => TypeInv
    <2> SUFFICES ASSUME Init PROVE TypeInv
      OBVIOUS
    <2>1. Idle \in Locals /\ Idle.pc = "idle" /\ 0 \in Instant
      BY ResearchAssumption DEF Idle, Locals, RunnerPc, Instant, LinkLists, ErrorKind
    <2>2. TypeOK
      <3>1. /\ published \in Seq(Revision) /\ published # << >>
            /\ now \in Instant /\ head \in Revision \cup {None}
            /\ ledger \in SUBSET Revision /\ fresh \in Freshness \cup {None}
        BY <2>1, ResearchAssumption DEF Init
      <3>2. /\ runs \in [Instant -> Run \cup {None}]
            /\ reviews \in [Revision -> LinkLists \cup {None}]
        BY DEF Init
      <3>3. /\ promise \in [Job -> {"absent", "pending"} \cup Queue!Settled]
            /\ act \in [Runner -> Locals]
        BY <2>1 DEF Init
      <3>4. sched \in [pc : {"idle", "sync", "schedule", "refresh"}, snap : Freshness \cup {None}]
        BY DEF Init, Quiet
      <3>5. QED
        BY <3>1, <3>2, <3>3, <3>4 DEF TypeOK
    <2>3. Shapes
      BY <2>1 DEF Init, Shapes, Shape, Starting, Begun, PollPc, BegunPc, CasePc, GotPc, Quiet
    <2>4. QED
      BY <2>2, <2>3 DEF TypeInv
  <1>2. TypeInv /\ [Next]_vars => TypeInv'
    <2> SUFFICES ASSUME TypeInv, [Next]_vars PROVE TypeInv'
      OBVIOUS
    <2>1. CASE UNCHANGED vars
      BY <2>1 DEF vars, records, queue, TypeInv, TypeOK, Shapes
    <2>2. ASSUME NEW r \in Runner, HandlerStep(r) PROVE TypeInv'
      BY <2>2, ReadRunFacts, ReadFreshnessFacts, WriteRunningFacts, FetchFacts, CompareFacts, PersistFacts,
         EnqueueCaseFacts, WriteReviewFacts, WriteFreshnessFacts, CompleteRunFacts, CatchPollFacts,
         FailRunFacts, WriteCandidateFacts, ReadReviewFacts, WriteLinksFacts, SettleFacts DEF HandlerStep
    <2>3. ASSUME NEW r \in Runner, NEW j \in Job, Take(r, j) PROVE TypeInv'
      BY <2>3, TakeStep
    <2>4. ASSUME NEW r \in Runner, FaultStep(r) PROVE TypeInv'
      BY <2>4, FaultFacts
    <2>5. QED
      BY <2>1, <2>2, <2>3, <2>4, SurroundingsType, SchedulerType DEF Next
  <1>3. QED
    BY <1>1, <1>2, PTL DEF Spec

-------------------------------------------------------------------------------
(* The start of a run *)

\* Polls that know of a run of their slot: they found one or have recorded it.
HasRun(a) == Begun(a) \/ (Starting(a) /\ a.found)

\* A poll that knows of the run has the start of the run, but for a slot of which
\* two polls began a run.
StartedInv ==
  \A r \in Runner : HasRun(act[r]) =>
    LET t == act[r].job[2] IN
    runs[t] # None /\ (runs[t].started = act[r].started \/ t \in doubled)

KeepsStart ==
  \A t \in Instant : runs[t] # None
    => /\ runs'[t] # None
       /\ runs'[t].started # runs[t].started => t \in doubled'

LEMMA HasRunType ==
  ASSUME TypeInv, NEW r \in Runner, HasRun(act[r])
  PROVE  act[r].job \in PollJobs /\ act[r].job[2] \in Instant
  <1>1. act[r].job \in PollJobs
    BY AtPoll DEF HasRun, Begun, Starting, PollPc
  <1>2. QED
    BY <1>1, JobKinds

\* A step of one runner, or of none, that leaves the runs.
LEMMA StartedStays ==
  ASSUME StartedInv, UNCHANGED <<runs, doubled>>, NEW r, \A q \in Runner \ {r} : act'[q] = act[q],
         r \in Runner /\ HasRun(act'[r]) => HasRun(act[r]) /\ SameTask(act[r], act'[r])
  PROVE  StartedInv' /\ KeepsStart
  <1>1. ASSUME NEW q \in Runner, HasRun(act'[q]) PROVE HasRun(act[q]) /\ SameTask(act[q], act'[q])
    BY <1>1 DEF SameTask
  <1>2. StartedInv'
    BY <1>1 DEF StartedInv, SameTask
  <1>3. QED
    BY <1>2 DEF KeepsStart

\* A poll that writes the run of its slot writes the start that it had, and every
\* other poll of that slot has the same one, unless it wrote a run not looked for.
LEMMA StartedWritten ==
  ASSUME TypeInv, StartedInv, NEW r \in Runner, NEW t \in Instant, act[r].job[2] = t,
         \A q \in Runner \ {r} : act'[q] = act[q], SameTask(act[r], act'[r]),
         runs'[t] # None, runs'[t].started = act[r].started,
         \A u \in Instant \ {t} : runs'[u] = runs[u],
         doubled \subseteq doubled', HasRun(act[r]) \/ runs[t] = None \/ t \in doubled'
  PROVE  StartedInv' /\ KeepsStart
  <1>1. runs[t] # None => runs[t].started = act[r].started \/ t \in doubled'
    BY DEF StartedInv
  <1>2. ASSUME NEW q \in Runner, HasRun(act'[q])
        PROVE  LET u == act'[q].job[2] IN
               runs'[u] # None /\ (runs'[u].started = act'[q].started \/ u \in doubled')
    <2>1. CASE q = r
      BY <2>1 DEF SameTask
    <2>2. CASE q # r
      <3>1. act'[q] = act[q] /\ act[q].job[2] \in Instant
            /\ runs[act[q].job[2]] # None
            /\ (runs[act[q].job[2]].started = act[q].started \/ act[q].job[2] \in doubled)
        BY <1>2, <2>2, HasRunType DEF StartedInv
      <3>2. QED
        BY <1>1, <3>1
    <2>3. QED
      BY <2>1, <2>2
  <1>3. StartedInv'
    BY <1>2 DEF StartedInv
  <1>4. KeepsStart
    BY <1>1 DEF KeepsStart
  <1>5. QED
    BY <1>3, <1>4

LEMMA StartedStep ==
  ASSUME TypeInv, StartedInv, [Next]_vars
  PROVE  StartedInv' /\ KeepsStart
  <1>1. CASE UNCHANGED <<runs, doubled, act>>
    BY <1>1, StartedStays DEF SameTask
  <1>2. CASE SyncDeadLetters
    <2>1. \A t \in Instant : /\ runs[t] # None => runs'[t] # None /\ runs'[t].started = runs[t].started
      <3>1. ASSUME NEW t \in Instant, runs[t] # None
            PROVE  runs'[t] # None /\ runs'[t].started = runs[t].started
        <4>1. runs[t] \in Run
          BY <3>1 DEF TypeInv, TypeOK
        <4>2. [runs[t] EXCEPT !.status = "DEAD_LETTER"] \in Run
              /\ [runs[t] EXCEPT !.status = "DEAD_LETTER"].started = runs[t].started
          BY <4>1 DEF Run
        <4>3. runs'[t] = [runs[t] EXCEPT !.status = "DEAD_LETTER"] \/ runs'[t] = runs[t]
          BY <1>2 DEF SyncDeadLetters
        <4>4. QED
          BY <3>1, <4>2, <4>3, RecordAssumption
      <3>2. QED
        BY <3>1
    <2>2. UNCHANGED <<act, doubled>>
      BY <1>2 DEF SyncDeadLetters, observed
    <2>3. QED
      BY <2>1, <2>2, HasRunType DEF StartedInv, KeepsStart
  <1>3. ASSUME NEW r \in Runner, NEW j \in Job, Take(r, j) PROVE StartedInv' /\ KeepsStart
    BY <1>3, TakeStep, StartedStays DEF records, observed, HasRun, Begun, Starting, BegunPc
  <1>4. ASSUME NEW r \in Runner, ReadRun(r) PROVE StartedInv' /\ KeepsStart
    <2>1. UNCHANGED <<runs, doubled>> /\ ReadRun(r)
      BY <1>4 DEF ReadRun, records, observed
    <2>2. /\ \A q \in Runner \ {r} : act'[q] = act[q]
          /\ act'[r].job = act[r].job
          /\ act'[r].found => runs[act[r].job[2]] # None
          /\ act'[r].started = StartedAt(act[r].job[2])
          /\ HasRun(act'[r]) => act'[r].found
      BY <1>4, ReadRunFacts DEF HasRun, Begun, BegunPc
    <2>3. StartedInv'
      BY <2>1, <2>2 DEF StartedInv, StartedAt
    <2>4. QED
      BY <2>1, <2>3 DEF KeepsStart
  <1>5. ASSUME NEW r \in Runner,
               ReadFreshness(r) \/ Fetch(r) \/ Compare(r) \/ Persist(r)
                 \/ (\E c \in Case : EnqueueCase(r, c)) \/ WriteReview(r) \/ WriteFreshness(r) \/ CatchPoll(r)
        PROVE  StartedInv' /\ KeepsStart
    <2>1. UNCHANGED <<runs, doubled>>
      BY <1>5 DEF ReadFreshness, Fetch, Compare, Persist, EnqueueCase, WriteReview, WriteFreshness,
                  CatchPoll, records, observed
    <2>2. CASE ReadFreshness(r)
      <3>1. /\ \A q \in Runner \ {r} : act'[q] = act[q]
            /\ act'[r].job = act[r].job /\ act'[r].found = act[r].found /\ act'[r].started = act[r].started
            /\ HasRun(act'[r]) => HasRun(act[r])
        BY <2>2, ReadFreshnessFacts DEF HasRun, Begun, Starting, BegunPc
      <3>2. StartedInv'
        BY <2>1, <3>1 DEF StartedInv
      <3>3. QED
        BY <2>1, <3>2 DEF KeepsStart
    <2>3. CASE ~ReadFreshness(r)
      <3>1. act[r].pc \in BegunPc /\ GoesOn(r, act'[r].pc)
        BY <1>5, <2>3, FetchFacts, CompareFacts, PersistFacts, EnqueueCaseFacts, WriteReviewFacts,
           WriteFreshnessFacts, CatchPollFacts DEF GoesOn, BegunPc
      <3>2. QED
        BY <2>1, <3>1, StartedStays DEF GoesOn, HasRun, Begun
    <2>4. QED
      BY <2>2, <2>3
  <1>6. ASSUME NEW r \in Runner, WriteRunning(r) PROVE StartedInv' /\ KeepsStart
    <2> DEFINE t == act[r].job[2]
    <2>1. /\ act[r].pc = "begin" /\ GoesOn(r, "fetch") /\ t \in Instant
          /\ runs'[t] # None /\ runs'[t].started = act[r].started
          /\ \A u \in Instant \ {t} : runs'[u] = runs[u]
          /\ doubled' = IF ~act[r].found /\ runs[t] # None THEN doubled \cup {t} ELSE doubled
      BY <1>6, WriteRunningFacts
    <2>2. doubled \subseteq doubled' /\ (HasRun(act[r]) \/ runs[t] = None \/ t \in doubled')
      BY <2>1 DEF HasRun, Starting
    <2> HIDE DEF t
    <2>3. act[r].job[2] = t
      BY DEF t
    <2>4. QED
      BY <2>1, <2>2, <2>3, StartedWritten DEF GoesOn
  <1>7. ASSUME NEW r \in Runner, CompleteRun(r) \/ FailRun(r) PROVE StartedInv' /\ KeepsStart
    <2> DEFINE t == act[r].job[2]
    <2>1. /\ HasRun(act[r]) /\ t \in Instant
          /\ \A q \in Runner \ {r} : act'[q] = act[q]
          /\ SameTask(act[r], act'[r])
          /\ runs'[t] # None /\ runs'[t].started = act[r].started
          /\ \A u \in Instant \ {t} : runs'[u] = runs[u]
      BY <1>7, CompleteRunFacts, FailRunFacts DEF GoesOn, HasRun, Begun, BegunPc
    <2>2. doubled' = doubled
      BY <1>7 DEF CompleteRun, FailRun, observed
    <2> HIDE DEF t
    <2>3. act[r].job[2] = t
      BY DEF t
    <2>4. QED
      BY <2>1, <2>2, <2>3, StartedWritten
  <1>8. ASSUME NEW r \in Runner, WriteCandidate(r) \/ ReadReview(r) \/ WriteLinks(r)
        PROVE  StartedInv' /\ KeepsStart
    <2>1. UNCHANGED <<runs, doubled>>
      BY <1>8 DEF WriteCandidate, ReadReview, WriteLinks, records, observed
    <2>2. act[r].pc \in CasePc /\ GoesOn(r, act'[r].pc) /\ act'[r].pc \in CasePc \cup {"done"}
      BY <1>8, WriteCandidateFacts, ReadReviewFacts, WriteLinksFacts DEF GoesOn, CasePc
    <2>3. act'[r].job \notin PollJobs
      BY <2>2, AtCase, JobKinds DEF GoesOn, SameTask
    <2>4. ~HasRun(act'[r])
      BY <2>2, <2>3 DEF HasRun, Begun, Starting, BegunPc, CasePc
    <2>5. QED
      BY <2>1, <2>2, <2>4, StartedStays DEF GoesOn
  <1>9. ASSUME NEW r \in Runner, Settle(r) PROVE StartedInv' /\ KeepsStart
    <2>1. UNCHANGED <<runs, doubled>>
      BY <1>9 DEF Settle, records
    <2>2. QED
      BY <1>9, <2>1, SettleFacts, StartedStays DEF HasRun, Begun, Starting, BegunPc
  <1>10. ASSUME NEW r \in Runner, FaultStep(r) PROVE StartedInv' /\ KeepsStart
    <2>1. UNCHANGED <<runs, doubled>> /\ \A q \in Runner \ {r} : act'[q] = act[q]
      BY <1>10, FaultFacts DEF records
    <2>2. HasRun(act'[r]) => Begun(act[r]) /\ SameTask(act[r], act'[r])
      BY <1>10, FaultFacts DEF HasRun, Begun, Starting, BegunPc, GoesOn
    <2>3. QED
      BY <2>1, <2>2, StartedStays DEF HasRun
  <1>11. CASE (\E rev \in Revision : Publish(rev)) \/ Advance \/ (\E c \in Case : RequestReanalysis(c))
              \/ RefreshRead \/ RefreshWrite \/ ScheduleDue
    BY <1>1, <1>11 DEF Publish, Advance, RequestReanalysis, RefreshRead, RefreshWrite, ScheduleDue,
                       records, observed
  <1>12. CASE UNCHANGED vars
    BY <1>1, <1>12 DEF vars, records, observed
  <1>13. QED
    BY <1>2, <1>3, <1>4, <1>5, <1>6, <1>7, <1>8, <1>9, <1>10, <1>11, <1>12
    DEF Next, HandlerStep, SchedulerStep

\* For any number of runners, faults and leases that expire: a research run, once
\* recorded, keeps the instant it started at through every attempt at its poll,
\* but for a slot of which two polls looked for a run before either recorded one.
THEOREM RunsKeepTheirStart == Spec => StartedAtKept
  <1>1. Init => StartedInv
    BY DEF Init, StartedInv, HasRun, Begun, Starting, BegunPc, Idle
  <1>2. TypeInv /\ StartedInv /\ [Next]_vars => StartedInv' /\ KeepsStart
    BY StartedStep
  <1>3. Spec => [][KeepsStart]_vars
    BY <1>1, <1>2, TypeInvHolds, PTL DEF Spec
  <1>4. QED
    BY <1>3 DEF StartedAtKept, KeepsStart

-------------------------------------------------------------------------------
(* A change awaits review *)

Change(f) == IF f = None THEN "UNCHANGED" ELSE f.change

\* A poll that has read the freshness record and may write from it.
HasCopy(a) == a.pc \in Copied /\ a.job \in PollJobs

\* A copy that no poll has replaced tells of the change that the record tells of.
CopiesInv ==
  /\ \A r \in Runner : HasCopy(act[r]) /\ r \notin overtaken => Change(act[r].old) = Change(fresh)
  /\ sched.pc = "refresh" /\ "scheduler" \notin overtaken => Change(sched.snap) = Change(fresh)

KeepsChange ==
  fresh # None /\ fresh.change = "REVIEW_REQUIRED" /\ fresh'.change # "REVIEW_REQUIRED"
    => \E w \in overtaken : Wrote(w)

\* A step of one runner, or of none, that leaves the record.
LEMMA CopiesStay ==
  ASSUME CopiesInv, UNCHANGED <<fresh, sched>>, NEW r, \A q \in Runner \ {r} : act'[q] = act[q],
         \A w \in overtaken : w \in overtaken' \/ (w = r /\ w # "scheduler"),
         r \in Runner /\ HasCopy(act'[r]) /\ r \notin overtaken' =>
           \/ HasCopy(act[r]) /\ r \notin overtaken /\ act'[r].old = act[r].old
           \/ act'[r].old = fresh
  PROVE  CopiesInv' /\ KeepsChange
  <1>1. ASSUME NEW q \in Runner, HasCopy(act'[q]), q \notin overtaken' PROVE Change(act'[q].old) = Change(fresh)
    BY <1>1 DEF CopiesInv
  <1>2. CopiesInv'
    BY <1>1 DEF CopiesInv, Change
  <1>3. QED
    BY <1>2 DEF KeepsChange

\* A poll writes the record: the change stays unless its copy had been replaced.
LEMMA CopiesReplaced ==
  ASSUME TypeInv, CopiesInv, NEW r \in Runner, HasCopy(act[r]), GoesOn(r, act'[r].pc), act'[r].pc # act[r].pc,
         sched' = sched, overtaken' = overtaken \cup Copies, HasCopy(act'[r]) => act[r].pc \in Copied,
         Change(act[r].old) = "REVIEW_REQUIRED" => fresh'.change = "REVIEW_REQUIRED"
  PROVE  CopiesInv' /\ KeepsChange
  <1>1. \A q \in Runner : HasCopy(act'[q]) => q \in overtaken'
    BY DEF Copies, HasCopy, GoesOn
  <1>2. sched'.pc = "refresh" => "scheduler" \in overtaken'
    BY DEF Copies
  <1>3. KeepsChange
    <2>1. CASE r \notin overtaken
      BY <2>1 DEF CopiesInv, KeepsChange, Change
    <2>2. CASE r \in overtaken
      <3>1. Wrote(r)
        BY ResearchAssumption DEF Wrote
      <3>2. QED
        BY <2>2, <3>1 DEF KeepsChange
    <2>3. QED
      BY <2>1, <2>2
  <1>4. QED
    BY <1>1, <1>2, <1>3 DEF CopiesInv

LEMMA CopiesStep ==
  ASSUME TypeInv, CopiesInv, [Next]_vars
  PROVE  CopiesInv' /\ KeepsChange
  <1>1. CASE UNCHANGED <<fresh, sched, act, overtaken>>
    BY <1>1 DEF CopiesInv, KeepsChange, HasCopy
  <1>2. CASE RefreshRead
    <2>1. /\ UNCHANGED <<fresh, act, overtaken>>
          /\ sched'.pc = "refresh" => fresh # None /\ sched'.snap = [fresh EXCEPT !.state = Evaluated(fresh.success)]
      BY <1>2 DEF RefreshRead, Quiet, records, observed
    <2>2. sched'.pc = "refresh" => sched'.snap # None /\ sched'.snap.change = fresh.change
      <3>1. ASSUME fresh # None
            PROVE  /\ [fresh EXCEPT !.state = Evaluated(fresh.success)] \in Freshness
                   /\ [fresh EXCEPT !.state = Evaluated(fresh.success)].change = fresh.change
        <4>1. fresh \in Freshness
          BY <3>1 DEF TypeInv, TypeOK
        <4>2. QED
          BY <4>1, EvaluatedType DEF Freshness
      <3>2. QED
        BY <2>1, <3>1, RecordAssumption
    <2>3. QED
      BY <2>1, <2>2 DEF CopiesInv, KeepsChange, Change, HasCopy
  <1>3. CASE RefreshWrite
    <2>1. /\ sched.pc = "refresh" /\ sched.snap \in Freshness /\ fresh' = sched.snap /\ act' = act
          /\ sched'.pc = "sync"
          /\ overtaken' = (IF "scheduler" \in overtaken THEN overtaken \cup Copies ELSE overtaken)
                            \ {"scheduler"}
      BY <1>3 DEF RefreshWrite, Quiet, TypeInv, Shapes
    <2>2. fresh' # None /\ Change(fresh') = Change(sched.snap)
      BY <2>1, RecordAssumption
    <2>3. CASE "scheduler" \notin overtaken
      <3>1. Change(fresh') = Change(fresh) /\ overtaken' = overtaken
        BY <2>1, <2>2, <2>3 DEF CopiesInv
      <3>2. CopiesInv'
        BY <2>1, <3>1 DEF CopiesInv, HasCopy
      <3>3. KeepsChange
        BY <2>2, <3>1 DEF KeepsChange, Change
      <3>4. QED
        BY <3>2, <3>3
    <2>4. CASE "scheduler" \in overtaken
      <3>1. \A q \in Runner : HasCopy(act[q]) => q \in overtaken'
        BY <2>1, <2>4, ResearchAssumption DEF Copies, HasCopy
      <3>2. CopiesInv'
        BY <2>1, <3>1 DEF CopiesInv, HasCopy
      <3>3. Wrote("scheduler")
        BY <2>1 DEF Wrote
      <3>4. QED
        BY <2>4, <3>2, <3>3 DEF KeepsChange
    <2>5. QED
      BY <2>3, <2>4
  <1>4. CASE SyncDeadLetters \/ ScheduleDue
    <2>1. UNCHANGED <<fresh, act, overtaken>> /\ sched'.pc # "refresh"
      BY <1>4 DEF SyncDeadLetters, ScheduleDue, Quiet, records, observed
    <2>2. CopiesInv'
      BY <2>1 DEF CopiesInv, HasCopy
    <2>3. QED
      BY <2>1, <2>2 DEF KeepsChange
  <1>5. ASSUME NEW r \in Runner, NEW j \in Job, Take(r, j) PROVE CopiesInv' /\ KeepsChange
    BY <1>5, TakeStep, CopiesStay DEF records, observed, HasCopy, Copied
  <1>6. ASSUME NEW r \in Runner, ReadRun(r) \/ ReadFreshness(r) PROVE CopiesInv' /\ KeepsChange
    <2>1. UNCHANGED <<fresh, sched, overtaken>>
      BY <1>6 DEF ReadRun, ReadFreshness, records, observed
    <2>2. QED
      BY <1>6, <2>1, ReadRunFacts, ReadFreshnessFacts, CopiesStay DEF HasCopy, Copied
  <1>7. ASSUME NEW r \in Runner,
               WriteRunning(r) \/ Fetch(r) \/ Compare(r) \/ Persist(r)
                 \/ (\E c \in Case : EnqueueCase(r, c)) \/ WriteReview(r) \/ CompleteRun(r)
        PROVE  CopiesInv' /\ KeepsChange
    <2>1. UNCHANGED <<fresh, sched, overtaken>>
      BY <1>7 DEF WriteRunning, Fetch, Compare, Persist, EnqueueCase, WriteReview, CompleteRun, records, observed
    <2>2. act[r].pc \in Copied \cap PollPc /\ GoesOn(r, act'[r].pc)
      BY <1>7, WriteRunningFacts, FetchFacts, CompareFacts, PersistFacts, EnqueueCaseFacts,
         WriteReviewFacts, CompleteRunFacts DEF GoesOn, Copied, PollPc, BegunPc
    <2>3. HasCopy(act[r])
      BY <2>2, AtPoll DEF HasCopy
    <2>4. QED
      BY <2>1, <2>2, <2>3, CopiesStay DEF GoesOn, SameTask
  <1>8. ASSUME NEW r \in Runner, WriteFreshness(r) PROVE CopiesInv' /\ KeepsChange
    <2>1. /\ act[r].pc = "freshen" /\ GoesOn(r, act'[r].pc) /\ act'[r].pc = "finish"
          /\ fresh'.change = ChangeState(act[r].old, act[r].changed)
      BY <1>8, WriteFreshnessFacts DEF GoesOn
    <2>2. sched' = sched /\ overtaken' = overtaken \cup Copies
      BY <1>8 DEF WriteFreshness
    <2>3. HasCopy(act[r])
      BY <2>1, AtPoll DEF HasCopy, Copied, PollPc, BegunPc
    <2>4. Change(act[r].old) = "REVIEW_REQUIRED" => fresh'.change = "REVIEW_REQUIRED"
      BY <2>1 DEF Change, ChangeState
    <2>5. QED
      BY <2>1, <2>2, <2>3, <2>4, CopiesReplaced DEF HasCopy
  <1>9. ASSUME NEW r \in Runner, CatchPoll(r) PROVE CopiesInv' /\ KeepsChange
    <2>1. /\ act[r].pc = "catch" /\ GoesOn(r, act'[r].pc) /\ act'[r].pc = "record"
          /\ fresh'.change = IF act[r].old = None THEN "UNCHANGED" ELSE act[r].old.change
      BY <1>9, CatchPollFacts DEF GoesOn
    <2>2. sched' = sched /\ overtaken' = overtaken \cup Copies
      BY <1>9 DEF CatchPoll
    <2>3. HasCopy(act[r])
      BY <2>1, AtPoll DEF HasCopy, Copied, PollPc, BegunPc
    <2>4. Change(act[r].old) = "REVIEW_REQUIRED" => fresh'.change = "REVIEW_REQUIRED"
      BY <2>1 DEF Change
    <2>5. QED
      BY <2>1, <2>2, <2>3, <2>4, CopiesReplaced DEF HasCopy
  <1>10. ASSUME NEW r \in Runner, FailRun(r) PROVE CopiesInv' /\ KeepsChange
    <2>1. UNCHANGED <<fresh, sched, overtaken>>
      BY <1>10 DEF FailRun, observed
    <2>2. QED
      BY <1>10, <2>1, FailRunFacts, CopiesStay DEF GoesOn, HasCopy, Copied
  <1>11. ASSUME NEW r \in Runner, WriteCandidate(r) \/ ReadReview(r) \/ WriteLinks(r)
         PROVE  CopiesInv' /\ KeepsChange
    <2>1. UNCHANGED <<fresh, sched, overtaken>>
      BY <1>11 DEF WriteCandidate, ReadReview, WriteLinks, records, observed
    <2>2. act[r].pc \in CasePc /\ GoesOn(r, act'[r].pc)
      BY <1>11, WriteCandidateFacts, ReadReviewFacts, WriteLinksFacts DEF GoesOn, CasePc
    <2>3. ~HasCopy(act'[r])
      BY <2>2, AtCase, JobKinds DEF GoesOn, SameTask, HasCopy
    <2>4. QED
      BY <2>1, <2>2, <2>3, CopiesStay DEF GoesOn
  <1>12. ASSUME NEW r \in Runner, Settle(r) PROVE CopiesInv' /\ KeepsChange
    <2>1. UNCHANGED <<fresh, sched>> /\ overtaken' = overtaken \ {r}
      BY <1>12 DEF Settle, Leaves, records
    <2>2. QED
      BY <1>12, <2>1, SettleFacts, CopiesStay, ResearchAssumption DEF HasCopy, Copied
  <1>13. ASSUME NEW r \in Runner, FaultStep(r) PROVE CopiesInv' /\ KeepsChange
    <2>1. /\ UNCHANGED <<fresh, sched>> /\ overtaken' \in {overtaken, overtaken \ {r}}
          /\ \A q \in Runner \ {r} : act'[q] = act[q]
          /\ overtaken' # overtaken => act'[r].pc = "idle"
      BY <1>13, FaultFacts DEF records
    <2>2. HasCopy(act'[r]) => Begun(act[r]) /\ SameTask(act[r], act'[r]) /\ act'[r].pc = "catch"
      BY <1>13, FaultFacts DEF HasCopy, Copied, GoesOn
    <2>3. act'[r].pc = "catch" => act[r].pc # "record"
      BY <1>13, FaultFacts DEF GoesOn
    <2>4. HasCopy(act'[r]) => HasCopy(act[r])
      BY <2>2, <2>3 DEF HasCopy, SameTask, Begun, BegunPc, Copied
    <2>5. QED
      BY <2>1, <2>2, <2>4, CopiesStay, ResearchAssumption DEF SameTask, HasCopy, Copied
  <1>14. CASE (\E rev \in Revision : Publish(rev)) \/ Advance \/ (\E c \in Case : RequestReanalysis(c))
    BY <1>1, <1>14 DEF Publish, Advance, RequestReanalysis, records, observed
  <1>15. CASE UNCHANGED vars
    BY <1>1, <1>15 DEF vars, records, observed
  <1>16. QED
    BY <1>2, <1>3, <1>4, <1>5, <1>6, <1>7, <1>8, <1>9, <1>10, <1>11, <1>12, <1>13, <1>14, <1>15
    DEF Next, HandlerStep, SchedulerStep

\* For any number of runners and any faults: a change goes on awaiting review
\* through every poll and every refresh, but for a record written back from a copy
\* that a poll has replaced since.
THEOREM ReviewStaysRequired == Spec => ReviewRequiredSticks
  <1>1. Init => CopiesInv
    BY DEF Init, CopiesInv, HasCopy, Copied, Idle, Quiet
  <1>2. TypeInv /\ CopiesInv /\ [Next]_vars => CopiesInv' /\ KeepsChange
    BY CopiesStep
  <1>3. Spec => [][KeepsChange]_vars
    BY <1>1, <1>2, TypeInvHolds, PTL DEF Spec
  <1>4. QED
    BY <1>3 DEF ReviewRequiredSticks, KeepsChange

-------------------------------------------------------------------------------
(* What is persisted is reviewed *)

\* The contents that a handler takes for persisted, are, in the ledger L.
TakesForPersisted(L, a) ==
  /\ a.pc \in {"enqueue", "freshen", "finish"} => a.got \in L
  /\ a.pc # "idle" /\ a.job \in CaseJobs => a.job[3] \in L

\* The head, the reviews and the re-analyses are those of persisted revisions.
LedgerInv ==
  /\ head \in ledger \cup {None}
  /\ \A j \in CaseJobs : promise[j] # "absent" => j[3] \in ledger
  /\ \A r \in Runner : TakesForPersisted(ledger, act[r])
  /\ \A rev \in Revision : reviews[rev] # None => rev \in ledger

Reviewed(rev) ==
  \/ reviews[rev] # None \/ rev \in cutOff
  \/ \E r \in Runner : At(r, "enqueue") /\ act[r].got = rev

Completed(run) == run # None /\ run.status = "COMPLETED"

\* A persisted revision is reviewed, on its way there, or its poll broke off.
ReviewedInv ==
  /\ \A rev \in ledger : Reviewed(rev)
  /\ \A t \in Instant : Completed(runs[t]) => runs[t].revision \in ledger

\* A step of one runner, or of none, that persists nothing but what the runner
\* goes on to review, and takes no review back.
LEMMA ReviewedStays ==
  ASSUME TypeInv, LedgerInv, ReviewedInv,
         ledger \subseteq ledger', head' \in ledger' \cup {None}, cutOff \subseteq cutOff',
         \A rev \in Revision : reviews[rev] # None => reviews'[rev] # None,
         \A rev \in Revision : reviews'[rev] # None => reviews[rev] # None \/ rev \in ledger',
         \A j \in CaseJobs : promise'[j] # "absent" => promise[j] # "absent" \/ j[3] \in ledger',
         \A t \in Instant : Completed(runs'[t]) => runs'[t] = runs[t] \/ runs'[t].revision \in ledger',
         NEW r, \A q \in Runner \ {r} : act'[q] = act[q],
         r \in Runner => TakesForPersisted(ledger', act'[r]),
         r \in Runner /\ act[r].pc = "enqueue" =>
           \/ act'[r].pc = "enqueue" /\ act'[r].got = act[r].got
           \/ act[r].got \in cutOff'
           \/ reviews'[act[r].got] # None,
         \A rev \in ledger' \ ledger : r \in Runner /\ act'[r].pc = "enqueue" /\ act'[r].got = rev
  PROVE  LedgerInv' /\ ReviewedInv'
  <1>1. LedgerInv'
    BY DEF LedgerInv, TakesForPersisted
  <1>2. ASSUME NEW rev \in ledger' PROVE Reviewed(rev)'
    <2>1. CASE rev \notin ledger
      BY <2>1 DEF Reviewed, At
    <2>2. CASE rev \in ledger
      <3>1. rev \in Revision /\ Reviewed(rev)
        BY <2>2 DEF ReviewedInv, TypeInv, TypeOK
      <3>2. QED
        BY <3>1 DEF Reviewed, At
    <2>3. QED
      BY <2>1, <2>2
  <1>3. \A t \in Instant : Completed(runs'[t]) => runs'[t].revision \in ledger'
    BY DEF ReviewedInv
  <1>4. ReviewedInv'
    BY <1>2, <1>3 DEF ReviewedInv
  <1>5. QED
    BY <1>1, <1>4

\* The same, of a step that leaves what is persisted and its reviews.
LEMMA ReviewedLeft ==
  ASSUME TypeInv, LedgerInv, ReviewedInv, UNCHANGED <<ledger, head, reviews>>, cutOff \subseteq cutOff',
         \A j \in CaseJobs : promise'[j] # "absent" => promise[j] # "absent" \/ j[3] \in ledger,
         \A t \in Instant : Completed(runs'[t]) => runs'[t] = runs[t] \/ runs'[t].revision \in ledger,
         NEW r, \A q \in Runner \ {r} : act'[q] = act[q],
         r \in Runner => TakesForPersisted(ledger, act'[r]),
         r \in Runner /\ act[r].pc = "enqueue" =>
           \/ act'[r].pc = "enqueue" /\ act'[r].got = act[r].got
           \/ act[r].got \in cutOff'
  PROVE  LedgerInv' /\ ReviewedInv'
  <1>1. ledger' = ledger /\ head' = head /\ reviews' = reviews /\ head \in ledger \cup {None}
    BY DEF LedgerInv
  <1>2. QED
    BY <1>1, ReviewedStays

LEMMA ReviewedStep ==
  ASSUME TypeInv, LedgerInv, ReviewedInv, [Next]_vars
  PROVE  LedgerInv' /\ ReviewedInv'
  <1>1. CASE UNCHANGED <<ledger, head, reviews, cutOff, promise, runs, act>>
    BY <1>1 DEF LedgerInv, ReviewedInv, Reviewed, At
  <1>2. ASSUME NEW c \in Case, RequestReanalysis(c) PROVE LedgerInv' /\ ReviewedInv'
    <2>1. /\ head \in ledger /\ CaseJob(c, head) \in Job /\ CaseJob(c, head) \in CaseJobs
          /\ CaseJob(c, head)[3] = head /\ Enqueue(CaseJob(c, head))
          /\ UNCHANGED <<ledger, head, reviews, cutOff, runs, act>>
      <3>1. head \in Revision
        BY <1>2 DEF RequestReanalysis, TypeInv, TypeOK
      <3>2. QED
        BY <1>2, <3>1, Jobs DEF RequestReanalysis, LedgerInv, CaseJobs, records, observed
    <2>2. \A j \in CaseJobs : promise'[j] # "absent" => promise[j] # "absent" \/ j[3] \in ledger
      BY <2>1, EnqueueType, JobKinds
    <2>3. QED
      BY <2>1, <2>2 DEF LedgerInv, ReviewedInv, Reviewed, At
  <1>3. CASE SyncDeadLetters
    <2>1. UNCHANGED <<ledger, head, reviews, cutOff, promise, act>>
      BY <1>3 DEF SyncDeadLetters, queue, observed
    <2>2. \A t \in Instant : Completed(runs'[t]) => runs'[t] = runs[t]
      <3>1. ASSUME NEW t \in Instant, runs'[t] # runs[t] PROVE ~Completed(runs'[t])
        <4>1. runs[t] \in Run /\ runs'[t] = [runs[t] EXCEPT !.status = "DEAD_LETTER"]
          BY <1>3, <3>1 DEF SyncDeadLetters, TypeInv, TypeOK
        <4>2. QED
          BY <4>1 DEF Run, Completed
      <3>2. QED
        BY <3>1
    <2>3. QED
      BY <2>1, <2>2 DEF LedgerInv, ReviewedInv, Reviewed, At
  <1>4. CASE ScheduleDue
    <2>1. UNCHANGED <<ledger, head, reviews, cutOff, runs, act>>
      BY <1>4 DEF ScheduleDue, records, observed
    <2>2. \A j \in CaseJobs : promise'[j] = promise[j]
      <3>1. CASE ~IsDue
        BY <1>4, <3>1 DEF ScheduleDue, queue
      <3>2. CASE IsDue
        <4> DEFINE t == IF fresh = None THEN now ELSE fresh.due
        <4>1. t \in Instant
          BY <3>2, ResearchAssumption DEF IsDue, TypeInv, TypeOK, Freshness, Instant
        <4>2. PollJob(t) \in PollJobs /\ Enqueue(PollJob(t))
          BY <1>4, <3>2, <4>1 DEF ScheduleDue, PollJobs
        <4>3. QED
          BY <4>2, EnqueueType, JobKinds
      <3>3. QED
        BY <3>1, <3>2
    <2>3. QED
      BY <2>1, <2>2 DEF LedgerInv, ReviewedInv, Reviewed, At
  <1>5. ASSUME NEW r \in Runner, NEW j \in Job, Take(r, j) PROVE LedgerInv' /\ ReviewedInv'
    <2>1. /\ UNCHANGED <<ledger, head, reviews, cutOff, promise, runs>> /\ promise[j] = "pending"
          /\ act[r].pc = "idle" /\ act'[r].pc \in {"start", "candidate"} /\ act'[r].job = j
          /\ \A q \in Runner \ {r} : act'[q] = act[q]
      BY <1>5, TakeStep DEF records, queue, observed
    <2>2. TakesForPersisted(ledger, act'[r])
      BY <2>1 DEF LedgerInv, TakesForPersisted
    <2>3. QED
      BY <2>1, <2>2, ReviewedLeft
  <1>6. ASSUME NEW r \in Runner,
               ReadRun(r) \/ ReadFreshness(r) \/ WriteRunning(r) \/ Fetch(r) \/ CatchPoll(r) \/ FailRun(r)
        PROVE  LedgerInv' /\ ReviewedInv'
    <2>1. UNCHANGED <<ledger, head, reviews, cutOff, promise>>
      BY <1>6 DEF ReadRun, ReadFreshness, WriteRunning, Fetch, CatchPoll, FailRun, records, queue, observed
    <2>2. /\ act[r].pc \in PollPc /\ act[r].pc # "enqueue" /\ act'[r].job = act[r].job
          /\ act'[r].pc \notin {"enqueue", "freshen", "finish"}
          /\ \A q \in Runner \ {r} : act'[q] = act[q]
      BY <1>6, ReadRunFacts, ReadFreshnessFacts, WriteRunningFacts, FetchFacts, CatchPollFacts, FailRunFacts
      DEF GoesOn, SameTask, PollPc, BegunPc
    <2>3. TakesForPersisted(ledger, act'[r])
      BY <2>2, AtPoll, JobKinds DEF TakesForPersisted
    <2>4. \A t \in Instant : Completed(runs'[t]) => runs'[t] = runs[t]
      <3>1. CASE UNCHANGED runs
        BY <3>1
      <3>2. CASE WriteRunning(r) \/ FailRun(r)
        BY <3>2, WriteRunningFacts, FailRunFacts DEF Completed
      <3>3. QED
        BY <1>6, <3>1, <3>2 DEF ReadRun, ReadFreshness, Fetch, CatchPoll, records
    <2>5. QED
      BY <2>1, <2>2, <2>3, <2>4, ReviewedLeft
  <1>7. ASSUME NEW r \in Runner, Compare(r) \/ WriteFreshness(r) \/ CompleteRun(r)
        PROVE  LedgerInv' /\ ReviewedInv'
    <2>1. UNCHANGED <<ledger, head, reviews, cutOff, promise>>
      BY <1>7 DEF Compare, WriteFreshness, CompleteRun, records, queue, observed
    <2>2. /\ act[r].pc \in PollPc /\ act[r].pc # "enqueue" /\ act'[r].job = act[r].job
          /\ act'[r].pc \in {"freshen", "finish"} => act'[r].got \in ledger
          /\ act'[r].pc # "enqueue"
          /\ \A q \in Runner \ {r} : act'[q] = act[q]
      <3>1. CASE Compare(r)
        <4>1. act[r].got \in Revision => act[r].got # None
          BY ResearchAssumption
        <4>2. QED
          BY <3>1, <4>1, CompareFacts DEF GoesOn, SameTask, PollPc, BegunPc, LedgerInv
      <3>2. CASE WriteFreshness(r)
        BY <3>2, WriteFreshnessFacts DEF GoesOn, SameTask, PollPc, BegunPc, LedgerInv, TakesForPersisted
      <3>3. CASE CompleteRun(r)
        BY <3>3, CompleteRunFacts DEF GoesOn, SameTask, PollPc, BegunPc
      <3>4. QED
        BY <1>7, <3>1, <3>2, <3>3
    <2>3. TakesForPersisted(ledger, act'[r])
      BY <2>2, AtPoll, JobKinds DEF TakesForPersisted
    <2>4. \A t \in Instant : Completed(runs'[t]) => runs'[t] = runs[t] \/ runs'[t].revision \in ledger
      <3>1. CASE UNCHANGED runs
        BY <3>1
      <3>2. CASE CompleteRun(r)
        BY <3>2, CompleteRunFacts DEF LedgerInv, TakesForPersisted
      <3>3. QED
        BY <1>7, <3>1, <3>2 DEF Compare, WriteFreshness, records
    <2>5. QED
      BY <2>1, <2>2, <2>3, <2>4, ReviewedLeft
  <1>8. ASSUME NEW r \in Runner, Persist(r) PROVE LedgerInv' /\ ReviewedInv'
    <2>1. /\ UNCHANGED <<reviews, cutOff, promise, runs>> /\ act[r].pc = "persist" /\ act[r].pc \in PollPc
          /\ act'[r].got = act[r].got /\ act[r].got \in Revision
      BY <1>8, PersistFacts DEF Persist, queue, PollPc, BegunPc
    <2>2. CASE /\ GoesOn(r, "enqueue")
               /\ head' = act[r].got /\ ledger' = ledger \cup {act[r].got}
      <3>1. TakesForPersisted(ledger', act'[r])
        BY <2>1, <2>2, AtPoll, JobKinds DEF TakesForPersisted, GoesOn, SameTask
      <3>2. QED
        BY <2>1, <2>2, <3>1, ReviewedStays DEF GoesOn
    <2>3. CASE GoesOn(r, "catch") /\ UNCHANGED <<head, ledger>>
      <3>1. TakesForPersisted(ledger, act'[r])
        BY <2>1, <2>3, AtPoll, JobKinds DEF TakesForPersisted, GoesOn, SameTask
      <3>2. QED
        BY <2>1, <2>3, <3>1, ReviewedLeft DEF GoesOn
    <2>4. QED
      BY <1>8, <2>2, <2>3, PersistFacts
  <1>9. ASSUME NEW r \in Runner, NEW c \in Case, EnqueueCase(r, c) PROVE LedgerInv' /\ ReviewedInv'
    <2>1. UNCHANGED <<ledger, head, reviews, cutOff, runs>>
      BY <1>9 DEF EnqueueCase, records, observed
    <2>2. /\ act[r].pc = "enqueue" /\ act[r].pc \in PollPc /\ GoesOn(r, "enqueue") /\ act'[r].got = act[r].got
          /\ act[r].got \in Revision
          /\ \A j \in Job : promise'[j] # promise[j] => j = CaseJob(c, act[r].got)
      BY <1>9, EnqueueCaseFacts DEF PollPc, BegunPc
    <2>3. act[r].got \in ledger
      BY <2>2 DEF LedgerInv, TakesForPersisted
    <2>4. \A j \in CaseJobs : promise'[j] # "absent" => promise[j] # "absent" \/ j[3] \in ledger
      BY <2>2, <2>3, Jobs, JobKinds
    <2>5. TakesForPersisted(ledger, act'[r])
      BY <2>2, <2>3, AtPoll, JobKinds DEF TakesForPersisted, GoesOn, SameTask
    <2>6. QED
      BY <2>1, <2>2, <2>4, <2>5, ReviewedLeft DEF GoesOn
  <1>10. ASSUME NEW r \in Runner, WriteReview(r) PROVE LedgerInv' /\ ReviewedInv'
    <2>1. UNCHANGED <<ledger, head, cutOff, runs, promise>>
      BY <1>10 DEF WriteReview, queue, observed
    <2>2. /\ act[r].pc = "enqueue" /\ act[r].pc \in PollPc /\ GoesOn(r, "freshen") /\ act'[r].got = act[r].got
          /\ act[r].got \in Revision /\ reviews'[act[r].got] # None
          /\ \A rev \in Revision \ {act[r].got} : reviews'[rev] = reviews[rev]
      BY <1>10, WriteReviewFacts, RecordAssumption DEF PollPc, BegunPc
    <2>3. act[r].got \in ledger /\ head \in ledger \cup {None}
      BY <2>2 DEF LedgerInv, TakesForPersisted
    <2>4. TakesForPersisted(ledger, act'[r])
      BY <2>2, <2>3, AtPoll, JobKinds DEF TakesForPersisted, GoesOn, SameTask
    <2>5. QED
      BY <2>1, <2>2, <2>3, <2>4, ReviewedStays DEF GoesOn
  <1>11. ASSUME NEW r \in Runner, WriteCandidate(r) \/ ReadReview(r) PROVE LedgerInv' /\ ReviewedInv'
    <2>1. UNCHANGED <<ledger, head, reviews, cutOff, promise, runs>>
      BY <1>11 DEF WriteCandidate, ReadReview, records, queue, observed
    <2>2. /\ act[r].pc \in CasePc /\ act[r].pc # "enqueue" /\ GoesOn(r, act'[r].pc)
          /\ act'[r].pc \notin {"enqueue", "freshen", "finish"}
      BY <1>11, WriteCandidateFacts, ReadReviewFacts DEF GoesOn, CasePc
    <2>3. TakesForPersisted(ledger, act'[r])
      BY <2>2 DEF TakesForPersisted, LedgerInv, GoesOn, SameTask, CasePc
    <2>4. QED
      BY <2>1, <2>2, <2>3, ReviewedLeft DEF GoesOn
  <1>12. ASSUME NEW r \in Runner, WriteLinks(r) PROVE LedgerInv' /\ ReviewedInv'
    <2>1. UNCHANGED <<ledger, head, cutOff, promise, runs>>
      BY <1>12 DEF WriteLinks, queue, observed
    <2>2. /\ act[r].pc = "relink" /\ GoesOn(r, "done") /\ act[r].job[3] \in Revision
          /\ act[r].job \in CaseJobs
          /\ reviews'[act[r].job[3]] # None
          /\ \A rev \in Revision \ {act[r].job[3]} : reviews'[rev] = reviews[rev]
      BY <1>12, WriteLinksFacts, AtCase DEF CasePc
    <2>3. act[r].job[3] \in ledger /\ head \in ledger \cup {None}
      BY <2>2 DEF LedgerInv, TakesForPersisted
    <2>4. TakesForPersisted(ledger, act'[r])
      BY <2>2, <2>3 DEF TakesForPersisted, GoesOn, SameTask
    <2>5. QED
      BY <2>1, <2>2, <2>3, <2>4, ReviewedStays DEF GoesOn
  <1>13. ASSUME NEW r \in Runner, Settle(r) PROVE LedgerInv' /\ ReviewedInv'
    <2>1. UNCHANGED <<ledger, head, reviews, cutOff, runs>>
      BY <1>13 DEF Settle, records
    <2>2. /\ act[r].pc # "enqueue" /\ act'[r].pc = "idle" /\ \A q \in Runner \ {r} : act'[q] = act[q]
          /\ \A j \in CaseJobs : promise'[j] # "absent" => promise[j] # "absent"
      BY <1>13, SettleFacts, JobKinds
    <2>3. QED
      BY <2>1, <2>2, ReviewedLeft DEF TakesForPersisted
  <1>14. ASSUME NEW r \in Runner, FaultStep(r) PROVE LedgerInv' /\ ReviewedInv'
    <2>1. /\ UNCHANGED <<ledger, head, reviews, promise, runs>> /\ cutOff \subseteq cutOff'
          /\ act[r].pc = "enqueue" => act[r].got \in cutOff'
          /\ \A q \in Runner \ {r} : act'[q] = act[q]
      BY <1>14, FaultFacts DEF records, queue
    <2>2. TakesForPersisted(ledger, act'[r])
      BY <1>14, FaultFacts DEF TakesForPersisted, LedgerInv, GoesOn, SameTask, Begun, BegunPc, PollPc, CasePc
    <2>3. QED
      BY <2>1, <2>2, ReviewedLeft
  <1>15. CASE (\E rev \in Revision : Publish(rev)) \/ Advance \/ RefreshRead \/ RefreshWrite
    BY <1>1, <1>15 DEF Publish, Advance, RefreshRead, RefreshWrite, records, queue, observed
  <1>16. CASE UNCHANGED vars
    BY <1>1, <1>16 DEF vars, records, queue, observed
  <1>17. QED
    BY <1>2, <1>3, <1>4, <1>5, <1>6, <1>7, <1>8, <1>9, <1>10, <1>11, <1>12, <1>13, <1>14, <1>15, <1>16
    DEF Next, HandlerStep, SchedulerStep

LEMMA ReviewedInvHolds == Spec => [](LedgerInv /\ ReviewedInv)
  <1>1. Init => LedgerInv /\ ReviewedInv
    BY JobKinds DEF Init, LedgerInv, ReviewedInv, TakesForPersisted, Completed, Idle
  <1>2. TypeInv /\ LedgerInv /\ ReviewedInv /\ [Next]_vars => LedgerInv' /\ ReviewedInv'
    BY ReviewedStep
  <1>3. QED
    BY <1>1, <1>2, TypeInvHolds, PTL DEF Spec

\* For any number of runners, stores that reject and processes that die between
\* any two steps: a poll that completes leaves the revision it found reviewed, or
\* on its way to its review, but for one whose poll broke off between the two.
THEOREM CompletedRunsAreReviewed == Spec => []CompletedRunsReviewed
  <1>1. ReviewedInv => CompletedRunsReviewed
    BY DEF ReviewedInv, Reviewed, Completed, CompletedRunsReviewed
  <1>2. QED
    BY <1>1, ReviewedInvHolds, PTL

-------------------------------------------------------------------------------
(* Contents that come again, and why a source is unavailable *)

Past == {published[i] : i \in DOMAIN published}

\* Contents that a poll may yet persist, when they are, or when the current ones
\* are, in the ledger already.
AgainOf(a) ==
  /\ a.pc \in {"compare", "persist"} =>
       a.got \in Past /\ (a.got # Content /\ Content \in ledger => Content \in Again)
  /\ a.pc = "compare" /\ a.got \in ledger => a.got \in Again \/ head = a.got
  /\ a.pc = "persist" /\ a.got \in ledger => a.got \in Again

AgainInv ==
  /\ ledger \subseteq Past
  /\ Content \in ledger => head = Content \/ Content \in Again
  /\ \A r \in Runner : AgainOf(act[r])

\* The error e, after n faults, of a poll that had rev in hand.
IsCause(n, e, rev) ==
  \/ e \in {"retrieval", "store"} /\ e \in Faults /\ n > 0
  \/ e = "duplicate" /\ rev \in Again

CauseOf(n, a) ==
  /\ a.pc \notin {"catch", "record", "failed"} => a.error = "none"
  /\ a.pc = "catch" \/ a.error # "none" => IsCause(n, a.error, a.got)

Excused(n, f) == f # None /\ f.state = "UNAVAILABLE" => \E rev \in Again \cup {None} : IsCause(n, f.error, rev)

CauseInv ==
  /\ faults \in Nat
  /\ \A r \in Runner : CauseOf(faults, act[r])
  /\ Excused(faults, fresh)
  /\ sched.pc = "refresh" => sched.snap.state # "UNAVAILABLE"

\* Whatever comes again has come again for good.
LEMMA PublishFacts ==
  ASSUME TypeInv, NEW rev \in Revision, Publish(rev)
  PROVE  /\ Content' = rev /\ Returned \subseteq Returned' /\ Past \subseteq Past'
         /\ rev \in Past => rev \in Returned'
  <1> DEFINE n == Len(published)
  <1>1. /\ published \in Seq(Revision) /\ n \in Nat /\ DOMAIN published = 1 .. n
        /\ published' = Append(published, rev)
    BY ContentType, LenProperties DEF TypeInv, TypeOK, Publish
  <1>2. /\ Len(published') = n + 1 /\ DOMAIN published' = 1 .. (n + 1) /\ published'[n + 1] = rev
        /\ \A i \in 1 .. n : published'[i] = published[i]
    BY <1>1, AppendProperties, LenProperties
  <1> HIDE DEF n
  <1>3. Content' = rev
    BY <1>2 DEF Content
  <1>4. Returned \subseteq Returned'
    <2> SUFFICES ASSUME NEW x \in Returned PROVE x \in Returned'
      OBVIOUS
    <2>1. PICK i, j \in DOMAIN published : i < j /\ published[i] = x /\ published[j] = x
      BY DEF Returned
    <2>2. i \in DOMAIN published' /\ j \in DOMAIN published' /\ published'[i] = x /\ published'[j] = x
      BY <1>1, <1>2, <2>1
    <2>3. QED
      BY <2>1, <2>2 DEF Returned
  <1>5. Past \subseteq Past'
    BY <1>1, <1>2 DEF Past
  <1>6. ASSUME rev \in Past PROVE rev \in Returned'
    <2>1. PICK i \in 1 .. n : published[i] = rev
      BY <1>1, <1>6 DEF Past
    <2>2. i < n + 1 /\ i \in 1 .. (n + 1) /\ n + 1 \in 1 .. (n + 1)
      BY <1>1, <2>1
    <2>3. QED
      BY <1>2, <2>1, <2>2 DEF Returned
  <1>7. QED
    BY <1>3, <1>4, <1>5, <1>6

\* A step of one runner, or of none, that leaves the source and the ledger.
LEMMA AgainLeft ==
  ASSUME AgainInv, CauseInv, UNCHANGED <<published, head, ledger>>, crossed \subseteq crossed',
         faults' \in {faults, faults + 1}, NEW r, \A q \in Runner \ {r} : act'[q] = act[q],
         r \in Runner => AgainOf(act'[r]) /\ CauseOf(faults', act'[r]),
         Excused(faults', fresh'), sched'.pc = "refresh" => sched'.snap.state # "UNAVAILABLE"
  PROVE  AgainInv' /\ CauseInv'
  <1>1. Content' = Content /\ Past' = Past /\ Returned' = Returned /\ Again \subseteq Again'
    BY DEF Content, Past, Returned, Again
  <1>2. faults' \in Nat /\ (faults > 0 => faults' > 0)
    BY DEF CauseInv
  <1>3. \A n, e, rev : IsCause(n, e, rev) => IsCause(n, e, rev)'
    BY <1>1 DEF IsCause
  <1>4. \A q \in Runner : CauseOf(faults', act'[q])
    BY <1>2 DEF CauseInv, CauseOf, IsCause
  <1>5. \A q \in Runner : AgainOf(act'[q])
    BY DEF AgainInv
  <1>6. AgainInv'
    BY <1>1, <1>5 DEF AgainInv, AgainOf
  <1>7. \A q \in Runner : CauseOf(faults, act[q])'
    BY <1>1, <1>4 DEF CauseOf, IsCause
  <1>8. Excused(faults, fresh)'
    BY <1>1 DEF Excused, IsCause
  <1>9. QED
    BY <1>2, <1>6, <1>7, <1>8 DEF CauseInv

\* The same, of a step that leaves the freshness record and the scheduler too.
LEMMA AgainKept ==
  ASSUME AgainInv, CauseInv, UNCHANGED <<published, head, ledger, fresh, sched>>, crossed \subseteq crossed',
         faults' \in {faults, faults + 1}, NEW r, \A q \in Runner \ {r} : act'[q] = act[q],
         r \in Runner => AgainOf(act'[r]) /\ CauseOf(faults', act'[r])
  PROVE  AgainInv' /\ CauseInv'
  <1>1. faults > 0 => faults' > 0
    BY DEF CauseInv
  <1>2. Excused(faults', fresh') /\ (sched'.pc = "refresh" => sched'.snap.state # "UNAVAILABLE")
    BY <1>1 DEF CauseInv, Excused, IsCause
  <1>3. QED
    BY <1>2, AgainLeft

LEMMA AgainStep ==
  ASSUME TypeInv, AgainInv, CauseInv, [Next]_vars
  PROVE  AgainInv' /\ CauseInv'
  <1>1. CASE UNCHANGED <<published, head, ledger, fresh, sched, crossed, act, faults>>
    BY <1>1 DEF AgainInv, AgainOf, CauseInv, CauseOf, Excused, IsCause, Again, Returned, Content, Past
  <1>2. ASSUME NEW rev \in Revision, Publish(rev) PROVE AgainInv' /\ CauseInv'
    <2>1. /\ UNCHANGED <<head, ledger, fresh, sched, crossed, act, faults>>
          /\ Content' = rev /\ Again \subseteq Again' /\ Past \subseteq Past'
          /\ rev \in Past => rev \in Again'
      BY <1>2, PublishFacts DEF Publish, records, observed, Again
    <2>2. AgainInv'
      BY <2>1 DEF AgainInv, AgainOf
    <2>3. CauseInv'
      BY <2>1 DEF CauseInv, CauseOf, Excused, IsCause
    <2>4. QED
      BY <2>2, <2>3
  <1>3. CASE RefreshRead \/ RefreshWrite \/ SyncDeadLetters \/ ScheduleDue
    <2>1. UNCHANGED <<published, head, ledger, crossed, act, faults>>
      BY <1>3 DEF RefreshRead, RefreshWrite, SyncDeadLetters, ScheduleDue, records, observed
    <2>2. Excused(faults, fresh')
      BY <1>3 DEF CauseInv, Excused, RefreshRead, RefreshWrite, SyncDeadLetters, ScheduleDue, records
    <2>3. sched'.pc = "refresh" => sched'.snap.state # "UNAVAILABLE"
      <3>1. CASE RefreshRead
        <4>1. ASSUME sched'.pc = "refresh" PROVE sched'.snap.state # "UNAVAILABLE"
          <5>1. fresh # None /\ sched'.snap = [fresh EXCEPT !.state = Evaluated(fresh.success)]
            BY <3>1, <4>1 DEF RefreshRead, Quiet
          <5>2. fresh \in Freshness
            BY <5>1 DEF TypeInv, TypeOK
          <5>3. sched'.snap.state \in {"STALE", "FRESH"}
            BY <5>1, <5>2, EvaluatedType DEF Freshness
          <5>4. QED
            BY <5>3
        <4>2. QED
          BY <4>1
      <3>2. CASE RefreshWrite \/ SyncDeadLetters \/ ScheduleDue
        BY <3>2 DEF RefreshWrite, SyncDeadLetters, ScheduleDue, Quiet
      <3>3. QED
        BY <1>3, <3>1, <3>2
    <2>4. \A q \in Runner : AgainOf(act'[q]) /\ CauseOf(faults, act'[q])
      BY <2>1 DEF AgainInv, CauseInv
    <2>5. faults' \in {faults, faults + 1} /\ \A q \in Runner \ {None} : act'[q] = act[q]
      BY <2>1
    <2>6. Excused(faults', fresh') /\ (None \in Runner => AgainOf(act'[None]) /\ CauseOf(faults', act'[None]))
      BY <2>1, <2>2, <2>4
    <2>7. QED
      BY <2>1, <2>3, <2>5, <2>6, AgainLeft
  <1>4. ASSUME NEW r \in Runner,
               \/ \E j \in Job : Take(r, j)
               \/ ReadRun(r) \/ ReadFreshness(r) \/ WriteRunning(r) \/ (\E c \in Case : EnqueueCase(r, c))
               \/ WriteReview(r) \/ CompleteRun(r) \/ FailRun(r)
               \/ WriteCandidate(r) \/ ReadReview(r) \/ WriteLinks(r) \/ Settle(r)
        PROVE  AgainInv' /\ CauseInv'
    <2>1. UNCHANGED <<published, head, ledger, fresh, sched, crossed, faults>>
      BY <1>4 DEF Take, ReadRun, ReadFreshness, WriteRunning, EnqueueCase, WriteReview, CompleteRun, FailRun,
                  WriteCandidate, ReadReview, WriteLinks, Settle, records, observed
    <2>2. \A q \in Runner \ {r} : act'[q] = act[q]
      BY <1>4, TakeStep, ReadRunFacts, ReadFreshnessFacts, WriteRunningFacts, EnqueueCaseFacts, WriteReviewFacts,
         CompleteRunFacts, FailRunFacts, WriteCandidateFacts, ReadReviewFacts, WriteLinksFacts, SettleFacts
      DEF GoesOn
    <2>3. /\ act'[r].pc \notin {"compare", "persist", "catch"}
          /\ \/ act'[r].error = act[r].error /\ act[r].pc \notin {"catch", "record", "failed"}
             \/ act'[r].error = "none"
             \/ /\ act'[r].error = act[r].error /\ act'[r].got = act[r].got /\ act[r].pc = "record"
                /\ act'[r].pc = "failed"
      <3>1. CASE FailRun(r)
        BY <3>1, FailRunFacts DEF GoesOn
      <3>2. CASE (\E j \in Job : Take(r, j)) \/ ReadRun(r) \/ ReadFreshness(r) \/ WriteRunning(r) \/ Settle(r)
        BY <3>2, TakeStep, ReadRunFacts, ReadFreshnessFacts, WriteRunningFacts, SettleFacts DEF GoesOn
      <3>3. CASE (\E c \in Case : EnqueueCase(r, c)) \/ WriteReview(r) \/ CompleteRun(r)
        BY <3>3, EnqueueCaseFacts, WriteReviewFacts, CompleteRunFacts DEF GoesOn
      <3>4. CASE WriteCandidate(r) \/ ReadReview(r) \/ WriteLinks(r)
        BY <3>4, WriteCandidateFacts, ReadReviewFacts, WriteLinksFacts DEF GoesOn
      <3>5. QED
        BY <1>4, <3>1, <3>2, <3>3, <3>4
    <2>4. AgainOf(act'[r])
      BY <2>3 DEF AgainOf
    <2>5. CauseOf(faults, act'[r])
      BY <2>3 DEF CauseInv, CauseOf
    <2>6. crossed \subseteq crossed' /\ faults' \in {faults, faults + 1} /\ CauseOf(faults', act'[r])
      BY <2>1, <2>5
    <2>7. QED
      BY <2>1, <2>2, <2>4, <2>6, AgainKept
  <1>5. ASSUME NEW r \in Runner, Fetch(r) \/ Compare(r) PROVE AgainInv' /\ CauseInv'
    <2>1. UNCHANGED <<published, head, ledger, fresh, sched, crossed, faults>>
      BY <1>5 DEF Fetch, Compare, records, observed
    <2>2. AgainOf(act'[r])
      <3>1. CASE Fetch(r)
        <4>1. Content \in Past
          BY ContentType DEF TypeInv, Content, Past
        <4>2. act'[r].pc = "compare" /\ act'[r].got = Content
          BY <3>1, FetchFacts DEF GoesOn
        <4>3. QED
          BY <4>1, <4>2 DEF AgainInv, AgainOf
      <3>2. CASE Compare(r)
        BY <3>2, CompareFacts DEF GoesOn, AgainInv, AgainOf
      <3>3. QED
        BY <1>5, <3>1, <3>2
    <2>3. /\ \A q \in Runner \ {r} : act'[q] = act[q]
          /\ act'[r].pc \notin {"catch"} /\ act'[r].error = act[r].error
          /\ act[r].pc \notin {"catch", "record", "failed"}
      BY <1>5, FetchFacts, CompareFacts DEF GoesOn
    <2>4. CauseOf(faults, act'[r])
      BY <2>3 DEF CauseInv, CauseOf
    <2>5. crossed \subseteq crossed' /\ faults' \in {faults, faults + 1} /\ CauseOf(faults', act'[r])
      BY <2>1, <2>4
    <2>6. QED
      BY <2>1, <2>2, <2>3, <2>5, AgainKept
  <1>6. ASSUME NEW r \in Runner, Persist(r) PROVE AgainInv' /\ CauseInv'
    <2>1. /\ UNCHANGED <<published, fresh, sched, faults>> /\ act[r].pc = "persist"
          /\ act'[r].got = act[r].got
      BY <1>6, PersistFacts DEF Persist
    <2>2. CASE ~Accepts(act[r].got)
      <3>1. /\ GoesOn(r, "catch") /\ UNCHANGED <<head, ledger, crossed>> /\ act'[r].error = "duplicate"
        BY <1>6, <2>2, PersistFacts
      <3>2. act[r].got \in Again
        BY <2>1, <2>2 DEF Accepts, AgainInv, AgainOf
      <3>3. AgainOf(act'[r]) /\ CauseOf(faults, act'[r])
        BY <2>1, <3>1, <3>2 DEF AgainOf, CauseOf, IsCause, GoesOn
      <3>4. crossed \subseteq crossed' /\ faults' \in {faults, faults + 1} /\ CauseOf(faults', act'[r])
        BY <2>1, <3>1, <3>3
      <3>5. QED
        BY <2>1, <3>1, <3>3, <3>4, AgainKept DEF GoesOn
    <2>3. CASE Accepts(act[r].got)
      <3> DEFINE rev == act[r].got
      <3>1. /\ GoesOn(r, "enqueue") /\ act'[r].error = act[r].error
            /\ head' = rev /\ ledger' = ledger \cup {rev}
            /\ crossed' = IF Crossing(r) = {} THEN crossed
                          ELSE crossed \cup {rev} \cup {act[q].got : q \in Crossing(r)}
        BY <1>6, <2>3, PersistFacts
      <3>2. Content' = Content /\ Past' = Past /\ Returned' = Returned /\ Again \subseteq Again'
        BY <2>1, <3>1 DEF Content, Past, Returned, Again
      <3>3. rev \in Past /\ (rev # Content /\ Content \in ledger => Content \in Again)
        BY <2>1 DEF AgainInv, AgainOf
      <3>4. \A q \in Runner \ {r} : act[q].pc \in {"compare", "persist"} => act[q].got \in Again' /\ rev \in Again'
        BY <3>1 DEF Crossing, Again
      <3>5. \A q \in Runner \ {r} : AgainOf(act[q])'
        BY <3>1, <3>2, <3>3, <3>4 DEF AgainOf, AgainInv, GoesOn
      <3>6. AgainOf(act[r])'
        BY <3>1 DEF AgainOf, GoesOn
      <3>7. AgainInv'
        BY <3>1, <3>2, <3>3, <3>5, <3>6 DEF AgainInv
      <3>8. act'[r].error = "none" /\ act'[r].pc = "enqueue"
        BY <2>1, <3>1 DEF CauseInv, CauseOf, GoesOn
      <3>9. CauseInv'
        BY <2>1, <3>1, <3>2, <3>8 DEF CauseInv, CauseOf, IsCause, Excused, GoesOn
      <3>10. QED
        BY <3>7, <3>9
    <2>4. QED
      BY <2>2, <2>3
  <1>7. ASSUME NEW r \in Runner, WriteFreshness(r) \/ CatchPoll(r) PROVE AgainInv' /\ CauseInv'
    <2>1. UNCHANGED <<published, head, ledger, sched, crossed, faults>>
      BY <1>7 DEF WriteFreshness, CatchPoll
    <2>2. /\ \A q \in Runner \ {r} : act'[q] = act[q]
          /\ act'[r].pc \in {"finish", "record"} /\ act'[r].error = act[r].error /\ act'[r].got = act[r].got
          /\ act'[r].pc = "finish" => act[r].pc = "freshen"
          /\ act'[r].pc = "record" => act[r].pc = "catch"
      BY <1>7, WriteFreshnessFacts, CatchPollFacts DEF GoesOn
    <2>3. AgainOf(act'[r]) /\ CauseOf(faults, act'[r])
      BY <2>2 DEF AgainOf, CauseInv, CauseOf
    <2>4. Excused(faults, fresh')
      <3>1. CASE WriteFreshness(r)
        BY <3>1, WriteFreshnessFacts DEF Excused
      <3>2. CASE CatchPoll(r)
        <4>1. IsCause(faults, fresh'.error, act[r].got)
          BY <3>2, CatchPollFacts DEF CauseInv, CauseOf
        <4>2. IsCause(faults, fresh'.error, None) \/ (act[r].got \in Again /\ IsCause(faults, fresh'.error, act[r].got))
          BY <4>1 DEF IsCause
        <4>3. QED
          BY <4>2 DEF Excused
      <3>3. QED
        BY <1>7, <3>1, <3>2
    <2>5. /\ crossed \subseteq crossed' /\ faults' \in {faults, faults + 1}
          /\ CauseOf(faults', act'[r]) /\ Excused(faults', fresh')
          /\ sched'.pc = "refresh" => sched'.snap.state # "UNAVAILABLE"
      BY <2>1, <2>3, <2>4 DEF CauseInv
    <2>6. QED
      BY <2>1, <2>2, <2>3, <2>5, AgainLeft
  <1>8. ASSUME NEW r \in Runner, FaultStep(r) PROVE AgainInv' /\ CauseInv'
    <2>1. /\ UNCHANGED <<published, head, ledger, fresh, sched, crossed>> /\ faults' = faults + 1
          /\ \A q \in Runner \ {r} : act'[q] = act[q]
      BY <1>8, FaultFacts DEF records
    <2>2. act'[r].pc \notin {"compare", "persist"}
      BY <1>8, FaultFacts DEF GoesOn
    <2>3. faults \in Nat /\ faults' > 0
      BY <2>1 DEF CauseInv
    <2>4. CauseOf(faults', act'[r])
      <3>1. CASE /\ GoesOn(r, "catch") /\ act'[r].error \in {"retrieval", "store"} /\ act'[r].error \in Faults
        BY <2>3, <3>1 DEF CauseOf, IsCause, GoesOn
      <3>2. CASE GoesOn(r, "failed") /\ act'[r].error = act[r].error /\ act'[r].got = act[r].got
        BY <2>3, <3>2 DEF CauseInv, CauseOf, IsCause, GoesOn
      <3>3. CASE act'[r].pc = "idle" /\ act'[r].error = "none"
        BY <3>3 DEF CauseOf
      <3>4. CASE act[r].pc = "idle" /\ act'[r].pc \in {"start", "candidate"} /\ act'[r].error = act[r].error
        BY <3>4 DEF CauseInv, CauseOf
      <3>5. QED
        BY <1>8, <3>1, <3>2, <3>3, <3>4, FaultFacts
    <2>5. AgainOf(act'[r]) /\ faults' \in {faults, faults + 1} /\ crossed \subseteq crossed'
      BY <2>1, <2>2 DEF AgainOf
    <2>6. QED
      BY <2>1, <2>4, <2>5, AgainKept
  <1>9. CASE Advance \/ (\E c \in Case : RequestReanalysis(c)) \/ UNCHANGED vars
    BY <1>1, <1>9 DEF Advance, RequestReanalysis, vars, records, observed
  <1>10. QED
    BY <1>2, <1>3, <1>4, <1>5, <1>6, <1>7, <1>8, <1>9 DEF Next, HandlerStep, SchedulerStep

LEMMA AgainInvHolds == Spec => [](AgainInv /\ CauseInv)
  <1>1. Init => AgainInv /\ CauseInv
    BY DEF Init, AgainInv, AgainOf, CauseInv, CauseOf, Excused, Idle, Quiet
  <1>2. TypeInv /\ AgainInv /\ CauseInv /\ [Next]_vars => AgainInv' /\ CauseInv'
    BY AgainStep
  <1>3. QED
    BY <1>1, <1>2, TypeInvHolds, PTL DEF Spec

\* For any number of runners, contents that come and go, stores that reject: a
\* source is called unavailable only for a retrieval without an answer, for a call
\* that the store rejected, or for a revision that was persisted already, which
\* comes only of contents that returned or polls that crossed.
THEOREM UnavailableOnlyForCause == Spec => []UnavailableHasCause
  <1>1. CauseInv => UnavailableHasCause
    <2> SUFFICES ASSUME CauseInv PROVE UnavailableHasCause
      OBVIOUS
    <2>1. \A r \in Runner : act[r].error = "duplicate" => act[r].got \in Again
      BY DEF CauseInv, CauseOf, IsCause
    <2>2. fresh # None /\ fresh.state = "UNAVAILABLE" =>
            \/ fresh.error \in {"retrieval", "store"} /\ fresh.error \in Faults /\ faults > 0
            \/ fresh.error = "duplicate" /\ Again # {}
      <3>1. None \notin Again \/ Again # {}
        OBVIOUS
      <3>2. QED
        BY <3>1 DEF CauseInv, Excused, IsCause
    <2>3. QED
      BY <2>1, <2>2 DEF UnavailableHasCause
  <1>2. QED
    BY <1>1, AgainInvHolds, PTL

-------------------------------------------------------------------------------
(* Links of a review *)

\* A handler links a candidate that it made, to a list of candidates made.
MadeOf(a) ==
  /\ a.pc \in {"link", "relink", "done"} /\ a.job \in CaseJobs => a.job[2] \in candidates[a.job[3]]
  /\ a.pc = "relink" => a.seen \subseteq candidates[a.job[3]]

MadeInv ==
  /\ candidates \in [Revision -> SUBSET Case]
  /\ \A r \in Runner : MadeOf(act[r])
  /\ \A rev \in Revision : reviews[rev] # None => reviews[rev] \subseteq candidates[rev]

\* A revision that came once, and whose review one handler at a time had in hand.
Calm(rev) == rev \notin raced /\ (UniqueEvents \/ rev \notin Again)

\* The re-analysis has linked its candidate, or found no review to link it to.
Ended(c, rev) ==
  \/ promise[CaseJob(c, rev)] = "completed"
  \/ \E r \in Runner : act[r].pc = "done" /\ act[r].job = CaseJob(c, rev)

\* One handler at a time has the review in hand, a re-analysis what it is, a poll
\* when there is none yet and no re-analysis has missed it; and who has ended is in it.
CalmInv ==
  \A rev \in Revision : Calm(rev) =>
    /\ \A r, q \in AtReview(rev) : r = q
    /\ \A r \in AtReview(rev) :
         /\ act[r].pc = "relink" => reviews[rev] # None /\ act[r].seen = reviews[rev]
         /\ act[r].pc = "enqueue" => reviews[rev] = None /\ \A c \in Case : ~Ended(c, rev)
    /\ reviews[rev] # None => \A c \in Case : Ended(c, rev) => c \in reviews[rev]

LEMMA AgainGrows ==
  ASSUME TypeInv, [Next]_vars
  PROVE  Again \subseteq Again' /\ raced \subseteq raced' /\ \A rev \in Revision : Calm(rev)' => Calm(rev)
  <1>1. Returned \subseteq Returned'
    <2>1. CASE UNCHANGED published
      BY <2>1 DEF Returned
    <2>2. CASE \E rev \in Revision : Publish(rev)
      BY <2>2, PublishFacts
    <2>3. CASE UNCHANGED vars
      BY <2>1, <2>3 DEF vars
    <2>4. QED
      BY <2>1, <2>2, <2>3
      DEF Next, Advance, RequestReanalysis, SchedulerStep, RefreshRead, RefreshWrite, SyncDeadLetters,
          ScheduleDue, Take, HandlerStep, ReadRun, ReadFreshness, WriteRunning, Fetch, Compare, Persist,
          EnqueueCase, WriteReview, WriteFreshness, CompleteRun, CatchPoll, FailRun, WriteCandidate,
          ReadReview, WriteLinks, Settle, FaultStep, FetchFails, StoreFails, Retake, Lose
  <1>2. crossed \subseteq crossed' /\ raced \subseteq raced'
    <2>1. CASE UNCHANGED observed
      BY <2>1 DEF observed
    <2>2. CASE UNCHANGED <<crossed, raced>>
      BY <2>2
    <2>3. ASSUME NEW r \in Runner, Persist(r) PROVE crossed \subseteq crossed' /\ raced \subseteq raced'
      BY <2>3, PersistFacts DEF Persist
    <2>4. ASSUME NEW r \in Runner, ReadReview(r) PROVE crossed \subseteq crossed' /\ raced \subseteq raced'
      BY <2>4 DEF ReadReview
    <2>5. CASE UNCHANGED vars
      BY <2>1, <2>5 DEF vars
    <2>6. QED
      BY <2>1, <2>2, <2>3, <2>4, <2>5
      DEF Next, Publish, Advance, RequestReanalysis, SchedulerStep, RefreshRead, RefreshWrite, SyncDeadLetters,
          ScheduleDue, Take, HandlerStep, ReadRun, ReadFreshness, WriteRunning, Fetch, Compare,
          EnqueueCase, WriteReview, WriteFreshness, CompleteRun, CatchPoll, FailRun, WriteCandidate,
          WriteLinks, Settle, FaultStep, FetchFails, StoreFails, Retake, Lose
  <1>3. QED
    BY <1>1, <1>2 DEF Again, Calm

\* A step of one runner, or of none, that leaves candidates and reviews, and after
\* which no handler has a review in hand that had not, nor has ended.
LEMMA LinksStay ==
  ASSUME TypeInv, MadeInv, CalmInv, UNCHANGED <<reviews, candidates>>,
         \A rev \in Revision : Calm(rev)' => Calm(rev),
         NEW r, \A q \in Runner \ {r} : act'[q] = act[q],
         r \in Runner =>
           /\ act'[r].pc \notin {"relink", "link"}
           /\ act'[r].pc = "enqueue" => act[r].pc = "enqueue" /\ act'[r].got = act[r].got
           /\ act'[r].pc = "done" => act'[r].job \notin CaseJobs,
         \A j \in CaseJobs : promise'[j] = "completed" =>
           promise[j] = "completed" \/ (r \in Runner /\ act[r].pc = "done" /\ act[r].job = j)
  PROVE  MadeInv' /\ CalmInv'
  <1>1. MadeInv'
    BY DEF MadeInv, MadeOf
  <1>2. ASSUME NEW rev \in Revision, NEW q \in AtReview(rev)'
        PROVE  q \in AtReview(rev) /\ act'[q].pc = act[q].pc /\ (act[q].pc = "relink" => act'[q] = act[q])
    BY <1>2 DEF AtReview, At
  <1>3. ASSUME NEW c \in Case, NEW rev \in Revision, Ended(c, rev)' PROVE Ended(c, rev)
    <2>1. CaseJob(c, rev) \in CaseJobs
      BY DEF CaseJobs
    <2>2. QED
      BY <1>3, <2>1 DEF Ended
  <1>4. CalmInv'
    <2> SUFFICES ASSUME NEW rev \in Revision, Calm(rev)'
                 PROVE  /\ \A x, y \in AtReview(rev)' : x = y
                        /\ \A x \in AtReview(rev)' :
                             /\ act'[x].pc = "relink" => reviews[rev] # None /\ act'[x].seen = reviews[rev]
                             /\ act'[x].pc = "enqueue" => reviews[rev] = None /\ \A c \in Case : ~Ended(c, rev)'
                        /\ reviews[rev] # None => \A c \in Case : Ended(c, rev)' => c \in reviews[rev]
      BY DEF CalmInv
    <2>1. Calm(rev)
      OBVIOUS
    <2>2. QED
      BY <1>2, <1>3, <2>1 DEF CalmInv
  <1>5. QED
    BY <1>1, <1>4

\* A handler writes, or reads, the review of rev, or comes to have it in hand: what
\* holds of the other reviews goes on to hold.
LEMMA LinksElsewhere ==
  ASSUME TypeInv, CalmInv, promise' = promise, NEW r \in Runner, NEW rev \in Revision,
         \A u \in Revision : Calm(u)' => Calm(u), \A q \in Runner \ {r} : act'[q] = act[q],
         \A u \in Revision \ {rev} : reviews'[u] = reviews[u],
         act'[r].pc = "relink" => act'[r].job[3] = rev,
         act'[r].pc = "enqueue" => act'[r].got = rev,
         act'[r].pc = "done" /\ act'[r].job \in CaseJobs => act'[r].job[3] = rev,
         Calm(rev)' =>
           /\ \A x, y \in AtReview(rev)' : x = y
           /\ \A x \in AtReview(rev)' :
                /\ act'[x].pc = "relink" => reviews'[rev] # None /\ act'[x].seen = reviews'[rev]
                /\ act'[x].pc = "enqueue" => reviews'[rev] = None /\ \A c \in Case : ~Ended(c, rev)'
           /\ reviews'[rev] # None => \A c \in Case : Ended(c, rev)' => c \in reviews'[rev]
  PROVE  CalmInv'
  <1> SUFFICES ASSUME NEW u \in Revision, u # rev, Calm(u)'
               PROVE  /\ \A x, y \in AtReview(u)' : x = y
                      /\ \A x \in AtReview(u)' :
                           /\ act'[x].pc = "relink" => reviews'[u] # None /\ act'[x].seen = reviews'[u]
                           /\ act'[x].pc = "enqueue" => reviews'[u] = None /\ \A c \in Case : ~Ended(c, u)'
                      /\ reviews'[u] # None => \A c \in Case : Ended(c, u)' => c \in reviews'[u]
    BY DEF CalmInv
  <1>1. Calm(u) /\ reviews'[u] = reviews[u]
    OBVIOUS
  <1>2. ASSUME NEW x \in AtReview(u)' PROVE x \in AtReview(u) /\ act'[x] = act[x]
    BY <1>2 DEF AtReview, At
  <1>3. ASSUME NEW c \in Case, Ended(c, u)' PROVE Ended(c, u)
    <2>1. CaseJob(c, u) \in CaseJobs /\ CaseJob(c, u)[3] = u
      BY Jobs DEF CaseJobs
    <2>2. QED
      BY <1>3, <2>1 DEF Ended
  <1>4. QED
    BY <1>1, <1>2, <1>3 DEF CalmInv

LEMMA LinksStep ==
  ASSUME TypeInv, LedgerInv, AgainInv, MadeInv, CalmInv, [Next]_vars
  PROVE  MadeInv' /\ CalmInv'
  <1>0. \A rev \in Revision : Calm(rev)' => Calm(rev)
    BY AgainGrows
  <1>1. ASSUME UNCHANGED <<reviews, candidates, act>>,
               \A j \in CaseJobs : promise'[j] = "completed" => promise[j] = "completed"
        PROVE  MadeInv' /\ CalmInv'
    <2>1. MadeInv'
      BY <1>1 DEF MadeInv, MadeOf
    <2>2. \A c \in Case, rev \in Revision : Ended(c, rev)' => Ended(c, rev)
      BY <1>1 DEF Ended, CaseJobs
    <2>3. \A rev \in Revision : AtReview(rev)' = AtReview(rev)
      BY <1>1 DEF AtReview, At
    <2>4. CalmInv'
      BY <1>0, <1>1, <2>2, <2>3 DEF CalmInv
    <2>5. QED
      BY <2>1, <2>4
  <1>2. CASE (\E rev \in Revision : Publish(rev)) \/ Advance \/ RefreshRead \/ RefreshWrite \/ SyncDeadLetters
             \/ UNCHANGED vars
    BY <1>1, <1>2 DEF Publish, Advance, RefreshRead, RefreshWrite, SyncDeadLetters, vars, records, queue
  <1>3. ASSUME NEW c \in Case, RequestReanalysis(c) PROVE MadeInv' /\ CalmInv'
    <2>1. CaseJob(c, head) \in Job /\ Enqueue(CaseJob(c, head)) /\ UNCHANGED <<reviews, candidates, act>>
      BY <1>3 DEF RequestReanalysis, TypeInv, TypeOK, Job, records
    <2>2. \A j \in CaseJobs : promise'[j] = "completed" => promise[j] = "completed"
      BY <2>1, EnqueueType, JobKinds
    <2>3. QED
      BY <1>1, <2>1, <2>2
  <1>4. CASE ScheduleDue
    <2>1. UNCHANGED <<reviews, candidates, act>>
      BY <1>4 DEF ScheduleDue, records
    <2>2. \A j \in CaseJobs : promise'[j] = "completed" => promise[j] = "completed"
      <3>1. CASE ~IsDue
        BY <1>4, <3>1 DEF ScheduleDue, queue
      <3>2. CASE IsDue
        <4> DEFINE t == IF fresh = None THEN now ELSE fresh.due
        <4>1. t \in Instant
          BY <3>2, ResearchAssumption DEF IsDue, TypeInv, TypeOK, Freshness, Instant
        <4>2. PollJob(t) \in Job /\ Enqueue(PollJob(t))
          BY <1>4, <3>2, <4>1 DEF ScheduleDue, Job
        <4>3. QED
          BY <4>2, EnqueueType, JobKinds
      <3>3. QED
        BY <3>1, <3>2
    <2>3. QED
      BY <1>1, <2>1, <2>2
  <1>5. ASSUME NEW r \in Runner,
               (\E j \in Job : Take(r, j)) \/ ReadRun(r) \/ ReadFreshness(r) \/ WriteRunning(r) \/ Fetch(r)
               \/ Compare(r) \/ WriteFreshness(r) \/ CompleteRun(r) \/ CatchPoll(r) \/ FailRun(r)
        PROVE  MadeInv' /\ CalmInv'
    <2>1. UNCHANGED <<reviews, candidates, promise>>
      BY <1>5 DEF Take, ReadRun, ReadFreshness, WriteRunning, Fetch, Compare, WriteFreshness, CompleteRun,
                  CatchPoll, FailRun, records, queue
    <2>2. \A q \in Runner \ {r} : act'[q] = act[q]
      BY <1>5, TakeStep, ReadRunFacts, ReadFreshnessFacts, WriteRunningFacts, FetchFacts, CompareFacts,
         WriteFreshnessFacts, CompleteRunFacts, CatchPollFacts, FailRunFacts DEF GoesOn
    <2>3. act'[r].pc \notin {"relink", "link", "enqueue"} /\ (act'[r].pc = "done" => act'[r].job \notin CaseJobs)
      <3>1. CASE CompleteRun(r)
        BY <3>1, CompleteRunFacts, JobKinds DEF GoesOn, SameTask
      <3>2. CASE ~CompleteRun(r)
        BY <1>5, <3>2, TakeStep, ReadRunFacts, ReadFreshnessFacts, WriteRunningFacts, FetchFacts, CompareFacts,
           WriteFreshnessFacts, CatchPollFacts, FailRunFacts DEF GoesOn
      <3>3. QED
        BY <3>1, <3>2
    <2>4. QED
      BY <1>0, <2>1, <2>2, <2>3, LinksStay
  <1>6. ASSUME NEW r \in Runner, Persist(r) PROVE MadeInv' /\ CalmInv'
    <2>1. /\ UNCHANGED <<reviews, candidates, promise>> /\ act[r].pc = "persist"
          /\ act'[r].got = act[r].got /\ act[r].got \in Revision
      BY <1>6, PersistFacts DEF Persist, queue
    <2>2. CASE GoesOn(r, "catch")
      BY <1>0, <2>1, <2>2, LinksStay DEF GoesOn
    <2>3. CASE Accepts(act[r].got) /\ GoesOn(r, "enqueue")
      <3>1. PICK rev \in Revision : rev = act[r].got
        BY <2>1
      <3>2. ASSUME Calm(rev)
            PROVE  reviews[rev] = None /\ AtReview(rev) = {} /\ \A c \in Case : ~Ended(c, rev)
        <4>1. rev \notin ledger
          BY <2>1, <2>3, <3>1, <3>2 DEF Accepts, Calm, AgainInv, AgainOf
        <4>2. reviews[rev] = None
          BY <4>1 DEF LedgerInv
        <4>3. AtReview(rev) = {}
          BY <4>1, AtCase DEF LedgerInv, TakesForPersisted, AtReview, At, CasePc
        <4>4. ASSUME NEW c \in Case PROVE ~Ended(c, rev)
          <5>1. CaseJob(c, rev) \in CaseJobs /\ CaseJob(c, rev)[3] = rev
            BY Jobs DEF CaseJobs
          <5>2. QED
            BY <4>1, <5>1 DEF LedgerInv, TakesForPersisted, Ended
        <4>5. QED
          BY <4>2, <4>3, <4>4
      <3>3. MadeInv'
        BY <2>1, <2>3 DEF MadeInv, MadeOf, GoesOn
      <3>4. /\ \A x \in AtReview(rev)' : x \in AtReview(rev) \/ x = r
            /\ \A c \in Case : Ended(c, rev)' => Ended(c, rev)
        BY <2>1, <2>3 DEF AtReview, At, Ended, GoesOn
      <3>5. CalmInv'
        BY <1>0, <2>1, <2>3, <3>1, <3>2, <3>4, LinksElsewhere DEF GoesOn
      <3>6. QED
        BY <3>3, <3>5
    <2>4. QED
      BY <1>6, <2>2, <2>3, PersistFacts
  <1>7. ASSUME NEW r \in Runner, NEW c \in Case, EnqueueCase(r, c) PROVE MadeInv' /\ CalmInv'
    <2>1. UNCHANGED <<reviews, candidates>>
      BY <1>7 DEF EnqueueCase, records
    <2>2. /\ act[r].pc = "enqueue" /\ GoesOn(r, "enqueue") /\ act'[r].got = act[r].got
          /\ \A j \in Job : promise'[j] \in {promise[j], "pending"}
      BY <1>7, EnqueueCaseFacts
    <2>3. QED
      BY <1>0, <2>1, <2>2, JobKinds, LinksStay DEF GoesOn
  <1>8. ASSUME NEW r \in Runner, WriteReview(r) PROVE MadeInv' /\ CalmInv'
    <2>1. /\ UNCHANGED <<candidates, promise>> /\ act[r].pc = "enqueue" /\ GoesOn(r, "freshen")
          /\ act[r].got \in Revision /\ reviews'[act[r].got] = {}
          /\ \A rev \in Revision \ {act[r].got} : reviews'[rev] = reviews[rev]
      BY <1>8, WriteReviewFacts DEF WriteReview, queue
    <2>2. PICK rev \in Revision : rev = act[r].got
      BY <2>1
    <2>3. MadeInv'
      BY <2>1, <2>2 DEF MadeInv, MadeOf, GoesOn
    <2>4. ASSUME Calm(rev) PROVE AtReview(rev) = {r} /\ \A c \in Case : ~Ended(c, rev)
      <3>1. r \in AtReview(rev)
        BY <2>1, <2>2 DEF AtReview, At
      <3>2. QED
        BY <2>1, <2>4, <3>1 DEF CalmInv
    <2>5. /\ \A x \in AtReview(rev)' : x \in AtReview(rev) /\ x # r
          /\ \A c \in Case : Ended(c, rev)' => Ended(c, rev)
      BY <2>1 DEF AtReview, At, Ended, GoesOn
    <2>6. CalmInv'
      BY <1>0, <2>1, <2>2, <2>4, <2>5, LinksElsewhere DEF GoesOn
    <2>7. QED
      BY <2>3, <2>6
  <1>9. ASSUME NEW r \in Runner, WriteCandidate(r) PROVE MadeInv' /\ CalmInv'
    <2>1. /\ UNCHANGED <<reviews, promise>> /\ act[r].pc = "candidate" /\ GoesOn(r, "link")
          /\ candidates' = [candidates EXCEPT ![act[r].job[3]] = @ \cup {act[r].job[2]}]
          /\ act[r].job[2] \in Case /\ act[r].job[3] \in Revision
      BY <1>9, WriteCandidateFacts, AtCase DEF WriteCandidate, queue, CasePc
    <2>2. /\ candidates' \in [Revision -> SUBSET Case] /\ act[r].job[2] \in candidates'[act[r].job[3]]
          /\ \A rev \in Revision : candidates[rev] \subseteq candidates'[rev]
      BY <2>1 DEF MadeInv
    <2>3. MadeInv'
      <3>1. ASSUME NEW q \in Runner PROVE MadeOf(act[q])'
        <4>1. CASE q = r
          BY <2>1, <2>2, <4>1 DEF MadeOf, GoesOn, SameTask
        <4>2. CASE q # r
          <5>1. act'[q] = act[q]
            BY <2>1, <4>2 DEF GoesOn
          <5>2. act[q].pc \in CasePc => act[q].job \in CaseJobs
            BY AtCase
          <5>3. act[q].job \in CaseJobs => act[q].job[3] \in Revision
            BY JobKinds
          <5>4. QED
            BY <2>2, <5>1, <5>2, <5>3 DEF MadeInv, MadeOf, CasePc
        <4>3. QED
          BY <4>1, <4>2
      <3>2. QED
        BY <2>1, <2>2, <3>1 DEF MadeInv
    <2>4. /\ \A rev \in Revision : \A x \in AtReview(rev)' : x \in AtReview(rev) /\ act'[x] = act[x]
          /\ \A rev \in Revision, c \in Case : Ended(c, rev)' => Ended(c, rev)
      BY <2>1 DEF AtReview, At, Ended, GoesOn
    <2>5. CalmInv'
      BY <1>0, <2>1, <2>4 DEF CalmInv
    <2>6. QED
      BY <2>3, <2>5
  <1>10. ASSUME NEW r \in Runner, ReadReview(r) PROVE MadeInv' /\ CalmInv'
    <2>1. /\ UNCHANGED <<reviews, candidates, promise>> /\ act[r].pc = "link"
          /\ act[r].job[2] \in Case /\ act[r].job[3] \in Revision
          /\ act[r].job \in CaseJobs
      BY <1>10, ReadReviewFacts, AtCase DEF ReadReview, records, queue, CasePc
    <2>2. PICK rev \in Revision : rev = act[r].job[3]
      BY <2>1
    <2>3. Calm(rev)' => AtReview(rev) = {}
      BY <1>10, <2>2, ReadReviewFacts DEF Calm
    <2>4. \/ reviews[rev] = None /\ GoesOn(r, "done")
          \/ GoesOn(r, "relink") /\ act'[r].seen = reviews[rev] /\ reviews[rev] # None
      BY <1>10, <2>2, ReadReviewFacts
    <2>5. MadeInv'
      BY <2>1, <2>2, <2>4 DEF MadeInv, MadeOf, GoesOn, SameTask
    <2>6. CASE reviews[rev] = None /\ GoesOn(r, "done")
      <3>1. \A x \in AtReview(rev)' : x \in AtReview(rev)
        BY <2>1, <2>6 DEF AtReview, At, GoesOn
      <3>2. CalmInv'
        BY <1>0, <2>1, <2>2, <2>3, <2>6, <3>1, LinksElsewhere DEF GoesOn, SameTask
      <3>3. QED
        BY <2>5, <3>2
    <2>7. CASE GoesOn(r, "relink") /\ act'[r].seen = reviews[rev] /\ reviews[rev] # None
      <3>1. \A x \in AtReview(rev)' : x \in AtReview(rev) \/ x = r
        BY <2>1, <2>7 DEF AtReview, At, GoesOn
      <3>2. \A c \in Case : Ended(c, rev)' => Ended(c, rev)
        BY <2>1, <2>7 DEF Ended, GoesOn
      <3>3. Calm(rev)' => \A c \in Case : Ended(c, rev)' => c \in reviews[rev]
        BY <1>0, <2>7, <3>2 DEF CalmInv
      <3>4. CalmInv'
        BY <1>0, <2>1, <2>2, <2>3, <2>7, <3>1, <3>3, LinksElsewhere DEF GoesOn, SameTask
      <3>5. QED
        BY <2>5, <3>4
    <2>8. QED
      BY <2>4, <2>6, <2>7
  <1>11. ASSUME NEW r \in Runner, WriteLinks(r) PROVE MadeInv' /\ CalmInv'
    <2>1. /\ UNCHANGED <<candidates, promise>> /\ act[r].pc = "relink" /\ GoesOn(r, "done")
          /\ act[r].job[2] \in Case /\ act[r].job[3] \in Revision /\ act[r].job \in CaseJobs
          /\ act[r].job = CaseJob(act[r].job[2], act[r].job[3])
          /\ reviews'[act[r].job[3]] = act[r].seen \cup {act[r].job[2]}
          /\ \A u \in Revision \ {act[r].job[3]} : reviews'[u] = reviews[u]
      BY <1>11, WriteLinksFacts, AtCase DEF WriteLinks, queue, Links, CasePc
    <2>2. PICK rev \in Revision : rev = act[r].job[3]
      BY <2>1
    <2>3. PICK c \in Case : c = act[r].job[2]
      BY <2>1
    <2>4. act[r].seen \subseteq candidates[rev] /\ c \in candidates[rev]
      BY <2>1, <2>2, <2>3 DEF MadeInv, MadeOf
    <2>5. MadeInv'
      BY <2>1, <2>2, <2>3, <2>4 DEF MadeInv, MadeOf, GoesOn, SameTask
    <2>6. ASSUME Calm(rev) PROVE AtReview(rev) = {r} /\ act[r].seen = reviews[rev] /\ reviews[rev] # None
      <3>1. r \in AtReview(rev)
        BY <2>1, <2>2 DEF AtReview, At
      <3>2. QED
        BY <2>1, <2>6, <3>1 DEF CalmInv
    <2>7. \A x \in AtReview(rev)' : x \in AtReview(rev) /\ x # r
      BY <2>1 DEF AtReview, At, GoesOn
    <2>8. \A d \in Case : Ended(d, rev)' => Ended(d, rev) \/ d = c
      <3>1. ASSUME NEW d \in Case, act'[r].job = CaseJob(d, rev) PROVE d = c
        <4>1. CaseJob(d, rev) = CaseJob(c, rev)
          BY <2>1, <2>2, <2>3, <3>1 DEF GoesOn, SameTask
        <4>2. QED
          BY <4>1, Jobs
      <3>2. QED
        BY <2>1, <3>1 DEF Ended, GoesOn
    <2>9. Calm(rev)' => \A d \in Case : Ended(d, rev)' => d \in reviews'[rev]
      BY <1>0, <2>1, <2>2, <2>3, <2>6, <2>8 DEF CalmInv
    <2>10. CalmInv'
      BY <1>0, <2>1, <2>2, <2>6, <2>7, <2>9, LinksElsewhere DEF GoesOn, SameTask
    <2>11. QED
      BY <2>5, <2>10
  <1>12. ASSUME NEW r \in Runner, Settle(r) PROVE MadeInv' /\ CalmInv'
    <2>1. UNCHANGED <<reviews, candidates>>
      BY <1>12 DEF Settle, records
    <2>2. \A j \in CaseJobs : promise'[j] = "completed" =>
            promise[j] = "completed" \/ (act[r].pc = "done" /\ act[r].job = j)
      BY <1>12, SettleFacts, JobKinds
    <2>3. QED
      BY <1>0, <1>12, <2>1, <2>2, SettleFacts, LinksStay
  <1>13. ASSUME NEW r \in Runner, FaultStep(r) PROVE MadeInv' /\ CalmInv'
    <2>1. UNCHANGED <<reviews, candidates, promise>> /\ \A q \in Runner \ {r} : act'[q] = act[q]
      BY <1>13, FaultFacts DEF records, queue
    <2>2. act'[r].pc \notin {"relink", "link", "enqueue", "done"}
      BY <1>13, FaultFacts DEF GoesOn
    <2>3. QED
      BY <1>0, <2>1, <2>2, LinksStay
  <1>14. QED
    BY <1>2, <1>3, <1>4, <1>5, <1>6, <1>7, <1>8, <1>9, <1>10, <1>11, <1>12, <1>13
    DEF Next, HandlerStep, SchedulerStep

\* For any number of re-analyses and polls at once, in whatever order, and any
\* faults: a review links only candidates that were made, and the candidate of
\* every re-analysis that completed, but for a revision whose review two handlers
\* had in hand at once, and, with the file provider, one that came again.
THEOREM CandidatesAreLinked == Spec => []CandidatesLinked
  <1>1. Init => MadeInv /\ CalmInv
    <2> SUFFICES ASSUME Init PROVE MadeInv /\ CalmInv
      OBVIOUS
    <2>1. MadeInv
      BY DEF Init, MadeInv, MadeOf, Idle
    <2>2. \A rev \in Revision : AtReview(rev) = {} /\ reviews[rev] = None
      BY DEF Init, AtReview, At, Idle
    <2>3. QED
      BY <2>1, <2>2 DEF CalmInv
  <1>2. TypeInv /\ LedgerInv /\ AgainInv /\ MadeInv /\ CalmInv /\ [Next]_vars => MadeInv' /\ CalmInv'
    BY LinksStep
  <1>3. MadeInv /\ CalmInv => CandidatesLinked
    BY DEF MadeInv, CalmInv, Calm, Ended, CandidatesLinked
  <1>4. QED
    BY <1>1, <1>2, <1>3, TypeInvHolds, ReviewedInvHolds, AgainInvHolds, PTL DEF Spec

-------------------------------------------------------------------------------
(* The slot of the next poll *)

FewerFaultsThanAttempts == IsFiniteSet(Runner) /\ MaxFaults < MaxAttempts

\* The refresh writes back the due time that it finds.
LosesNothing == RefreshWrite => fresh # None /\ fresh.due = sched.snap.due

\* The handlers of a poll that ended without a new freshness, or with one.
Failing(t) == {r \in Runner : act[r].pc = "failed" /\ act[r].job = PollJob(t)}

CountsOK == counted \in [Job -> Nat] /\ faults \in 0 .. MaxFaults

\* Polls have been enqueued for instants up to now; who runs a job runs a known one.
SlotsKnown ==
  /\ \A t \in Instant :
       /\ promise[PollJob(t)] # "absent" => t <= now
       /\ promise[PollJob(t)] = "absent" => counted[PollJob(t)] = 0
  /\ \A r \in Runner : act[r].pc # "idle" => promise[act[r].job] # "absent"

\* A poll that is about to complete or to fail has moved the due time on.
MovedOn ==
  \A r \in Runner : act[r].pc \in {"finish", "done", "record"} /\ act[r].job \in PollJobs =>
    fresh # None /\ fresh.due # act[r].job[2]

\* The slot is open, and each of its failures, counted or not yet, is a fault.
SlotOpen ==
  fresh # None /\ fresh.due \in Instant =>
    /\ promise[PollJob(fresh.due)] \notin Queue!Settled
    /\ counted[PollJob(fresh.due)] + Cardinality(Failing(fresh.due)) <= faults

SlotInv == CountsOK /\ SlotsKnown /\ MovedOn /\ SlotOpen

LEMMA FailingIsFinite ==
  ASSUME IsFiniteSet(Runner), NEW t
  PROVE  /\ IsFiniteSet(Failing(t)) /\ Cardinality(Failing(t)) \in Nat
         /\ \A S : S \subseteq Failing(t) =>
              Cardinality(S) <= Cardinality(Failing(t)) /\ Cardinality(S) \in Nat
         /\ \A r : Cardinality(Failing(t) \cup {r}) <= Cardinality(Failing(t)) + 1
                   /\ IsFiniteSet(Failing(t) \cup {r})
         /\ \A r \in Failing(t) : Cardinality(Failing(t) \ {r}) = Cardinality(Failing(t)) - 1
  <1>1. Failing(t) \subseteq Runner
    BY DEF Failing
  <1>2. IsFiniteSet(Failing(t))
    BY <1>1, FS_Subset
  <1>3. Cardinality(Failing(t)) \in Nat
    BY <1>2, FS_CardinalityType
  <1>4. ASSUME NEW S, S \subseteq Failing(t)
        PROVE  Cardinality(S) <= Cardinality(Failing(t)) /\ Cardinality(S) \in Nat
    BY <1>2, <1>4, FS_Subset, FS_CardinalityType
  <1>5. ASSUME NEW r
        PROVE  /\ Cardinality(Failing(t) \cup {r}) <= Cardinality(Failing(t)) + 1
               /\ IsFiniteSet(Failing(t) \cup {r})
    <2>1. CASE r \in Failing(t)
      <3>1. Failing(t) \cup {r} = Failing(t)
        BY <2>1
      <3>2. QED
        BY <1>2, <1>3, <3>1
    <2>2. CASE r \notin Failing(t)
      <3>1. /\ Cardinality(Failing(t) \cup {r}) = Cardinality(Failing(t)) + 1
            /\ IsFiniteSet(Failing(t) \cup {r})
        BY <1>2, <2>2, FS_AddElement
      <3>2. QED
        BY <1>3, <3>1
    <2>3. QED
      BY <2>1, <2>2
  <1>6. \A r \in Failing(t) : Cardinality(Failing(t) \ {r}) = Cardinality(Failing(t)) - 1
    BY <1>2, FS_RemoveElement
  <1>7. QED
    BY <1>2, <1>3, <1>4, <1>5, <1>6

\* Whoever runs a job runs one of the queue's.
LEMMA RunsAJob == ASSUME TypeInv, NEW r \in Runner, act[r].pc # "idle" PROVE act[r].job \in Job
  <1>1. act[r].pc \in RunnerPc /\ Shape(act[r])
    BY LocalsAre DEF Locals
  <1>2. act[r].job \in PollJobs \cup CaseJobs \cup Job
    BY <1>1 DEF Shape, RunnerPc
  <1>3. QED
    BY <1>2, Jobs

\* Freshness records have a due time; a slot is a job.
LEMMA SlotTypes ==
  ASSUME TypeInv
  PROVE  /\ \A t \in Instant : PollJob(t) \in Job /\ PollJob(t) \in PollJobs /\ t \in Nat
         /\ fresh # None => fresh \in Freshness /\ fresh.due \in Nat
         /\ now \in Instant
  <1>1. \A t \in Instant : PollJob(t) \in Job /\ PollJob(t) \in PollJobs /\ t \in Nat
    BY DEF Job, PollJobs, Instant
  <1>2. fresh # None => fresh \in Freshness
    BY DEF TypeInv, TypeOK
  <1>3. \A f \in Freshness : f.due \in Nat
    BY ResearchAssumption DEF Freshness
  <1>4. QED
    BY <1>1, <1>2, <1>3 DEF TypeInv, TypeOK

\* Those that a step leaves behind.
NowFailing(t) == {r \in Runner : act'[r].pc = "failed" /\ act'[r].job = PollJob(t)}

\* Steps of one runner, or of none, that leave the slots and the due time.
LEMMA SlotStays ==
  ASSUME FewerFaultsThanAttempts, TypeInv, SlotInv, TypeInv', UNCHANGED <<now, counted>>,
         fresh # None => fresh' # None /\ fresh'.due = fresh.due,
         fresh = None => fresh' = None,
         \A t \in Instant : promise'[PollJob(t)] = promise[PollJob(t)],
         \A j \in Job : promise'[j] = "absent" => promise[j] = "absent",
         faults' \in {faults, faults + 1}, faults' <= MaxFaults,
         NEW r, \A q \in Runner \ {r} : act'[q] = act[q],
         r \in Runner =>
           /\ act'[r].pc # "idle" =>
                \/ act[r].pc # "idle" /\ act'[r].job = act[r].job
                \/ act'[r].job \in Job /\ promise[act'[r].job] # "absent"
           /\ act'[r].pc \in {"finish", "done", "record"} /\ act'[r].job \in PollJobs =>
                act[r].pc \in {"finish", "done", "record"} /\ act'[r].job = act[r].job
           /\ act'[r].pc = "failed" =>
                \/ act[r].pc = "failed" /\ act'[r].job = act[r].job
                \/ faults' = faults + 1
                \/ act[r].pc = "record" /\ act'[r].job = act[r].job /\ act[r].job \in PollJobs
  PROVE  SlotInv'
  <1>1. faults \in Nat /\ faults' \in Nat /\ faults <= faults' /\ CountsOK'
    BY ResearchAssumption DEF SlotInv, CountsOK
  <1>2. SlotsKnown'
    <2>1. ASSUME NEW q \in Runner, act'[q].pc # "idle"
          PROVE  act'[q].job \in Job /\ promise[act'[q].job] # "absent"
      BY <2>1, RunsAJob DEF SlotInv, SlotsKnown
    <2>2. QED
      BY <2>1 DEF SlotInv, SlotsKnown
  <1>3. MovedOn'
    BY DEF SlotInv, MovedOn
  <1>4. SlotOpen'
    <2> SUFFICES ASSUME fresh' # None, fresh'.due \in Instant
                 PROVE  /\ promise'[PollJob(fresh'.due)] \notin Queue!Settled
                        /\ counted[PollJob(fresh'.due)] + Cardinality(NowFailing(fresh'.due)) <= faults'
      BY DEF SlotOpen, Failing, NowFailing
    <2> DEFINE t == fresh.due
    <2>1. /\ fresh # None /\ fresh'.due = t /\ t \in Instant
          /\ promise[PollJob(t)] \notin Queue!Settled
          /\ counted[PollJob(t)] + Cardinality(Failing(t)) <= faults
      BY DEF SlotInv, SlotOpen
    <2>2. counted[PollJob(t)] \in Nat /\ Cardinality(Failing(t)) \in Nat
      BY <2>1, SlotTypes, FailingIsFinite DEF SlotInv, CountsOK, FewerFaultsThanAttempts
    <2>3. Cardinality(NowFailing(t)) <= Cardinality(Failing(t)) + (faults' - faults)
          /\ Cardinality(NowFailing(t)) \in Nat
      <3>1. CASE faults' = faults
        <4>1. ASSUME r \in NowFailing(t), act[r].pc = "record", act'[r].job = act[r].job,
                     act[r].job \in PollJobs
              PROVE  FALSE
          <5>1. act[r].job = PollJob(t) /\ act[r].job[2] = t /\ r \in Runner
            BY <2>1, <4>1, Jobs DEF NowFailing
          <5>2. QED
            BY <4>1, <5>1 DEF SlotInv, MovedOn
        <4>2. \A q \in NowFailing(t) : q \in Failing(t)
          <5>1. ASSUME r \in NowFailing(t) PROVE r \in Failing(t)
            BY <1>1, <3>1, <4>1, <5>1 DEF Failing, NowFailing
          <5>2. QED
            BY <5>1 DEF Failing, NowFailing
        <4>3. QED
          BY <1>1, <2>2, <3>1, <4>2, FailingIsFinite DEF FewerFaultsThanAttempts
      <3>2. CASE faults' = faults + 1
        <4>1. NowFailing(t) \subseteq Failing(t) \cup {r}
          BY DEF Failing, NowFailing
        <4>2. /\ Cardinality(NowFailing(t)) <= Cardinality(Failing(t) \cup {r})
              /\ Cardinality(NowFailing(t)) \in Nat /\ Cardinality(Failing(t) \cup {r}) \in Nat
          BY <4>1, FailingIsFinite, FS_Subset, FS_CardinalityType DEF FewerFaultsThanAttempts
        <4>3. Cardinality(Failing(t) \cup {r}) <= Cardinality(Failing(t)) + 1
          BY FailingIsFinite DEF FewerFaultsThanAttempts
        <4>4. QED
          BY <1>1, <2>2, <3>2, <4>2, <4>3
      <3>3. QED
        BY <3>1, <3>2
    <2> HIDE DEF t
    <2>4. QED
      BY <1>1, <2>1, <2>2, <2>3
  <1>5. QED
    BY <1>1, <1>2, <1>3, <1>4 DEF SlotInv

\* A poll that writes the freshness moves the due time to an instant to come,
\* of which nobody has heard.
LEMMA SlotMoves ==
  ASSUME TypeInv, SlotInv, TypeInv', NEW r \in Runner, UNCHANGED <<now, queue, faults>>,
         fresh' # None, fresh'.due = now + PollInterval,
         GoesOn(r, act'[r].pc), act[r].pc # "idle"
  PROVE  SlotInv'
  <1>1. now \in Nat /\ fresh'.due \in Nat /\ fresh'.due > now /\ faults \in Nat
    BY ResearchAssumption DEF TypeInv, TypeOK, Instant, SlotInv, CountsOK
  <1>2. promise' = promise /\ counted' = counted
    BY DEF queue
  <1>3. CountsOK' /\ SlotsKnown'
    BY <1>2 DEF SlotInv, CountsOK, SlotsKnown, GoesOn, SameTask
  <1>4. \A q \in Runner : act'[q].pc # "idle" => promise[act'[q].job] # "absent"
    BY <1>2, <1>3 DEF SlotsKnown
  <1>5. \A t \in Instant : promise[PollJob(t)] # "absent" => t # fresh'.due
    BY <1>1 DEF SlotInv, SlotsKnown, Instant
  <1>6. MovedOn'
    <2> SUFFICES ASSUME NEW q \in Runner, act'[q].pc # "idle", act'[q].job \in PollJobs
                 PROVE  fresh'.due # act'[q].job[2]
      BY DEF MovedOn
    <2>1. PICK t \in Instant : act'[q].job = PollJob(t)
      BY DEF PollJobs
    <2>2. t # fresh'.due
      BY <1>4, <1>5, <2>1
    <2>3. QED
      BY <2>1, <2>2, Jobs
  <1>7. SlotOpen'
    <2> SUFFICES ASSUME fresh'.due \in Instant
                 PROVE  /\ promise[PollJob(fresh'.due)] \notin Queue!Settled
                        /\ counted[PollJob(fresh'.due)] + Cardinality(NowFailing(fresh'.due)) <= faults
      BY <1>2 DEF SlotOpen, Failing, NowFailing
    <2>1. promise[PollJob(fresh'.due)] = "absent"
      BY <1>5
    <2>2. counted[PollJob(fresh'.due)] = 0
      BY <2>1 DEF SlotInv, SlotsKnown
    <2>3. NowFailing(fresh'.due) = {}
      BY <1>4, <2>1 DEF NowFailing
    <2>4. Cardinality(NowFailing(fresh'.due)) = 0
      BY <2>3, FS_EmptySet
    <2>5. QED
      BY <1>1, <2>1, <2>2, <2>4 DEF Queue!Settled
  <1>8. QED
    BY <1>3, <1>6, <1>7 DEF SlotInv

\* A poll that has its own slot still open settles nothing: its failed attempts
\* are faults, of which there are too few to give the job up.
LEMMA SettleKeepsSlot ==
  ASSUME FewerFaultsThanAttempts, TypeInv, SlotInv, NEW r \in Runner, Settle(r)
  PROVE  SlotInv'
  <1> DEFINE j == act[r].job
  <1>1. /\ TypeInv' /\ act[r].pc \in {"done", "failed"} /\ act'[r].pc = "idle"
        /\ \A q \in Runner \ {r} : act'[q] = act[q]
    BY SettleFacts
  <1>2. /\ UNCHANGED <<now, fresh, faults>> /\ j \in Job /\ counted \in [Job -> Nat]
        /\ promise \in [Job -> {"absent", "pending"} \cup Queue!Settled]
    BY <1>1, RunsAJob DEF Settle, records, SlotInv, CountsOK, TypeInv, TypeOK
  <1>3. CASE UNCHANGED queue
    <2>1. UNCHANGED <<promise, counted>>
      BY <1>3 DEF queue
    <2>2. fresh # None => fresh' # None /\ fresh'.due = fresh.due
      BY <1>2
    <2>3. faults' \in {faults, faults + 1} /\ faults' <= MaxFaults
      BY <1>2, ResearchAssumption DEF SlotInv, CountsOK
    <2>4. QED
      BY <1>1, <1>2, <2>1, <2>2, <2>3, SlotStays
  <1>4. CASE /\ promise[j] = "pending"
             /\ IF act[r].pc = "done" THEN Queue!Complete(j) ELSE Queue!Fail(j)
    <2>1. /\ counted' = [counted EXCEPT ![j] = counted[j] + 1]
          /\ promise' = [promise EXCEPT ![j] =
               IF act[r].pc = "failed" /\ ~(counted[j] + 1 >= MaxAttempts) THEN "pending"
               ELSE IF act[r].pc = "done" THEN "completed" ELSE "deadLetter"]
      <3>1. CASE act[r].pc = "done"
        BY <1>4, <3>1 DEF Queue!Complete
      <3>2. CASE act[r].pc = "failed"
        BY <1>1, <1>4, <3>2 DEF Queue!Fail
      <3>3. QED
        BY <1>1, <3>1, <3>2
    <2>2. /\ counted' \in [Job -> Nat] /\ counted'[j] = counted[j] + 1
          /\ promise'[j] # "absent"
          /\ promise'[j] \in Queue!Settled => act[r].pc = "done" \/ counted[j] + 1 >= MaxAttempts
          /\ \A k \in Job \ {j} : counted'[k] = counted[k] /\ promise'[k] = promise[k]
      <3>1. PICK p \in {"pending", "completed", "deadLetter"} :
              /\ promise' = [promise EXCEPT ![j] = p]
              /\ p # "pending" => act[r].pc = "done" \/ counted[j] + 1 >= MaxAttempts
        <4>1. CASE act[r].pc = "done"
          BY <2>1, <4>1
        <4>2. CASE act[r].pc = "failed" /\ ~(counted[j] + 1 >= MaxAttempts)
          BY <2>1, <4>2
        <4>3. CASE act[r].pc = "failed" /\ counted[j] + 1 >= MaxAttempts
          BY <2>1, <4>3
        <4>4. QED
          BY <1>1, <4>1, <4>2, <4>3
      <3>2. promise'[j] = p /\ \A k \in Job \ {j} : promise'[k] = promise[k]
        BY <1>2, <3>1
      <3>3. /\ counted' \in [Job -> Nat] /\ counted'[j] = counted[j] + 1
            /\ \A k \in Job \ {j} : counted'[k] = counted[k]
        <4>1. counted[j] + 1 \in Nat
          BY <1>2
        <4>2. QED
          BY <1>2, <2>1, <4>1
      <3>4. p \in Queue!Settled => p # "pending"
        BY DEF Queue!Settled
      <3>5. QED
        BY <3>1, <3>2, <3>3, <3>4
    <2>3. CountsOK' /\ faults \in Nat /\ faults <= MaxFaults
      BY <1>2, <2>2, ResearchAssumption DEF SlotInv, CountsOK
    <2>4. SlotsKnown'
      <3>1. ASSUME NEW t \in Instant
            PROVE  /\ promise'[PollJob(t)] # "absent" => t <= now
                   /\ promise'[PollJob(t)] = "absent" => counted'[PollJob(t)] = 0
        BY <1>4, <2>2, SlotTypes DEF SlotInv, SlotsKnown
      <3>2. ASSUME NEW q \in Runner, act'[q].pc # "idle" PROVE promise'[act'[q].job] # "absent"
        <4>1. act'[q] = act[q] /\ act[q].pc # "idle"
          BY <1>1, <3>2
        <4>2. act[q].job \in Job /\ promise[act[q].job] # "absent"
          BY <4>1, RunsAJob DEF SlotInv, SlotsKnown
        <4>3. QED
          BY <2>2, <4>1, <4>2
      <3>3. QED
        BY <1>2, <3>1, <3>2 DEF SlotsKnown
    <2>5. MovedOn'
      BY <1>1, <1>2 DEF SlotInv, MovedOn
    <2>6. SlotOpen'
      <3> SUFFICES ASSUME fresh # None, fresh.due \in Instant
                   PROVE  /\ promise'[PollJob(fresh.due)] \notin Queue!Settled
                          /\ counted'[PollJob(fresh.due)] + Cardinality(NowFailing(fresh.due)) <= faults
        BY <1>2 DEF SlotOpen, Failing, NowFailing
      <3>1. PICK t \in Instant : t = fresh.due
        OBVIOUS
      <3>2. /\ promise[PollJob(t)] \notin Queue!Settled
            /\ counted[PollJob(t)] + Cardinality(Failing(t)) <= faults
            /\ counted[PollJob(t)] \in Nat /\ Cardinality(Failing(t)) \in Nat
            /\ PollJob(t) \in Job
        BY <1>2, <3>1, SlotTypes, FailingIsFinite DEF SlotInv, SlotOpen, FewerFaultsThanAttempts
      <3>3. CASE j # PollJob(t)
        <4>1. NowFailing(t) \subseteq Failing(t)
          BY <1>1 DEF NowFailing, Failing
        <4>2. Cardinality(NowFailing(t)) <= Cardinality(Failing(t)) /\ Cardinality(NowFailing(t)) \in Nat
          BY <4>1, FailingIsFinite DEF FewerFaultsThanAttempts
        <4>3. QED
          BY <2>2, <2>3, <3>1, <3>2, <3>3, <4>2
      <3>4. CASE j = PollJob(t)
        <4>1. act[r].pc = "failed"
          <5>1. j \in PollJobs /\ j[2] = fresh.due
            BY <3>1, <3>4, Jobs DEF PollJobs
          <5>2. QED
            BY <1>1, <5>1 DEF SlotInv, MovedOn
        <4>2. r \in Failing(t) /\ NowFailing(t) = Failing(t) \ {r}
          BY <1>1, <3>4, <4>1 DEF NowFailing, Failing
        <4>3. Cardinality(NowFailing(t)) = Cardinality(Failing(t)) - 1
          BY <4>2, FailingIsFinite DEF FewerFaultsThanAttempts
        <4>4. Cardinality(NowFailing(t)) \in Nat
          BY <4>2, FailingIsFinite DEF FewerFaultsThanAttempts
        <4>5. counted[j] + 1 <= faults /\ faults < MaxAttempts
          BY <2>3, <3>2, <3>4, <4>3, <4>4, ResearchAssumption DEF FewerFaultsThanAttempts
        <4>6. promise'[j] \notin Queue!Settled
          BY <1>2, <2>2, <2>3, <4>1, <4>5, ResearchAssumption
        <4>7. QED
          BY <2>2, <2>3, <3>1, <3>2, <3>4, <4>3, <4>6
      <3>5. QED
        BY <3>3, <3>4
    <2>7. QED
      BY <2>3, <2>4, <2>5, <2>6 DEF SlotInv
  <1>5. QED
    BY <1>3, <1>4 DEF Settle, At

\* What enqueue does to a job it is given.
LEMMA EnqueueCounts ==
  ASSUME TypeInv, NEW j \in Job, Enqueue(j)
  PROVE  /\ counted' = counted
         /\ \A k \in Job : promise'[k] = "absent" => promise[k] = "absent"
         /\ \A k \in Job : promise'[k] # promise[k] => k = j /\ promise'[k] = "pending"
  <1>1. counted' = counted
    BY DEF Enqueue, Queue!Accept, queue
  <1>2. QED
    BY <1>1, EnqueueType

LEMMA SlotStep ==
  ASSUME FewerFaultsThanAttempts, TypeInv, SlotInv, [Next]_vars, [LosesNothing]_vars, TypeInv'
  PROVE  SlotInv'
  <1>0. /\ fresh' = fresh => (fresh # None => fresh' # None /\ fresh'.due = fresh.due)
                             /\ (fresh = None => fresh' = None)
        /\ faults \in Nat /\ faults <= MaxFaults
        /\ \A t \in Instant : PollJob(t) \in Job
    BY ResearchAssumption, SlotTypes DEF SlotInv, CountsOK
  <1>1. ASSUME UNCHANGED <<now, counted, act, faults>>,
               fresh # None => fresh' # None /\ fresh'.due = fresh.due,
               fresh = None => fresh' = None,
               \A t \in Instant : promise'[PollJob(t)] = promise[PollJob(t)],
               \A j \in Job : promise'[j] = "absent" => promise[j] = "absent"
        PROVE  SlotInv'
    <2>1. faults' \in {faults, faults + 1} /\ faults' <= MaxFaults
      BY <1>0, <1>1
    <2>2. \A q \in Runner \ {None} : act'[q] = act[q]
      BY <1>1
    <2>3. None \in Runner =>
            /\ act'[None].pc # "idle" => act[None].pc # "idle" /\ act'[None].job = act[None].job
            /\ act'[None].pc \in {"finish", "done", "record"} /\ act'[None].job \in PollJobs =>
                 act[None].pc \in {"finish", "done", "record"} /\ act'[None].job = act[None].job
            /\ act'[None].pc = "failed" => act[None].pc = "failed" /\ act'[None].job = act[None].job
      BY <1>1
    <2>4. QED
      BY <1>1, <2>1, <2>2, <2>3, SlotStays
  <1>2. CASE UNCHANGED <<now, fresh, queue, act, faults>>
    BY <1>0, <1>1, <1>2 DEF queue
  <1>3. CASE Advance
    <2>1. now' = now + 1 /\ now \in Nat /\ UNCHANGED <<fresh, promise, counted, act, faults>>
      BY <1>3 DEF Advance, records, queue, TypeInv, TypeOK, Instant
    <2>2. SlotsKnown'
      BY <2>1 DEF SlotInv, SlotsKnown, Instant
    <2>3. MovedOn' /\ SlotOpen' /\ CountsOK'
      BY <2>1 DEF SlotInv, MovedOn, SlotOpen, Failing, CountsOK
    <2>4. QED
      BY <2>2, <2>3 DEF SlotInv
  <1>4. ASSUME NEW c \in Case, RequestReanalysis(c) PROVE SlotInv'
    <2>1. head \in Revision /\ Enqueue(CaseJob(c, head)) /\ UNCHANGED <<now, fresh, act, faults>>
      BY <1>4 DEF RequestReanalysis, TypeInv, TypeOK, records
    <2>2. CaseJob(c, head) \in Job /\ \A t \in Instant : CaseJob(c, head) # PollJob(t)
      BY <2>1, Jobs DEF Job
    <2>3. QED
      BY <1>0, <1>1, <2>1, <2>2, EnqueueCounts
  <1>5. CASE RefreshWrite
    <2>1. fresh # None /\ fresh.due = sched.snap.due
      <3>1. CASE LosesNothing
        BY <1>5, <3>1 DEF LosesNothing
      <3>2. CASE UNCHANGED vars
        BY <1>5, <3>2 DEF RefreshWrite, vars, Quiet
      <3>3. QED
        BY <3>1, <3>2
    <2>2. sched.snap \in Freshness /\ fresh' = sched.snap /\ None \notin Freshness
      BY <1>5, RecordAssumption DEF RefreshWrite, TypeInv, Shapes
    <2>3. UNCHANGED <<now, promise, counted, act, faults>>
      BY <1>5 DEF RefreshWrite, queue
    <2>4. QED
      BY <1>1, <2>1, <2>2, <2>3
  <1>6. CASE ScheduleDue
    <2>1. UNCHANGED <<now, fresh, act, faults>>
      BY <1>6 DEF ScheduleDue, records
    <2>2. CASE ~IsDue
      BY <1>2, <1>6, <2>1, <2>2 DEF ScheduleDue
    <2>3. CASE IsDue
      <3> DEFINE t == IF fresh = None THEN now ELSE fresh.due
      <3>1. t \in Instant /\ t <= now
        BY <2>3, ResearchAssumption DEF IsDue, TypeInv, TypeOK, Freshness, Instant
      <3>2. Enqueue(PollJob(t)) /\ PollJob(t) \in Job
        BY <1>6, <2>3, <3>1 DEF ScheduleDue, Job
      <3> HIDE DEF t
      <3>3. /\ counted' = counted
            /\ \A k \in Job : promise'[k] = "absent" => promise[k] = "absent"
            /\ \A k \in Job : promise'[k] # promise[k] => k = PollJob(t) /\ promise'[k] = "pending"
        BY <3>2, EnqueueCounts
      <3>4. ASSUME NEW u \in Instant, promise'[PollJob(u)] # "absent" PROVE u <= now
        <4>1. CASE promise'[PollJob(u)] = promise[PollJob(u)]
          BY <3>4, <4>1 DEF SlotInv, SlotsKnown
        <4>2. CASE promise'[PollJob(u)] # promise[PollJob(u)]
          <5>1. PollJob(u) = PollJob(t)
            BY <1>0, <3>3, <4>2
          <5>2. u = t
            BY <3>1, <5>1, Jobs
          <5>3. QED
            BY <3>1, <5>2
        <4>3. QED
          BY <4>1, <4>2
      <3>5. ASSUME NEW q \in Runner, act[q].pc # "idle" PROVE promise'[act[q].job] # "absent"
        <4>1. act[q].job \in Job /\ promise[act[q].job] # "absent"
          BY <3>5, RunsAJob DEF SlotInv, SlotsKnown
        <4>2. QED
          BY <3>3, <4>1
      <3>6. SlotsKnown'
        BY <1>0, <2>1, <3>3, <3>4, <3>5 DEF SlotInv, SlotsKnown
      <3>7. MovedOn' /\ CountsOK'
        BY <2>1, <3>3 DEF SlotInv, MovedOn, CountsOK
      <3>8. SlotOpen'
        BY <1>0, <2>1, <3>3 DEF SlotInv, SlotOpen, Failing, Queue!Settled
      <3>9. QED
        BY <3>6, <3>7, <3>8 DEF SlotInv
    <2>4. QED
      BY <2>2, <2>3
  <1>7. ASSUME NEW r \in Runner, UNCHANGED <<now, fresh, queue, faults>>,
               \A q \in Runner \ {r} : act'[q] = act[q],
               act'[r].pc # "idle" =>
                 \/ act[r].pc # "idle" /\ act'[r].job = act[r].job
                 \/ act'[r].job \in Job /\ promise[act'[r].job] # "absent",
               act'[r].pc \in {"finish", "done", "record"} /\ act'[r].job \in PollJobs =>
                 act[r].pc \in {"finish", "done", "record"} /\ act'[r].job = act[r].job,
               act'[r].pc = "failed" =>
                 act[r].pc = "record" /\ act'[r].job = act[r].job /\ act[r].job \in PollJobs
        PROVE  SlotInv'
    <2>1. faults' \in {faults, faults + 1} /\ faults' <= MaxFaults
      BY <1>0, <1>7
    <2>2. UNCHANGED <<now, fresh, promise, counted>>
      BY <1>7 DEF queue
    <2>3. \A t \in Instant : promise'[PollJob(t)] = promise[PollJob(t)]
      BY <2>2
    <2>4. QED
      BY <1>0, <1>7, <2>1, <2>2, <2>3, SlotStays
  <1>8. ASSUME NEW r \in Runner, NEW j \in Job, Take(r, j) PROVE SlotInv'
    <2>1. UNCHANGED <<now, fresh, queue, faults>> /\ promise[j] # "absent"
      BY <1>8, TakeStep DEF records
    <2>2. /\ \A q \in Runner \ {r} : act'[q] = act[q]
          /\ act'[r].job = j /\ act'[r].pc \notin {"finish", "done", "record", "failed"}
      BY <1>8, TakeStep
    <2>3. QED
      BY <1>7, <2>1, <2>2
  <1>9. ASSUME NEW r \in Runner,
               ReadRun(r) \/ ReadFreshness(r) \/ WriteRunning(r) \/ Fetch(r) \/ Compare(r) \/ Persist(r)
        PROVE  SlotInv'
    <2>1. UNCHANGED <<now, fresh, queue, faults>>
      BY <1>9 DEF ReadRun, ReadFreshness, WriteRunning, Fetch, Compare, Persist, records
    <2>2. /\ \A q \in Runner \ {r} : act'[q] = act[q]
          /\ act[r].pc # "idle" /\ act'[r].job = act[r].job
          /\ act'[r].pc \notin {"finish", "done", "record", "failed"}
      BY <1>9, ReadRunFacts, ReadFreshnessFacts, WriteRunningFacts, FetchFacts, CompareFacts, PersistFacts
      DEF GoesOn, SameTask
    <2>3. QED
      BY <1>7, <2>1, <2>2
  <1>10. ASSUME NEW r \in Runner, WriteReview(r) \/ CompleteRun(r) \/ FailRun(r) \/ WriteCandidate(r)
         PROVE  SlotInv'
    <2>1. UNCHANGED <<now, fresh, queue, faults>>
      BY <1>10 DEF WriteReview, CompleteRun, FailRun, WriteCandidate, records
    <2>2. /\ \A q \in Runner \ {r} : act'[q] = act[q]
          /\ act[r].pc # "idle" /\ act'[r].job = act[r].job
          /\ act'[r].pc \in {"finish", "done", "record"} => act[r].pc = "finish"
          /\ act'[r].pc = "failed" => act[r].pc = "record" /\ act[r].job \in PollJobs
      BY <1>10, WriteReviewFacts, CompleteRunFacts, FailRunFacts, WriteCandidateFacts DEF GoesOn, SameTask
    <2>3. QED
      BY <1>7, <2>1, <2>2
  <1>11. ASSUME NEW r \in Runner, ReadReview(r) \/ WriteLinks(r) PROVE SlotInv'
    <2>1. UNCHANGED <<now, fresh, queue, faults>>
      BY <1>11 DEF ReadReview, WriteLinks, records
    <2>2. /\ \A q \in Runner \ {r} : act'[q] = act[q]
          /\ act[r].pc \in CasePc /\ act'[r].job = act[r].job
          /\ act'[r].pc # "failed"
      BY <1>11, ReadReviewFacts, WriteLinksFacts DEF GoesOn, SameTask, CasePc
    <2>3. act[r].pc # "idle" /\ act'[r].job \notin PollJobs
      BY <2>2, AtCase, JobKinds DEF CasePc
    <2>4. QED
      BY <1>7, <2>1, <2>2, <2>3
  <1>12. ASSUME NEW r \in Runner, NEW c \in Case, EnqueueCase(r, c) PROVE SlotInv'
    <2>1. /\ act[r].pc = "enqueue" /\ GoesOn(r, "enqueue") /\ act[r].got \in Revision
          /\ Enqueue(CaseJob(c, act[r].got)) /\ UNCHANGED <<now, fresh, faults>>
      BY <1>12, EnqueueCaseFacts DEF EnqueueCase, records
    <2>2. CaseJob(c, act[r].got) \in Job /\ \A t \in Instant : CaseJob(c, act[r].got) # PollJob(t)
      BY <2>1, Jobs DEF Job
    <2>3. /\ counted' = counted
          /\ \A j \in Job : promise'[j] = "absent" => promise[j] = "absent"
          /\ \A t \in Instant : promise'[PollJob(t)] = promise[PollJob(t)]
      BY <1>0, <2>1, <2>2, EnqueueCounts
    <2>4. faults' \in {faults, faults + 1} /\ faults' <= MaxFaults
      BY <1>0, <2>1
    <2>5. QED
      BY <1>0, <2>1, <2>3, <2>4, SlotStays DEF GoesOn, SameTask
  <1>13. ASSUME NEW r \in Runner, WriteFreshness(r) \/ CatchPoll(r) PROVE SlotInv'
    <2>1. UNCHANGED <<now, queue, faults>>
      BY <1>13 DEF WriteFreshness, CatchPoll
    <2>2. /\ fresh' \in Freshness /\ fresh'.due = now + PollInterval
          /\ GoesOn(r, act'[r].pc) /\ act[r].pc # "idle"
      BY <1>13, WriteFreshnessFacts, CatchPollFacts DEF GoesOn
    <2>3. fresh' # None
      BY <2>2, RecordAssumption
    <2>4. QED
      BY <2>1, <2>2, <2>3, SlotMoves
  <1>14. ASSUME NEW r \in Runner, FaultStep(r) PROVE SlotInv'
    <2>1. /\ UNCHANGED <<now, fresh, promise, counted>>
          /\ \A q \in Runner \ {r} : act'[q] = act[q]
          /\ act'[r].pc \in {"catch", "failed", "idle", "start", "candidate"}
      BY <1>14, FaultFacts DEF records, queue, GoesOn
    <2>2. faults' = faults + 1 /\ faults' <= MaxFaults
      BY <1>0, <1>14, FaultFacts, ResearchAssumption
    <2>3. act'[r].pc # "idle" =>
            \/ act[r].pc # "idle" /\ act'[r].job = act[r].job
            \/ act'[r].job \in Job /\ promise[act'[r].job] # "absent"
      BY <1>14, FaultFacts DEF GoesOn, SameTask, Begun, BegunPc, PollPc, CasePc
    <2>4. QED
      BY <1>0, <1>14, <2>1, <2>2, <2>3, FaultFacts, SlotStays
  <1>15. ASSUME NEW r \in Runner, Settle(r) PROVE SlotInv'
    BY <1>15, SettleKeepsSlot
  <1>16. CASE (\E rev \in Revision : Publish(rev)) \/ RefreshRead \/ SyncDeadLetters
    BY <1>2, <1>16 DEF Publish, RefreshRead, SyncDeadLetters, records
  <1>17. QED
    BY <1>2, <1>3, <1>4, <1>5, <1>6, <1>8, <1>9, <1>10, <1>11, <1>12, <1>13, <1>14, <1>15, <1>16
    DEF Next, HandlerStep, SchedulerStep, vars, records

\* For any number of runners, contents that come and go, answers, stores and
\* processes that fail at any point and leases that expire, but fewer of those than
\* a job has attempts: the job under whose key the next poll will be enqueued is
\* never settled, so the source is polled again.  The one exception is a refresh
\* that reads the record before a poll and writes it back after: refreshStaleStates
\* restores the due time of a job that is settled.
THEOREM DueSlotsStayOpen ==
  ASSUME FewerFaultsThanAttempts
  PROVE  Spec /\ [][LosesNothing]_vars => []DueSlotIsOpen
  <1>1. Init => SlotInv
    <2> SUFFICES ASSUME Init PROVE SlotInv
      OBVIOUS
    <2>1. CountsOK
      BY ResearchAssumption DEF Init, CountsOK
    <2>2. SlotsKnown
      BY DEF Init, SlotsKnown, Idle, Job
    <2>3. MovedOn /\ SlotOpen
      BY DEF Init, MovedOn, SlotOpen, Idle
    <2>4. QED
      BY <2>1, <2>2, <2>3 DEF SlotInv
  <1>2. TypeInv /\ TypeInv' /\ SlotInv /\ [Next]_vars /\ [LosesNothing]_vars => SlotInv'
    BY SlotStep
  <1>3. SlotInv => DueSlotIsOpen
    BY DEF SlotInv, SlotOpen, DueSlotIsOpen
  <1>4. QED
    BY <1>1, <1>2, <1>3, TypeInvHolds, PTL DEF Spec

===============================================================================
