------------------------------- MODULE JobQueue -------------------------------
(***************************************************************************)
(* PersistentJobQueue (packages/jobs/src/index.ts) over the lease          *)
(* operations of JobRepository (packages/persistence).                     *)
(*                                                                         *)
(* A process is a Worker: one queue object, one workerId, which is a fresh *)
(* uuid, so a restarted process is another Worker.  A Loop is one activity *)
(* that calls processAvailable on it: the loop start() arms, or a POST     *)
(* /api/v1/jobs/process request on the same queue object.  A Client is a   *)
(* caller of enqueue.  Every await is a place where other actors may run.  *)
(*                                                                         *)
(* Timestamps are kept as the ticks that are left until they are reached:  *)
(* available_at <= now is wait = 0, lease_expires_at <= now is lease = 0.  *)
(***************************************************************************)
EXTENDS Integers, FiniteSets

CONSTANTS
  Job,          \* job ids: an id is derived from type and idempotency key
  Client,       \* callers of enqueue
  Worker,       \* queue objects, one per process incarnation
  Loop,         \* activities that call processAvailable
  PollLoop,     \* those armed by start(); the others are HTTP drain requests
  OwnerOf,      \* the queue object each activity calls
  Keys,         \* the job ids each client may enqueue
  Mortal,       \* processes that may be stopped or crash
  NoOwner, NoJob,
  MaxAttempts,  \* options.maxAttempts, 3 in production
  RetryBase,    \* options.retryBaseMs
  LeaseTicks,   \* options.leaseMs
  MaxJobs,      \* the argument of processAvailable, 8 in production
  StepTicks,    \* bound: the longest a handler and its resolveLease may take
  MaxErrors     \* bound: rejected repository calls

ASSUME StructureAssumption ==
  /\ OwnerOf \in [Loop -> Worker]
  /\ Keys \in [Client -> SUBSET Job]
  /\ PollLoop \subseteq Loop
  /\ Mortal \subseteq Worker
  /\ NoOwner \notin Worker
  /\ NoJob \notin Job

ASSUME NumbersAssumption ==
  /\ MaxAttempts \in Nat \ {0}
  /\ LeaseTicks \in Nat \ {0}
  /\ StepTicks \in Nat \ {0}
  /\ MaxJobs \in Nat \ {0}
  /\ MaxErrors \in Nat

\* retryBaseMs * 2 ** (attempt - 1)
Backoff(attempt) == RetryBase * 2^(attempt - 1)

ASSUME BackoffAssumption == \A attempt \in 1..MaxAttempts : Backoff(attempt) \in Nat

VARIABLES
  jobs,       \* system_jobs: the row of each job id
  asked,      \* per client: the id its enqueue found absent and will put
  lifecycle,  \* per process: new, up (start() called), stopped, down
  batch,      \* per loop: claimed jobs it has not settled
  snap,       \* per loop: attempt_count of each claimed row, as claimed
  lease,      \* per loop: ticks left of the lease its batch was claimed under
  cur,        \* per loop: the job whose handler runs, or NoJob
  outcome,    \* per loop: what the handler of cur did
  age,        \* per loop: ticks since run() read its clock for cur
  errors      \* repository calls that rejected so far

vars == <<jobs, asked, lifecycle, batch, snap, lease, cur, outcome, age, errors>>
loopVars == <<batch, snap, lease, cur, outcome, age>>

-------------------------------------------------------------------------------
(* Rows *)

JobStatus == {"ABSENT", "QUEUED", "RUNNING", "COMPLETED", "DEAD_LETTER"}
Terminal  == {"COMPLETED", "DEAD_LETTER"}

Row == [status: JobStatus, attempts: 0..MaxAttempts, wait: Nat,
        lease: 0..LeaseTicks, owner: Worker \cup {NoOwner}]

\* A row without a lease.
Unleased(status, attempts, wait) ==
  [status |-> status, attempts |-> attempts, wait |-> wait,
   lease |-> 0, owner |-> NoOwner]

Absent == Unleased("ABSENT", 0, 0)
Fresh  == Unleased("QUEUED", 0, 0)

Leased(row, worker) ==
  [status |-> "RUNNING", attempts |-> row.attempts, wait |-> row.wait,
   lease |-> LeaseTicks, owner |-> worker]

\* a - b, but not below zero: a deadline that has passed has no ticks left.
Left(a, b) == IF a > b THEN a - b ELSE 0

Aged(row) ==
  [status |-> row.status, attempts |-> row.attempts, wait |-> Left(row.wait, 1),
   lease |-> Left(row.lease, 1), owner |-> row.owner]

\* A plausible bug in each of the definitions that follow.
ReadyWhileLeased(j) ==
  \/ jobs[j].status = "QUEUED" /\ jobs[j].wait = 0
  \/ jobs[j].status = "RUNNING"

ReadyOnlyQueued(j) == jobs[j].status = "QUEUED" /\ jobs[j].wait = 0

\* What claimAvailable selects: queued rows that are due, expired leases.
Ready(j) ==
  \/ jobs[j].status = "QUEUED" /\ jobs[j].wait = 0
  \/ jobs[j].status = "RUNNING" /\ jobs[j].lease = 0

\* claimAvailable takes as many ready rows as it may.  Any of them: the file
\* order, the created_at order with its ties and rows other claims have locked.
Selections ==
  LET ready == {j \in Job : Ready(j)} IN
  {S \in SUBSET ready : S # {} /\ (S = ready \/ Cardinality(S) = MaxJobs)
                               /\ Cardinality(S) <= MaxJobs}

OwnsAnyRunning(l, j) == jobs[j].status = "RUNNING"
OwnsIfUnleased(l, j) == jobs[j].status \in {"RUNNING", "COMPLETED"}

\* The condition of resolveLease: it names the owner, not the claim.
Owns(l, j) == jobs[j].status = "RUNNING" /\ jobs[j].owner = OwnerOf[l]

ResultLateDeadLetter(result, attempt, elapsed) ==
  IF result = "ok" THEN Unleased("COMPLETED", attempt, 0)
  ELSE IF attempt > MaxAttempts THEN Unleased("DEAD_LETTER", attempt, 0)
  ELSE Unleased("QUEUED", attempt, Left(Backoff(attempt), elapsed))

ResultFromNow(result, attempt, elapsed) ==
  IF result = "ok" THEN Unleased("COMPLETED", attempt, 0)
  ELSE IF attempt >= MaxAttempts THEN Unleased("DEAD_LETTER", attempt, 0)
  ELSE Unleased("QUEUED", attempt, Backoff(attempt) - 2 * elapsed)

\* The row run() builds.  available_at counts from the clock it read before
\* the handler ran.
Result(result, attempt, elapsed) ==
  IF result = "ok" THEN Unleased("COMPLETED", attempt, 0)
  ELSE IF attempt >= MaxAttempts THEN Unleased("DEAD_LETTER", attempt, 0)
  ELSE Unleased("QUEUED", attempt, Left(Backoff(attempt), elapsed))

-------------------------------------------------------------------------------
Init ==
  /\ jobs = [j \in Job |-> Absent]
  /\ asked = [c \in Client |-> NoJob]
  /\ lifecycle = [w \in Worker |-> "new"]
  /\ batch = [l \in Loop |-> {}]
  /\ snap = [l \in Loop |-> [j \in Job |-> 0]]
  /\ lease = [l \in Loop |-> 0]
  /\ cur = [l \in Loop |-> NoJob]
  /\ outcome = [l \in Loop |-> "none"]
  /\ age = [l \in Loop |-> 0]
  /\ errors = 0

(* Enqueue: get, then put if it was absent *)

EnqueueGet(c, j) ==
  /\ asked[c] = NoJob
  /\ j \in Keys[c]
  /\ asked' = [asked EXCEPT ![c] = IF jobs[j].status = "ABSENT" THEN j ELSE NoJob]
  /\ UNCHANGED <<jobs, lifecycle, loopVars, errors>>

\* put is an upsert: it does not look at the row again.
EnqueuePut(c) ==
  /\ asked[c] # NoJob
  /\ jobs' = [jobs EXCEPT ![asked[c]] = Fresh]
  /\ asked' = [asked EXCEPT ![c] = NoJob]
  /\ UNCHANGED <<lifecycle, loopVars, errors>>

\* The caller's process dies, or put rejects, between the two.
EnqueueAbort(c) ==
  /\ asked[c] # NoJob
  /\ asked' = [asked EXCEPT ![c] = NoJob]
  /\ UNCHANGED <<jobs, lifecycle, loopVars, errors>>

(* Process lifecycle *)

Start(w) ==
  /\ lifecycle[w] = "new"
  /\ lifecycle' = [lifecycle EXCEPT ![w] = "up"]
  /\ UNCHANGED <<jobs, asked, loopVars, errors>>

\* stop() forbids further polling; a batch in flight goes on.
Stop(w) ==
  /\ w \in Mortal
  /\ lifecycle[w] = "up"
  /\ lifecycle' = [lifecycle EXCEPT ![w] = "stopped"]
  /\ UNCHANGED <<jobs, asked, loopVars, errors>>

\* The process is gone, with the batches it held in memory.
Crash(w) ==
  LET Gone(l) == OwnerOf[l] = w IN
  /\ w \in Mortal
  /\ lifecycle[w] \in {"up", "stopped"}
  /\ lifecycle' = [lifecycle EXCEPT ![w] = "down"]
  /\ batch' = [l \in Loop |-> IF Gone(l) THEN {} ELSE batch[l]]
  /\ snap' = [l \in Loop |-> IF Gone(l) THEN [j \in Job |-> 0] ELSE snap[l]]
  /\ lease' = [l \in Loop |-> IF Gone(l) THEN 0 ELSE lease[l]]
  /\ cur' = [l \in Loop |-> IF Gone(l) THEN NoJob ELSE cur[l]]
  /\ outcome' = [l \in Loop |-> IF Gone(l) THEN "none" ELSE outcome[l]]
  /\ age' = [l \in Loop |-> IF Gone(l) THEN 0 ELSE age[l]]
  /\ UNCHANGED <<jobs, asked, errors>>

(* processAvailable *)

MayClaim(l) ==
  IF l \in PollLoop THEN lifecycle[OwnerOf[l]] = "up"
                    ELSE lifecycle[OwnerOf[l]] \in {"up", "stopped"}

Claim(l) ==
  /\ MayClaim(l)
  /\ batch[l] = {}
  /\ \E S \in Selections :
       /\ jobs' = [j \in Job |-> IF j \in S THEN Leased(jobs[j], OwnerOf[l]) ELSE jobs[j]]
       /\ batch' = [batch EXCEPT ![l] = S]
       /\ snap' = [snap EXCEPT ![l] = [j \in Job |-> IF j \in S THEN jobs[j].attempts ELSE 0]]
       /\ lease' = [lease EXCEPT ![l] = LeaseTicks]
  /\ UNCHANGED <<asked, lifecycle, cur, outcome, age, errors>>

\* The jobs of a batch run one after the other.
Begin(l, j) ==
  /\ cur[l] = NoJob
  /\ j \in batch[l]
  /\ cur' = [cur EXCEPT ![l] = j]
  /\ age' = [age EXCEPT ![l] = 0]
  /\ UNCHANGED <<jobs, asked, lifecycle, batch, snap, lease, outcome, errors>>

\* The handler returns or throws; a type without a handler throws NO_HANDLER.
Finish(l, result) ==
  /\ cur[l] # NoJob
  /\ outcome[l] = "none"
  /\ outcome' = [outcome EXCEPT ![l] = result]
  /\ UNCHANGED <<jobs, asked, lifecycle, batch, snap, lease, cur, age, errors>>

\* resolveLease; a result whose owner lost the row is dropped.
Settle(l) ==
  LET j == cur[l] IN
  /\ outcome[l] # "none"
  /\ jobs' = IF Owns(l, j)
             THEN [jobs EXCEPT ![j] = Result(outcome[l], snap[l][j] + 1, age[l])]
             ELSE jobs
  /\ batch' = [batch EXCEPT ![l] = @ \ {j}]
  /\ snap' = [snap EXCEPT ![l][j] = 0]
  /\ lease' = [lease EXCEPT ![l] = IF batch[l] = {j} THEN 0 ELSE @]
  /\ cur' = [cur EXCEPT ![l] = NoJob]
  /\ outcome' = [outcome EXCEPT ![l] = "none"]
  /\ age' = [age EXCEPT ![l] = 0]
  /\ UNCHANGED <<asked, lifecycle, errors>>

\* claimAvailable or resolveLease rejects: processAvailable rejects with it and
\* the rest of the batch is forgotten, its rows still leased.  With cur = NoJob
\* the call had taken effect in the store before its answer was lost.
LoopError(l) ==
  /\ errors < MaxErrors
  /\ batch[l] # {}
  /\ cur[l] = NoJob \/ outcome[l] # "none"
  /\ errors' = errors + 1
  /\ batch' = [batch EXCEPT ![l] = {}]
  /\ snap' = [snap EXCEPT ![l] = [j \in Job |-> 0]]
  /\ lease' = [lease EXCEPT ![l] = 0]
  /\ cur' = [cur EXCEPT ![l] = NoJob]
  /\ outcome' = [outcome EXCEPT ![l] = "none"]
  /\ age' = [age EXCEPT ![l] = 0]
  /\ UNCHANGED <<jobs, asked, lifecycle>>

\* Time passes, but not between a claim and the first handler call, nor beyond
\* StepTicks in one step of a loop.
Tick ==
  /\ \A l \in Loop : batch[l] # {} => cur[l] # NoJob /\ age[l] < StepTicks
  /\ jobs' = [j \in Job |-> Aged(jobs[j])]
  /\ lease' = [l \in Loop |-> Left(lease[l], 1)]
  /\ age' = [l \in Loop |-> IF cur[l] = NoJob THEN age[l] ELSE age[l] + 1]
  /\ UNCHANGED <<asked, lifecycle, batch, snap, cur, outcome, errors>>

ClientStep(c) == (\E j \in Job : EnqueueGet(c, j)) \/ EnqueuePut(c) \/ EnqueueAbort(c)

ProcessStep(w) == Start(w) \/ Stop(w) \/ Crash(w)

LoopStep(l) ==
  \/ Claim(l)
  \/ \E j \in Job : Begin(l, j)
  \/ \E result \in {"ok", "failed"} : Finish(l, result)
  \/ Settle(l)
  \/ LoopError(l)

Next ==
  \/ \E c \in Client : ClientStep(c)
  \/ \E w \in Worker : ProcessStep(w)
  \/ \E l \in Loop : LoopStep(l)
  \/ Tick

Spec == Init /\ [][Next]_vars

\* Timers fire, promises settle and time passes.  A process that cannot die is
\* started; nobody has to call enqueue, stop() or the drain endpoint.
Fairness ==
  /\ WF_vars(Tick)
  /\ \A w \in Worker \ Mortal : WF_vars(Start(w))
  /\ \A l \in PollLoop : WF_vars(Claim(l))
  /\ \A l \in Loop :
       /\ WF_vars(\E j \in Job : Begin(l, j))
       /\ WF_vars(\E result \in {"ok", "failed"} : Finish(l, result))
       /\ WF_vars(Settle(l))

FairSpec == Spec /\ Fairness

-------------------------------------------------------------------------------
(* Properties *)

\* Every variable has its type: rows keep attempts within max_attempts and a
\* wait and a lease that are not negative.
TypeOK ==
  /\ jobs \in [Job -> Row]
  /\ asked \in [Client -> Job \cup {NoJob}]
  /\ lifecycle \in [Worker -> {"new", "up", "stopped", "down"}]
  /\ batch \in [Loop -> SUBSET Job]
  /\ snap \in [Loop -> [Job -> 0..MaxAttempts]]
  /\ lease \in [Loop -> 0..LeaseTicks]
  /\ cur \in [Loop -> Job \cup {NoJob}]
  /\ outcome \in [Loop -> {"none", "ok", "failed"}]
  /\ age \in [Loop -> Nat]
  /\ errors \in 0..MaxErrors

\* No two producers use one idempotency key.
DistinctProducers == \A c, d \in Client : c # d => Keys[c] \cap Keys[d] = {}

\* No two activities share a workerId: no drain request beside the poll loop.
SoleActivity == \A l, m \in Loop : OwnerOf[l] = OwnerOf[m] => l = m

\* A job that can still run has attempts left, a completed one had an attempt,
\* and the dead letter holds only jobs whose every attempt was counted: run()
\* decides it from the claimed snapshot, not from the row.
AttemptsBounded ==
  \A j \in Job :
    /\ jobs[j].status \in {"QUEUED", "RUNNING"} => jobs[j].attempts < MaxAttempts
    /\ jobs[j].status = "COMPLETED" => jobs[j].attempts > 0
    /\ jobs[j].status = "DEAD_LETTER" => jobs[j].attempts = MaxAttempts

\* Until the lease it was claimed under expires, a claimed job is still running
\* under the claimant's name: nobody else can start it, settle it or requeue it.
LiveLeaseIsHeld ==
  \A l \in Loop : \A j \in batch[l] :
    lease[l] > 0 => Owns(l, j) /\ jobs[j].lease = lease[l]

\* A result that resolveLease would accept was computed from the attempt count
\* the row still has, however many times the row changed hands meanwhile: no
\* counted attempt is lost by a late writer.
SettlesFromCurrentRow ==
  \A l \in Loop : \A j \in batch[l] : Owns(l, j) => snap[l][j] = jobs[j].attempts

\* A completed or dead-lettered job stays as it is: no late result, no expired
\* lease and no repeated enqueue of its key reopens it.
TerminalIsFinal ==
  [][\A j \in Job : jobs[j].status \in Terminal => jobs'[j] = jobs[j]]_vars

\* Whatever shares an owner name or a key, a settled job is reopened by nothing
\* but a put whose enqueue read the row before another producer had put it.
OnlyRacingPutReopens ==
  [][\A j \in Job : jobs[j].status \in Terminal /\ jobs'[j] # jobs[j]
        => jobs'[j] = Fresh /\ \E c \in Client : asked[c] = j /\ asked'[c] = NoJob]_vars

Pending(j) == jobs[j].status \in {"QUEUED", "RUNNING"}

\* Every accepted job is eventually completed or dead-lettered, through crashes
\* of the process that runs it, rejected repository calls and failed attempts.
EveryJobSettles == \A j \in Job : Pending(j) ~> jobs[j].status \in Terminal

(* The queue implements the promise made to callers of enqueue *)

promiseOf ==
  [j \in Job |->
     CASE jobs[j].status = "ABSENT"      -> "absent"
       [] jobs[j].status = "COMPLETED"   -> "completed"
       [] jobs[j].status = "DEAD_LETTER" -> "deadLetter"
       [] OTHER                          -> "pending"]

Promise == INSTANCE JobPromise WITH
  promise <- promiseOf,
  counted <- [j \in Job |-> jobs[j].attempts]

\* Hiding leases, owners, batches and time, each step of the queue accepts a job,
\* counts one attempt of one job, ends one job, or does nothing a caller can see.
KeepsPromise == Promise!Spec

===============================================================================
