# A verification development of rocksoul-aws

rocksoul-aws is a TypeScript monorepo: packages with the domain logic, and
`apps/api`, the HTTP host that wires them together. A single Node process runs
request handlers, a persistent job queue and a research scheduler over one store,
which is in memory, in a file or in PostgreSQL. With PostgreSQL several processes
may share it. This directory models the parts whose correctness depends on
interleavings, failures, retries and clocks, checks them with TLC and proves what
holds for every size with TLAPS.

## Inventory

| Component | State | Operations | What is hard | What makes it correct |
|---|---|---|---|---|
| Job queue (`packages/jobs`, the lease operations of `packages/persistence`) | rows with status, attempts, due time, lease and owner; per process a timer and the batch it holds in memory | `enqueue`, `start`, `stop`, `processAvailable`, `claimAvailable`, `resolveLease`, `run` | two awaits in `enqueue`, leases that expire under a running handler, drain requests beside the poll loop, crashes, rejected store calls | attempts are bounded, a live lease is exclusive, a settled job stays settled, every accepted job settles |
| Continuous research (`packages/orchestrator/src/aws`) | per source: head revision, event ledger, freshness, runs, reviews, candidates | scheduler tick, `pollMonitor` with `AwsSourceWorker.process`, `reanalyzeCase`, `requestReanalysis` | handlers of many awaits that are retried from the start, records read and written back whole, idempotency keys derived from a clock | each change is reviewed, each candidate linked, a due source polled, a declared state true |
| Persistence providers | entities, relations, events, evidence, projections, audits, jobs; hash chains; the flush queue of the file provider | puts with an expected version, appends, `batch` | a batch that fails rolls back the state of everybody, writes that wait for the end of a batch, chains ordered by a caller's timestamp | an acknowledged write that met no other batch is durable, batches are whole, the chains verify |
| Flow review (`workflow.routes.ts` of `apps/api`, over the entity store, the idempotency store and the witness DAG) | flow, review, events and answer in PostgreSQL; the DAG in memory and in a file per host; a projection of it | `request-review` | two transactions with a witness commit between them, requests of several users and hosts, retries, crashes, saves out of order | the intent is recorded once and before its witness, it is settled, all answers agree |
| Idempotency store | records by key, work in flight | `execute`, lazy load, flush | two requests with one key, the lazy read, flushes that share a temporary file, a crash | the work of a key is done once, its record outlives a crash |
| Sessions (`packages/security`) | users and sessions in PostgreSQL, RID_BINDING records, per host a copy of the users it has read | login, refresh, authenticate, logout, revoke, assign RID | one token shown twice at once, hosts that know an old user, a binding that breaks off between two writes | an ended session serves nobody, a RID is bound once, sessions from before it end |
| Witness DAG and local store | nodes, heads, a file | append, import, save, hydrate, checkpoint | commits that race, saves out of order, a crash | the file is a downward closed part of the DAG, and contains what was acknowledged |
| Distributed witness | bundles, signatures | export, verify, import, reconcile, quorum | bundles in any order, missing history | reconciliation does not depend on the order |
| Witness keys, backups and diagnostics | keyring, key file, backups | rotate, sign, back up, restore | a restore gives node ids again that others have | what is restored verifies |
| Review workflow (`review-workflow.ts`, `review.routes.ts`) | review rows with versions, audit and event ledger, row and advisory locks | request, create, transition | two reviewers, an event that fails after the save, events dated late | only allowed transitions, each from the row it replaces; the ledgers verify; no deadlock |
| Other workflows (evidence, ingress, analysis) | entities, witness nodes | run | check, then save | no half-applied workflow is acknowledged |
| Legal engines | none | pure functions | tables of cases | equal to a reference definition |
| Workflow engine | none | execute, compose | none | its failure is reported |
| HTTP host | rate-limit buckets, wiring | requests, start, close | a full table of buckets, shutdown | limits hold |
| Adapters, analytical engines, revelation, contracts, legacy tree | none, or static data | pure functions, I/O | | |

How they interact. The host creates one store, one queue over it and one
scheduler. Routes and the scheduler call `enqueue`; the queue calls the handlers
registered by `register-job-handlers.ts` and by
`AwsContinuousResearchService.registerHandlers`; handlers call the store and again
the queue. All of that shares one event loop, so an actor's step lasts from one
await to the next. Processes meet only in the store.

The hazards this code is exposed to are listed, with their lines, in
`PROJECT.json`. The properties below are aimed at them.

## Plan

In this order:

1. `JobPromise`, `JobQueue`, `JobQueueProofs`: the queue, its abstract
   specification, the proofs. *Done.*
2. `ContinuousResearch`, `ContinuousResearchProofs`: the research of one source,
   over `JobPromise`. *Done; liveness is model-checked only.*
3. `ReviewPromise`, `FlowReview`, `FlowReviewProofs`: the request that spans two
   transactions and a witness commit, under an idempotency record. *Done.*
4. `HostStore`, `HostStoreProofs`: the memory and file providers under requests
   that overlap. *Done.*
5. `ReviewDesk`, `ReviewDeskProofs`: reviews and observations over PostgreSQL's
   ledgers and locks. *Done.*
6. `Sessions`, `SessionsProofs`. *Done.*
7. `WitnessExchange`, `WitnessExchangeProofs`: DAGs with edges, bundles, backups,
   reconciliation. *Done.*
8. `KeyedRequests`, `KeyedRequestsProofs`: the file store of idempotency keys.
   *Done.*

What could follow: an atomic store as the abstract
specification of `HostStore` for requests that do not overlap, and the creation
and listing of flows in `FlowReview`.

## Modules

| Module | Models |
|---|---|
| `JobPromise` | what `enqueue` promises: an accepted job stays pending while failures are counted, and ends once |
| `JobQueue` | `PersistentJobQueue` over the lease operations |
| `MCJobQueue` | constants for TLC |
| `JobQueueProofs` | theorems about `JobQueue` |
| `ContinuousResearch` | the scheduler and handlers of one monitored source, over `JobPromise` |
| `MCContinuousResearch` | constants for TLC |
| `ContinuousResearchProofs` | theorems about `ContinuousResearch` |
| `ReviewPromise` | what the owner of a flow is promised: one intent with one review, one witness hash, answers that tell of those |
| `FlowReview` | requests for the review of flows, on several hosts over one PostgreSQL database |
| `MCFlowReview` | constants for TLC |
| `FlowReviewProofs` | theorems about `FlowReview` |
| `HostStore`, `MCHostStore`, `HostStoreProofs` | one host over the memory or the file provider; constants; theorems |
| `ReviewDesk`, `MCReviewDesk`, `ReviewDeskProofs` | reviews and observations over PostgreSQL; constants; theorems |
| `Sessions`, `MCSessions`, `SessionsProofs` | `PostgresAuthService` on several hosts; constants; theorems |
| `WitnessExchange`, `MCWitnessExchange`, `WitnessExchangeProofs` | witnesses that exchange, restore and reconcile their DAGs; constants; theorems |
| `KeyedRequests`, `MCKeyedRequests`, `KeyedRequestsProofs` | the file store of idempotency keys; constants; theorems |

### JobQueue

A `Worker` is one queue object, which is one process incarnation: its workerId is
a fresh uuid, so a restart is another Worker. A `Loop` is one activity that calls
`processAvailable` on it, the one `start()` arms or a `POST /api/v1/jobs/process`
request. A `Client` calls `enqueue`.

| Action | Code |
|---|---|
| `EnqueueGet`, `EnqueuePut`, `EnqueueAbort` | the two awaits of `enqueue` |
| `Start`, `Stop`, `Crash` | `start()`, `stop()`, the end of a process |
| `Claim` | `claimAvailable` with the guard of the loop |
| `Begin`, `Finish`, `Settle` | one iteration of the batch: `run()` reads its clock, the handler ends, `resolveLease` |
| `LoopError` | a store call that rejects |
| `Tick` | time |

Abstractions. Timestamps are kept as ticks left until they pass, so the state
space is finite. Selection takes any ready rows up to the limit, which covers the
file order, the `created_at` order and `SKIP LOCKED`. Payloads and results are
left out; a handler returns or throws. A store call is atomic: the memory and file
providers run it without an await before the write and PostgreSQL in one
statement. Clock skew between processes is not modelled. The fallback to a
repository's own `processAvailable` is not reachable with the three providers,
each of which has lease operations.

### ContinuousResearch

One source, its dependent cases, and runners that execute its jobs. The queue is
there only as `JobPromise`: any pending job may be taken at any time, again even
while another runner runs it, and its end is counted once. That is what `JobQueue`
is shown to implement, so nothing is assumed of the queue that is not checked
there. The one part of the queue that is not in the promise, two racing producers
of one key, is a run of `JobQueue`.

| Action | Code |
|---|---|
| `RefreshRead`, `RefreshWrite` | `refreshStaleStates`, with the await between read and write |
| `SyncDeadLetters`, `ScheduleDue` | the rest of a tick |
| `ReadRun`, `ReadFreshness`, `WriteRunning` | `pollMonitor` up to its `try`: the run of an earlier attempt, the freshness, the RUNNING record |
| `Fetch`, `Compare`, `Persist`, `EnqueueCase`, `WriteReview`, `WriteFreshness`, `CompleteRun` | its `try` block, with `AwsSourceWorker.process` and `persistSourceRevision` |
| `CatchPoll`, `FailRun` | its `catch` block, for any error: the freshness, then the run |
| `WriteCandidate`, `ReadReview`, `WriteLinks` | `reanalyzeCase` |
| `RequestReanalysis` | the operator |
| `Take`, `Settle` | the queue runs a handler and learns how it ended |
| `FetchFails`, `StoreFails`, `Lose` | a source that does not answer, a store call that rejects at any step, a handler lost with its process |
| `Retake` | a job whose lease expires while a handler is at it is taken by another runner too |
| `Publish`, `Advance` | the official source, the clock |

Abstractions. A revision is its content: revision, review and candidate ids are
hashes of it. Some awaits are joined into one step where no other actor's step
between them changes what the properties see: the head that is read for the diff
and the freshness; diff, review and the review's event. A version conflict of
`upsertRecord`, whose read and put are one await apart, is a store call that
rejects; that `upsertRecord` takes the version from a read of its own, and so
replaces whatever it finds, is why each write here takes no notice of writes
before it. The queue may drop the result of a handler whose lease has expired
(`late`). Contents of diffs, candidates and research events are left out.
`UniqueEvents` is whether the event log refuses a known id: the memory and
PostgreSQL providers do. The file provider does not; there the return to an
earlier content begins the review of its first appearance anew, and finds the
re-analysis jobs of that time, which no run covers.

Six variables observe what the code does not keep, and say when a guarantee ends.
The properties except these cases and no others:

| Variable | Observes | Excepted from |
|---|---|---|
| `cutOff` | a revision whose poll broke off, by a crash or a rejection, between `Persist` and `WriteReview` | `CompletedRunsReviewed` |
| `raced` | a revision whose review two handlers had in hand at once | `CandidatesLinked` |
| `doubled` | a slot of which two attempts had both found no run before either recorded one | `StartedAtKept` |
| `overtaken` | a copy of the freshness that is written back after a poll replaced the record | `ReviewRequiredSticks` |
| `crossed` | contents fetched by one poll while another persisted what it had fetched | `UnavailableHasCause` |
| `late` | a handler whose lease has expired | (`Settle`) |

### FlowReview

A `Request` is a handler of `POST /api/v1/flow/workflows/:id/request-review` in
progress; when it ends the same name serves for another. A `Host` is a process
that serves the API, with the DAG in its memory and the file `qdag.json` of its
own. `Actor`s are users bound to the RID that owns the flows; the idempotency key
is made of actor and flow, so requests of two actors are not held apart by it.

| Action | Code |
|---|---|
| `Receive` | authentication and `requireScopedEntity` |
| `Lock`, `Replay`, `RecordAnswer` | `PostgresIdempotencyStore.execute`: the advisory lock and the look-up, a recorded answer, the insert with the release of the lock |
| `ReadFlow` | the three ways the handler goes on: settled, pending, anew |
| `RecordIntent` | `createReview` and the first transaction |
| `ReuseNode`, `AppendNode`, `SaveDag`, `ProjectNode` | the look-up of an existing node, or `witness.commit`: append, save, `putNode` |
| `SettleFlow` | the second transaction |
| `Refuse` | a version conflict, a known event id, a node id under another hash |
| `Fail` | a database or file call that rejects; 500 |
| `Crash`, `Restart` | the end of a process; `buildApp` with hydration and projection |

Abstractions. A transaction is one step: PostgreSQL takes the row lock on the flow
before its version is read. The lock and the look-up of the idempotency record are
one step, because the record can only change under the lock; that the lock is
taken on a 32-bit hash of the key, so that other keys may wait too, is left out. A
flow is requested once, in version 1, so it has one node id, and a DAG is a
function from flows to hashes; its edges are not needed. A hash stands for the
nonce of an append: the host and how often it had restarted. The checkpoint that
ends a commit is left out: if it fails, the request fails after the projection,
which is `Fail` in step `settle`. At a start the nodes read from the projection,
and those written to it, are any subset: both loops end at their first error,
which is logged. The write of the temporary file and its rename are one step.
`CREATE_ENTITY` of the command API can overwrite a flow without an expected
version; it is no part of this module, nor are the memory and file providers.

### HostStore

The store of a process without a database. All requests share one state; a batch
copies it whole and puts the copy back when its work throws; while any batch is
open, the file provider only notes that there is something to write.

| Action | Code |
|---|---|
| `Read`, `BeginBatch`, `EndBatch`, `Rollback` | `UniverseStore.saveCase` and `batch` of the two providers |
| `Put`, `PutConflict`, `AppendEvent` | `entityRepository().put`, `eventStore().append` up to their flush, with the audit record |
| `PutUnchanged`, `Retry` | the early return of a `put` that changes nothing; a client that sends a failed put again |
| `Flush`, `Write`, `WriteFails`, `Close` | `flush` and its queue, `close` |
| `Throw` | work that throws |
| `Restart`, `RestartUnread` | the end of the process, and `ensure` of the next one, which reads the file or, in its `catch`, starts from an empty state |

Abstractions. A hash is the sequence of all that went into it, so a chain verifies
exactly when each entry was linked to the one before. A file is written beside and
renamed in one step: its temporary name is unique. Contents are who wrote them.
A put changes nothing only if its record names the version it has already
(`Versioned`): without one the file provider counts a new version each time, and
the memory provider writes whatever it is given.

Four variables are observed, not part of the code. `overlapped` are requests that
met a batch of another one: a batch that fails takes back whatever anybody wrote
since it began. `undone` is that a batch of the file provider failed. `unwritten`
are requests that were told "unchanged" of a record whose write had failed.
`forgotten` are successes that a later process lost because it could not read or
parse the file, took it for an empty state and overwrote it. The properties except
them, because the code does.

### ReviewDesk

Owners, evaluators and observers over PostgreSQL. Every statement is a step; a
lock that is taken disables the steps that wait for it.

| Action | Code |
|---|---|
| `RequestReview`, `PostReview`, `AskTransition` | the routes and `review-workflow.ts` up to `saveEntity` |
| `Observe` | `runObservationWorkflow` up to its batch |
| `SelectForUpdate`, `Upsert`, `AuditPut` | `put` of postgres.ts: the locked row, the version check, the row, its audit record |
| `AppendEvent`, `AddEvent` | `append`: the look-up of the event before, the insert |
| `Commit`, `Break` | the end of a transaction, or of its connection |

A review's event follows in a second transaction; an observation's is in the same
one. `late` is observed: events dated before one that is in the ledger, which
`occurredAt: capturedAt` (legal-store.ts) allows. `served` counts a caller's
requests: entries of a ledger are told apart by the request that wrote them, not by
record and version, because versions may repeat. `FOR UPDATE` locks no row that is
not there, so a creation that found none and waits may overwrite not only the row
of another creation but every version that was saved on top of it meanwhile, and
`SavesTakeTurns` excepts creations. The run saves one version of the case; the
proof covers any number.

### Sessions

`PostgresAuthService` on several hosts. The table decides about sessions, one
conditional UPDATE each; a host's copy of the users decides what it knows of a
RID.

| Action | Code |
|---|---|
| `CreateUser` | `createUser`, with a RID or without |
| `BindRid`, `UpdateUser`, `RevokeAll`, `LookUpBinding`, `RecordBinding` | `assignRid` and `recordRidBinding`, statement by statement |
| `Login`, `InsertSession` | `login` |
| `Arrive`, `Refresh` | `refresh` |
| `Arrive`, `Touch`, `ReadUser` | `authenticate` |
| `Arrive`, `Logout` | `logout` |
| `Break`, `Restart` | a statement or its answer lost; a host that ends and reads all users |

Each `Client` is one request, which names the session or token it is given;
`arrived` is observed: whether the session it shows was live when it came. A host
that has not read a user answers that user's refresh by revoking all sessions
(`RevokeAll` of a client). Expiry, the setup route, `getOnlineUsers`, the table of
revoked tokens and the file-based service are left out.

### WitnessExchange

Each witness has a DAG of nodes with parents; hash h is the h-th node anybody
made.

| Action | Code |
|---|---|
| `AppendNode` | `WitnessDag.append` |
| `Export`, `Damage`, `Import` | `exportWitnessBundle`; a bundle that does not verify any more; `importWitnessBundle` |
| `Backup`, `Restore` | `witness-backup.ts`, by a script that has the witness to itself |
| `GiveBundles`, `TakeBundle` | `reconcileWitnessBundles`, one bundle a step |

A bundle may arrive in any order, again or never. An import that meets a node id
the target has for another node throws, and what it took before stays: any
downward closed choice of it. In a reconciliation, too, nodes of a bundle that
clashed stay in the result although the bundle is rejected, which is why
`ReconcileIgnoresOrder` speaks of the order only where no ids clash. The branch
that puts off a bundle for its missing history is not reachable: a bundle that
verifies has all of it. Signatures and hashes are whether they fit.

### KeyedRequests

The file store of idempotency keys. Code between two awaits is one action.

| Action | Code |
|---|---|
| `Arrive`, `Read`, `ReadFails` | `load`, which the first request starts and the others do not wait for; a file that is there and cannot be read is an empty store |
| `LookUp`, `WorkFails`, `WorkDone` | `get` and `execute`: the recorded answer, the work in flight, work of its own |
| `Open`, `Write`, `Rename`, `FlushFails` | `flush`: two writers at once share the temporary name, hence an inode |
| `Crash` | the end of the process |

`WorkIsDoneOnce` says of which keys the code guarantees what. Work is begun only
when it is called for: nobody is at it, it was not done in this life of the
process, and if anybody has the answer, a crash lost it or this life cannot know
it. An answer counts as given (`acked`) when its request ends and also when it is
replayed from memory, which may be before the file has it or after its write
failed. What a crash may lose of the answers given are those no flush has written
(`unsaved`) and, in a life with a mishap (`mishaps`), those that the mishap may
have cost: requests that come and flushes that write while the file is first read
find an empty store or overwrite it, a file that cannot be read is overwritten
too, and flushes that overlap each other may leave a torn file or an older one.
The refusal of a key under another payload is left out.

## Runs

Bounds are chosen so that each actor meets each other at least once: two of
everything that can race (producers, processes, jobs, cases, runners), two
attempts (one retry and one last attempt; three in `queue_shared`), a lease of two
ticks and handlers as long as that, so that a lease can expire under a handler,
between two jobs of a batch, or not at all; two contents and two or three instants
of the clock, which is one or two poll intervals. In `FlowReview` two failures and
two restarts allow one in each half of the handler, or two in a row at the same
call. `research_races` has two runners, two cases, one content that needs a
review, one fault, which may be a lease that expires under a handler, and a
freshness that is stale at the next instant, so that refresh and polls race;
retrieval failures and a second content are left to `research_liveness`, which has
one runner, three publications of two contents, so that the first may come back,
and one fault of any kind, so that a poll breaks off at any step and is retried.
Two cases and two runners with two contents are out of TLC's reach; the proofs
cover them. The newer runs: two case saves and a single put of one record that
names its version, one end of the process and one failed write or unreadable file
in `host_store`; an owner, two evaluators, one of them ADMIN, and
two observers, with one transition of one review, one version of one case, one
late event and one broken call in `reviews`; two hosts, two administrators, three
requests and one user, whose two RIDs may race, with one break in `sessions`; two
witnesses, three nodes, two bundles in lists of three, so that a list may name one
twice, and two mishaps in `witness_exchange`; three requests for two keys with two
faults, each a crash, a failed write or an unreadable file, in `keyed_requests`.
`MaxContents`, `StepTicks`, `MaxErrors`,
`MaxFaults`, `MaxBoots`, `MaxTime`, `MaxCrashes`, `MaxBreaks`, `MaxBroken`,
`MaxLate`, `MaxVersion`, `MaxNodes`, `MaxWire`, `MaxList` and `MaxMishaps` are
bounds of the models; the code has no counterpart. `research_races`, `flow_safety`,
`witness_exchange` and `keyed_requests` use symmetry in sets whose members differ
in nothing but their names, and so does `sessions`, whose one action property
speaks of all users alike. No run with a liveness property uses any.

| Run | Shows |
|---|---|
| `queue_safety` | two processes, two jobs with a producer each: types, attempts, exclusive live leases, results computed from the current row, settled jobs final, and the refinement of `JobPromise` |
| `queue_liveness` | one process may stop or crash, one lives, and a batch fits in a lease: every accepted job settles |
| `queue_shared` | a drain request beside the poll loop and two producers of one key: a racing put is the only thing that reopens a job |
| `research_races` | two polls and re-analyses at once, with a refresh between them and one rejected call, lost process or expired lease: links, starts and the wait for review survive, but for the races named |
| `research_liveness` | one fault of any kind at any step, contents that come back: a completed run leaves nothing unreviewed unless a poll broke off, UNAVAILABLE has a cause, a due source is polled, and the job of its due time is never used up |
| `flow_safety` | two users, two hosts, any call may fail and any host die: the intent is recorded once and whole, before any trace of its node; results on record hold; the refinement of `ReviewPromise` |
| `flow_liveness` | one flow, one user with two requests, one host that may die twice, file writes that succeed: a recorded intent is settled and the owner told, one witness, in the file, no incomplete replay |
| `host_store` | both providers, batches that overlap and fail, puts sent again, a crash, a failed write or an unreadable file: chains, durability, whole batches, and that what was put off is written |
| `reviews` | locks and ledgers under overlapping transactions: both ledgers verify, events tell of saves, saves take turns, no deadlock |
| `sessions` | ended sessions serve nobody on any host, tokens are exchanged once, a RID is bound once and ends the sessions from before it |
| `witness_exchange` | every DAG verifies whatever is imported and restored in whatever order; the outcome of a reconciliation does not depend on it |
| `keyed_requests` | work is begun only when it is called for, and which answers given, replays from memory included, a crash can lose |

CHECK_DEADLOCK is on for the queue, the research, the flows and the keyed
requests, where nothing is meant to stop: time passes, the scheduler ticks for
ever, an owner may always ask again. It is off in `host_store`, `reviews`,
`sessions` and `witness_exchange`, whose requests are served once and whose bounds
are used up in the end; that no call of `reviews` waits for ever is the property
`CallsEnd`, and that what `host_store` put off is written is `PutOffIsWritten`.

What the passing runs leave out, because it does not hold:

- A drain request beside the poll loop has the loop's workerId, and one of them
  may settle the other's live claim. `LiveLeaseIsHeld` is therefore checked and
  proved for one activity per process.
- `queue_liveness` needs a batch that fits in a lease. With two workers and
  handlers that outlast it, results are dropped and the attempts they would have
  counted with them, and the job is redelivered for ever.
- `queue_safety` needs one producer per key for its final states. Two producers
  can reopen a completed job; `queue_shared` shows that only they can.
- A poll that breaks off between the revision and its review, because the process
  dies or a call rejects, leaves the change without a review for ever: the retry
  finds the content persisted and unchanged and completes
  (`continuous-research.ts:191-227`), where
  `docs/AWS-PHASE-7-CONTINUOUS-RESEARCH.md:158` has every material verified source
  change create one. `cutOff` excepts it.
- Of two re-analyses of one revision at once, or a poll and a re-analysis, the
  later write of the review drops the other's link (`raced`).
- Two attempts at a slot may both look for its run before either has recorded it,
  and the later record replaces the start (`doubled`). `AWS-PHASE-7:205` has retries
  preserve `started_at`; they do when one follows the other.
- A poll or a refresh that writes the freshness from a copy replaced meanwhile
  restores the change state of that copy (`overtaken`). So does the catch block of
  a poll whose call rejects after its own freshness was written.
- The catch block takes any error for an unavailable source: a store call that
  rejects, and the event of a revision that the log has already, because the source
  went back to it or two polls crossed. `UnavailableHasCause` says so; a source
  that answered may be UNAVAILABLE.
- In `research_liveness` nothing becomes stale, so the scheduler never rewrites
  the freshness. A refresh that reads the record before a poll ends and writes it
  after restores an old `next_due_at`, whose job is settled, and the source is
  never polled again.
- `flow_liveness` needs one flow, one host and a file that can be written. The
  saves of two flows' nodes may land in reverse order (`local-dag-store.ts:32`);
  after a crash the replay of a settled request is then answered that its state is
  incomplete, for ever, where `docs/API.md:83` says that replays converge on the
  same review and witness hash. A save that fails leaves a node in memory, which
  the next request takes for a committed one (`ReuseNode`), and a second host has
  a DAG of its own in which it does not find the node.
- `host_store` excepts requests that met a batch of another one (`overlapped`): a
  batch that fails takes their writes back, and a success that was put off may be
  lost in a crash. After a failed batch the audit trail of the file provider does
  not verify any more (`undone`).
- The event ledger of PostgreSQL does not verify once an event is dated before the
  last one; `LedgersVerify` says exactly then.
- A review whose caller breaks off between its two transactions has no event.
- A binding that breaks off before it has revoked the user's sessions leaves them,
  and binding again finds the RID bound and does not revoke them (`lapsed`).
- The file store of idempotency keys may do work again that was acknowledged, when
  requests or flushes overlap its first read or the file cannot be read, and may
  lose records in a crash when flushes overlap, or when an answer was replayed from
  memory before the file had it.
- `host_store` further excepts what was told "unchanged" of a record whose write
  had failed (`unwritten`), and successes whose file a later process could not read
  and overwrote (`forgotten`).

## Fairness

`JobQueue`: timers fire and promises settle, so a process that cannot die is
started, a poll loop that may claim does, a batch goes on, a handler ends, and
time passes. Nobody has to call `enqueue`, to drain or to stop, and a process in
`Mortal` may stop at any point. A handler may always fail; attempts bound it.

`ContinuousResearch`: the same for the scheduler's and the handlers' steps. That a
pending job is taken in the end, however often others are, is strong fairness of
`Take`, and is what `queue_liveness` shows of the queue when a batch fits in a
lease. Nobody has to publish, to ask for a re-analysis, or to fail, and the clock
may stand still.

`FlowReview`: a handler goes on while its process lives, because promises settle;
a process that died is started again; and the owner keeps asking, since nothing in
the code resumes a pending flow but a request. Failures and crashes are bounded,
never fair.

`HostStore`: the event loop runs every continuation (`Serve`) and a write to the
file ends (`Write`). Work may throw, nobody has to close, crash or fail.

`ReviewDesk`: the database goes on with some statement that is not waiting for a
lock (one weak fairness for all of them). Nobody has to ask for anything or to
break.

The other specifications state safety only.

## Proofs

`JobQueueProofs` proves for every set of jobs, clients, processes and loops, and
every number of attempts, lease length and backoff:

- `TypeCorrect`, `AttemptsAreBounded`: from `AttemptsInv`, which adds to the
  property what the memory of a loop is worth: a claimed copy has an attempt left,
  and the job whose handler runs is in its loop's batch.
- `AcceptedResultsAreCurrent`: assumes `SoleActivity`, one activity per workerId.
  A row claimed again under another name is not owned any more, so an owned row is
  the claimed one. The exclusive lease needs the assumption (see the list above).
- `SettledJobsStaySettled`: assumes `DistinctProducers`, one producer per key.
  `ProducerInv` adds that a client about to put knows of an absent row, that a
  settled row has no owner, and that an absent row was never touched. With two,
  the later of two racing puts reopens a settled job.
- `OnlyRacingPutsReopen`: nothing else does, whoever shares keys and owner names.
  It assumes nothing: `RestInv` adds to `AttemptsInv` that a settled row waits for
  nothing and holds no lease, so time leaves it as it is, and `OtherRowSteps` says
  what a step that is no put may do to a row.
- `LiveLeasesAreHeld`: assumes both. `LeaseInv` is inductive because a loop's own
  count of its lease goes down with the row's.
- `QueueKeepsPromise`: assumes both. The initial states map to initial states, and
  each step to a step of `JobPromise` or a stutter: only `EnqueuePut` and an
  accepted `Settle` are visible.

`FlowReviewProofs` proves for every set of flows, users, requests, hosts and
review ids, and every number of failures and restarts:

- `FlowTypeCorrect`, `FlowIntentIsWhole`, `FlowIntentBeforeWitness`,
  `FlowRecordedResultHolds`: all four from `FlowInv`. It adds to the properties
  that a flow's review and hash are there exactly when its status says so
  (`FlowsAreShaped`), that what a handler remembers is true of the flow or is
  refused by its version (`MemoriesAreTrue`), and that a host that is down may
  still restart (`DownHostsMayRestart`, which bounds the hashes). The heart of it
  is `MemoriesAreTrue`: a handler that read version v either still meets version
  v, or is refused, so of all that race one records the intent and one settles it.
- `FlowKeepsPromise`: only `RecordIntent`, `SettleFlow` and an answer are visible;
  `RecordedResultHolds` makes each answer one that `ReviewPromise` gives.

Nothing is assumed there of the number of actors or hosts. The node that witnesses
a settled flow needs more: `SoleHost`, since each host has a DAG of its own, and
`FileCanBeWritten`, since a node that could not be saved stays in memory.

- `WitnessAgreesWithoutRaces` and `ReplaysConvergeWithoutRaces`, for any flows and
  actors, along behaviours in which `CommitsAlone`: no request commits a node while
  the save of another is under way. The code does not enforce that, and the list
  above says what happens when saves overlap. `WitnessInv` adds what makes the
  three properties inductive: memory and file differ by the node that is being
  saved (`FileFollows`), what is being written is what memory holds, and whoever is
  on the way to the settlement has a hash that is in the file
  (`HandlersHoldNodes`).
- `SoleFlowHasOneWitness`: with one flow and one actor there is one idempotency
  key, and its lock gives `CommitsAlone` (`HoldersWork`, `LockMakesTurns`). That is
  what `flow_liveness` checks, for any number of requests, failures and restarts.

`ContinuousResearchProofs` proves for every set of cases and contents, every
number of attempts and every interval, from the type invariant `TypeInv`, which
relates where a handler is to what it holds:

None of the first five assumes anything of the number of runners or of the faults:

- `RunsKeepTheirStart`. `StartedInv`: a poll that has found or recorded a run
  remembers the start on record, unless the slot is `doubled`, and every record it
  writes is under that start.
- `ReviewStaysRequired`. `CopiesInv`: whoever may yet write the freshness from a
  copy, and is not `overtaken`, has a copy that speaks of the change as the record
  does.
- `CompletedRunsAreReviewed`. `LedgerInv`: the head, the reviews and the
  re-analysis jobs are of revisions the log knows. `ReviewedInv`: each of those is
  reviewed, on its way there, or cut off, which is what a poll that finds its
  content unchanged relies on.
- `UnavailableOnlyForCause`. `AgainInv` follows the contents: the log knows only
  contents that were published, and it knows the current one, or one that a poll
  has in hand and that is not the head, only if that content came again or crossed
  another poll. `CauseInv` then follows an UNAVAILABLE record back to the error of
  the poll that wrote it.
- `CandidatesAreLinked`. `MadeInv`: whoever is on the way to the review has made
  its candidate. `CalmInv`: a revision that is not `raced` is in the hand of one
  handler at most, who has read its review as it is, or is about to write the first
  one before any re-analysis has ended.
- `DueSlotsStayOpen`, for any finite number of runners, contents that come back and
  fewer faults of any kind than a job has attempts. `SlotInv` counts: each failed attempt at the poll of the due
  time, settled by the queue or not yet, is a fault, so with fewer faults than
  attempts (`FewerFaultsThanAttempts`) the job is never given up; and a poll that is
  about to complete, or to record its failure, has moved the due time on
  (`MovedOn`), so none uses up the slot that is due. It speaks of behaviours in which the refresh writes back the
  due time that it finds (`LosesNothing`). Where it does not, the slot may be used
  up, as the list above says; in `research_liveness` nothing becomes stale.

`HostStoreProofs` proves for any requests, keys and bounds:

- `StoreTypeCorrect`: among others that `batchDepth` never goes below 0, which
  needs that it counts the open batches (`TypeInv`).
- `EventsAlwaysVerify` and `AuditsVerifyUntilABatchFails`, from `EventChains` and
  `AuditChains`, which speak of everything that was, is or will be in memory or in
  the file: the snapshots of batches and the payloads in the flush queue too. The
  second adds that the head kept apart is the hash of the last record, until a
  batch fails.
- `AcknowledgedAlwaysDurable` and `BatchesAlwaysWhole`, from `Histories`, which
  follows a request that met no batch of another one, and was told nothing of a
  record the file lacks and lost no answer to a file that could not be read. A case is in memory alone
  while its batch is open, absent or whole before and after, and the same in
  everything that may get to memory or to the file without any further request
  (`Aside`: the file, the payloads that wait and the snapshots). From the payload
  of a request on, every later payload holds what it wrote (`Ordered`), so the
  payload that is written last does.

`ReviewDeskProofs` proves for any owners, evaluators, observers, ids, versions and
broken calls, from one invariant, `DeskInv`:

- `DeskTypeCorrect` and `LocksAreHeldToTheEnd`: a lock has one holder, who is past
  the statement that takes it and before the end of the transaction.
- `LedgersAlwaysVerify`: the entry a transaction adds is linked to the last one
  that is committed, because it has held the advisory lock since it read that one
  (`Linked`).
- `EventsAlwaysTellSaves`: each put and each event is numbered by the request that
  made it, and a put without an event is that of a caller which is still to append
  it, or broke off before it did (`Numbered`).
- `SavesAlwaysTakeTurns`: who updates has the lock of the very row it decided on
  (`Based`), and a review that does not exist yet is known to the one call that
  creates it (`OneCreator`).

`SessionsProofs` proves for any hosts, users, RIDs, administrators, requests and
failures:

- `RidsAreBoundOnce`: `RidInv` adds that a RID a host knows of a user is the
  user's, though what it knows may be from before the binding, and that whoever is
  to record a binding has the RID the user has.
- `NobodyIsServedAfterTheEnd`: `TokenInv` adds that a session's token was handed
  out by its login or its last refresh, and that a token once exchanged is no
  session's any more, so the conditional UPDATE exchanges it once.
- `SessionsBeforeABindingEnd`: `UnboundInv` adds that the users of stored sessions
  and of logins exist, so that a session from before a binding was there to be
  revoked by it.

`WitnessExchangeProofs` proves for any witnesses, node ids and bounds
`EveryDagVerifies` and `OrderIsIgnored` from `ExchangeInv`: an import of what
verifies into what verifies leaves what verifies, even if it breaks off
(`ImportIsSound`), and a reconciliation has accepted, rejected or still to take
each bundle, and rejects none that is usable unless ids clash (`DeskIsSound`).

`KeyedRequestsProofs` proves `KeyedWorkIsDoneOnce` for any keys, requests and
faults. Its invariant says what memory holds (the answers given and not lost, once
the file has been read undisturbed) and what the file holds (the same but for what
no flush has written, as long as this life had no mishap), and that whoever works
for a key is the one on record for it.

The assumptions on constants (`StructureAssumption`, `NumbersAssumption`,
`BackoffAssumption`, `FlowAssumption`, `NullAssumption`, `ResearchAssumption`,
`RecordAssumption`, `HostStoreAssumption`, `ReviewDeskAssumption`,
`SessionsAssumption`, `WitnessAssumption`, `KeyedAssumption`) are evaluated by TLC
in each run of their modules.

Every invariant and every action property that a run checks is proved, under the
assumptions named above. Only model-checked is liveness, which the prover does not
reach: `EveryJobSettles`, `DueSourceIsPolled`, `IntentIsSettled`, `PutOffIsWritten`
and `CallsEnd`.

## Not modelled

The components marked so in `PROJECT.json`, each with its reason. Adapters, text
analysis, seed data, the SDK and static catalogues are I/O or stateless text
processing that TLC has nothing to add to. The legal engines are pure functions,
each a short list of conditions that a reference definition could only repeat. The
workflow engine calls one function and reports how it ended. Of the HTTP host the
rate limiter keeps state, in one synchronous function that nothing interleaves. Of
the components modelled in part, what is left out is named in their sections and
in `PROJECT.json`.
