-------------------------- MODULE ContinuousResearch --------------------------
(***************************************************************************)
(* Continuous research on one monitored source                             *)
(* (packages/orchestrator/src/aws): the scheduler, the AWS_POLL_SOURCE     *)
(* handler with the source worker it calls, the AWS_REANALYZE_CASE handler *)
(* and the operator's request for a re-analysis.                           *)
(*                                                                         *)
(* The handlers run as jobs of PersistentJobQueue, of which this module    *)
(* uses only what JobPromise says: a pending job may be run, or run again, *)
(* at any time.  A Runner is an activity that runs handlers: one stands    *)
(* for the poll loop of a single process, two for two replicas or for a    *)
(* drain request beside the poll loop.  Two of them are at one job when    *)
(* its lease has expired under the first.  Each await of a handler after   *)
(* which another actor's step matters ends a step here.                    *)
(*                                                                         *)
(* A Revision is a canonical content of the source: revision ids, review   *)
(* ids and candidate ids are hashes of it.                                 *)
(***************************************************************************)
EXTENDS Integers, FiniteSets, Sequences

CONSTANTS
  Case,          \* the cases that depend on the source (AWS_DEPENDS_ON)
  Revision,      \* contents the source may have
  FirstContent,  \* the content before the first publication
  Runner,        \* activities that run job handlers
  None,          \* null: no record, no revision, no time
  MaxAttempts,   \* the queue's maxAttempts
  PollInterval,  \* poll_interval_minutes
  StaleAfter,    \* stale_after_minutes
  UniqueEvents,  \* eventStore().append rejects a known eventId: memory, Postgres
  Faults,        \* which of "retrieval", "store", "loss" and "late" may happen
  MaxFaults,     \* bound: how many of them
  MaxContents,   \* bound: contents published one after the other
  MaxTime        \* bound: the last instant of the clock

ASSUME ResearchAssumption ==
  /\ FirstContent \in Revision
  /\ None \notin Revision \cup Nat
  /\ MaxAttempts \in Nat \ {0}
  /\ PollInterval \in Nat \ {0}
  /\ StaleAfter \in Nat
  /\ UniqueEvents \in BOOLEAN
  /\ Faults \subseteq {"retrieval", "store", "loss", "late"}
  /\ MaxFaults \in Nat
  /\ MaxContents \in Nat
  /\ "scheduler" \notin Runner
  /\ MaxTime \in Nat

VARIABLES
  published,   \* what the official source has published, the current content last
  now,         \* the clock
  head,        \* AWS_SOURCE_HEAD: the latest persisted revision
  ledger,      \* revisions with an AWS.SOURCE.REVISION event
  fresh,       \* SOURCE_FRESHNESS record: a Freshness, or None
  runs,        \* RESEARCH_RUN records, each a Run, by the instant they were scheduled for
  reviews,     \* RESEARCH_REVIEW records, by revision: the linked candidates
  candidates,  \* REANALYSIS_CANDIDATE records: cases, by revision
  promise,     \* the queue, as a caller of enqueue knows it
  counted,     \* attempts the queue has counted
  act,         \* what each runner is doing
  sched,       \* what the scheduler is doing
  crossed,     \* observed: revisions of polls of which one persisted while the other had fetched
  cutOff,      \* observed: revisions whose poll broke off between revision and review
  raced,       \* observed: revisions whose review two handlers had in hand at once
  doubled,     \* observed: slots two polls of which began a run
  overtaken,   \* observed: who has a freshness record in hand that was replaced since
  late,        \* observed: who is at a job whose lease has expired meanwhile
  faults       \* faults so far

records == <<head, ledger, fresh, runs, reviews, candidates>>
queue == <<promise, counted>>
observed == <<crossed, cutOff, raced, doubled, overtaken, late>>
vars == <<published, now, records, queue, act, sched, observed, faults>>

Content == published[Len(published)]

\* Contents the source went back to.
Returned == {rev \in Revision : \E i, j \in DOMAIN published :
                i < j /\ published[i] = rev /\ published[j] = rev}

Instant == 0..MaxTime
PollJob(t) == <<"poll", t>>
CaseJob(c, rev) == <<"case", c, rev>>
Job == {PollJob(t) : t \in Instant} \cup {CaseJob(c, rev) : c \in Case, rev \in Revision}

Queue == INSTANCE JobPromise

\* enqueue with an idempotency key: a known job is returned, whatever its status.
Enqueue(j) == IF promise[j] = "absent" THEN Queue!Accept(j) ELSE UNCHANGED queue

Freshness ==
  [state: {"FRESH", "STALE", "UNAVAILABLE"}, change: {"UNCHANGED", "REVIEW_REQUIRED"},
   success: Instant \cup {None}, due: 0..(MaxTime + PollInterval),
   error: {"none", "retrieval", "store", "duplicate"}]

Run == [status: {"RUNNING", "COMPLETED", "FAILED", "DEAD_LETTER"},
        started: Instant, revision: Revision \cup {None}]

ASSUME RecordAssumption ==
  None \notin Freshness \cup Run /\ \A links \in SUBSET Case : links # None

\* evaluateAwsFreshness
Evaluated(success) ==
  IF success = None \/ now - success > StaleAfter THEN "STALE" ELSE "FRESH"

\* isAwsMonitorDue, of an enabled monitor
IsDue == fresh = None \/ fresh.due <= now

\* The locals of a handler.
Idle == [pc |-> "idle", job |-> None, found |-> FALSE, started |-> None, old |-> None,
         got |-> None, changed |-> FALSE, todo |-> {}, seen |-> {}, error |-> "none"]

Quiet == [pc |-> "idle", snap |-> None]

Init ==
  /\ published = <<FirstContent>>
  /\ now = 0
  /\ head = None
  /\ ledger = {}
  /\ fresh = None
  /\ runs = [t \in Instant |-> None]
  /\ reviews = [rev \in Revision |-> None]
  /\ candidates = [rev \in Revision |-> {}]
  /\ promise = [j \in Job |-> "absent"]
  /\ counted = [j \in Job |-> 0]
  /\ act = [r \in Runner |-> Idle]
  /\ sched = Quiet
  /\ crossed = {} /\ cutOff = {} /\ raced = {} /\ doubled = {} /\ overtaken = {} /\ late = {}
  /\ faults = 0

-------------------------------------------------------------------------------
(* Surroundings *)

Publish(rev) ==
  /\ rev # Content
  /\ Len(published) < MaxContents
  /\ published' = Append(published, rev)
  /\ UNCHANGED <<now, records, queue, act, sched, observed, faults>>

Advance ==
  /\ now < MaxTime
  /\ now' = now + 1
  /\ UNCHANGED <<published, records, queue, act, sched, observed, faults>>

\* AwsResearchOperatorService.requestReanalysis
RequestReanalysis(c) ==
  /\ head # None
  /\ Enqueue(CaseJob(c, head))
  /\ UNCHANGED <<published, now, records, act, sched, observed, faults>>

(* The scheduler's tick: refreshStaleStates, syncDeadLetterRuns, scheduleDueSources *)

RefreshRead ==
  LET skip == fresh = None \/ fresh.state = "UNAVAILABLE" IN
  /\ sched.pc = "idle"
  /\ sched' = IF skip \/ Evaluated(fresh.success) = fresh.state
              THEN [Quiet EXCEPT !.pc = "sync"]
              ELSE [pc |-> "refresh",
                    snap |-> [fresh EXCEPT !.state = Evaluated(fresh.success)]]
  /\ UNCHANGED <<published, now, records, queue, act, observed, faults>>

\* Who has a copy of the freshness record that it may still write from.
Copied == {"begin", "fetch", "compare", "persist", "enqueue", "freshen", "finish", "done", "catch"}
Copies == {r \in Runner : act[r].pc \in Copied}
          \cup (IF sched.pc = "refresh" THEN {"scheduler"} ELSE {})

\* The whole record is written back as it was read; upsertRecordIfChanged takes
\* the version from a second read, so a write in between is not noticed.
RefreshWrite ==
  /\ sched.pc = "refresh"
  /\ fresh' = sched.snap
  /\ sched' = [Quiet EXCEPT !.pc = "sync"]
  /\ overtaken' = (IF "scheduler" \in overtaken THEN overtaken \cup Copies ELSE overtaken) \ {"scheduler"}
  /\ UNCHANGED <<published, now, head, ledger, runs, reviews, candidates, queue, act,
                 crossed, cutOff, raced, doubled, late, faults>>

SyncDeadLetters ==
  /\ sched.pc = "sync"
  /\ runs' = [t \in Instant |->
                IF promise[PollJob(t)] = "deadLetter" /\ runs[t] # None
                THEN [runs[t] EXCEPT !.status = "DEAD_LETTER"] ELSE runs[t]]
  /\ sched' = [Quiet EXCEPT !.pc = "schedule"]
  /\ UNCHANGED <<published, now, head, ledger, fresh, reviews, candidates, queue, act, observed, faults>>

\* The idempotency key of the poll names the instant the source was due.
ScheduleDue ==
  /\ sched.pc = "schedule"
  /\ IF ~IsDue THEN UNCHANGED queue
     ELSE Enqueue(PollJob(IF fresh = None THEN now ELSE fresh.due))
  /\ sched' = Quiet
  /\ UNCHANGED <<published, now, records, act, observed, faults>>

-------------------------------------------------------------------------------
(* Handlers *)

At(r, pc) == act[r].pc = pc
Goto(r, pc) == act' = [act EXCEPT ![r].pc = pc]

AtJob(j) == {r \in Runner : ~At(r, "idle") /\ act[r].job = j}

Taken(r, j) ==
  [act[r] EXCEPT !.pc = IF j[1] = "poll" THEN "start" ELSE "candidate", !.job = j]

Take(r, j) ==
  /\ At(r, "idle")
  /\ promise[j] = "pending"
  /\ AtJob(j) = {}
  /\ act' = [act EXCEPT ![r] = Taken(r, j)]
  /\ UNCHANGED <<published, now, records, queue, sched, observed, faults>>

StartedNow(t) == now

\* A retry keeps the started_at of the run it finds.
StartedAt(t) == IF runs[t] = None THEN now ELSE runs[t].started

\* pollMonitor looks for a run of this slot.
ReadRun(r) ==
  LET t == act[r].job[2] IN
  /\ At(r, "start")
  /\ act' = [act EXCEPT ![r] = [@ EXCEPT !.pc = "read", !.found = runs[t] # None,
                                       !.started = StartedAt(t)]]
  /\ UNCHANGED <<published, now, records, queue, sched, observed, faults>>

\* It reads the head, for the diff, and the freshness record.
ReadFreshness(r) ==
  /\ At(r, "read")
  /\ act' = [act EXCEPT ![r] = [@ EXCEPT !.pc = "begin", !.old = fresh]]
  /\ UNCHANGED <<published, now, records, queue, sched, observed, faults>>

\* The run is recorded as RUNNING.  (The version is that of a read of its own: a
\* run that another poll recorded meanwhile is replaced.)
WriteRunning(r) ==
  LET t == act[r].job[2] IN
  /\ At(r, "begin")
  /\ runs' = [runs EXCEPT ![t] =
                [status |-> "RUNNING", started |-> act[r].started, revision |-> None]]
  /\ doubled' = IF ~act[r].found /\ runs[t] # None THEN doubled \cup {t} ELSE doubled
  /\ Goto(r, "fetch")
  /\ UNCHANGED <<published, now, head, ledger, fresh, reviews, candidates, queue, sched,
                 crossed, cutOff, raced, overtaken, late, faults>>

Fetch(r) ==
  /\ At(r, "fetch")
  /\ act' = [act EXCEPT ![r] = [@ EXCEPT !.pc = "compare", !.got = Content]]
  /\ UNCHANGED <<published, now, records, queue, sched, observed, faults>>

UnchangedOnceSeen(rev) == head # None

\* AwsSourceWorker.process compares fingerprints with the head.
Unchanged(rev) == head = rev

Compare(r) ==
  /\ At(r, "compare")
  /\ Goto(r, IF Unchanged(act[r].got) THEN "freshen" ELSE "persist")
  /\ UNCHANGED <<published, now, records, queue, sched, observed, faults>>

AcceptsOnePerSource(rev) == UniqueEvents => ledger = {}

\* persistSourceRevision: evidence, event and head in one batch, undone when the
\* event log already has the event, whose id is a hash of source and content.
Accepts(rev) == UniqueEvents => rev \notin ledger

Persist(r) ==
  LET rev == act[r].got
      others == {q \in Runner \ {r} : act[q].pc \in {"compare", "persist"}}
  IN
  /\ At(r, "persist")
  /\ IF Accepts(rev)
     THEN /\ head' = rev
          /\ ledger' = ledger \cup {rev}
          /\ act' = [act EXCEPT ![r] = [@ EXCEPT !.pc = "enqueue", !.changed = TRUE, !.todo = Case]]
          /\ crossed' = IF others = {} THEN crossed
                        ELSE crossed \cup {rev} \cup {act[q].got : q \in others}
     ELSE /\ act' = [act EXCEPT ![r] = [@ EXCEPT !.pc = "catch", !.error = "duplicate"]]
          /\ UNCHANGED <<head, ledger, crossed>>
  /\ UNCHANGED <<published, now, fresh, runs, reviews, candidates, queue, sched,
                 cutOff, raced, doubled, overtaken, late, faults>>

\* One AWS_REANALYZE_CASE job per dependent case.
EnqueueCase(r, c) ==
  /\ At(r, "enqueue")
  /\ c \in act[r].todo
  /\ Enqueue(CaseJob(c, act[r].got))
  /\ act' = [act EXCEPT ![r].todo = @ \ {c}]
  /\ UNCHANGED <<published, now, records, sched, observed, faults>>

\* Revision diff and review item; candidate_refs starts empty.
WriteReview(r) ==
  /\ At(r, "enqueue")
  /\ act[r].todo = {}
  /\ reviews' = [reviews EXCEPT ![act[r].got] = {}]
  /\ Goto(r, "freshen")
  /\ UNCHANGED <<published, now, head, ledger, fresh, runs, candidates, queue, sched, observed, faults>>

ChangeForgotten(old, changed) == IF changed THEN "REVIEW_REQUIRED" ELSE "UNCHANGED"

\* change_state: a change awaits review until it is reviewed.
ChangeState(old, changed) ==
  IF changed \/ (old # None /\ old.change = "REVIEW_REQUIRED")
  THEN "REVIEW_REQUIRED" ELSE "UNCHANGED"

NextDueAtOnce(t) == t

NextDue(t) == t + PollInterval

WriteFreshness(r) ==
  /\ At(r, "freshen")
  /\ fresh' = [state |-> "FRESH", change |-> ChangeState(act[r].old, act[r].changed),
               success |-> now, due |-> NextDue(now), error |-> "none"]
  /\ overtaken' = overtaken \cup Copies
  /\ Goto(r, "finish")
  /\ UNCHANGED <<published, now, head, ledger, runs, reviews, candidates, queue, sched,
                 crossed, cutOff, raced, doubled, late, faults>>

CompleteRun(r) ==
  /\ At(r, "finish")
  /\ runs' = [runs EXCEPT ![act[r].job[2]] =
                [status |-> "COMPLETED", started |-> act[r].started, revision |-> act[r].got]]
  /\ Goto(r, "done")
  /\ UNCHANGED <<published, now, head, ledger, fresh, reviews, candidates, queue, sched, observed, faults>>

\* The catch block, of any error: freshness from the record as the poll found it,
\* then the run FAILED.
CatchPoll(r) ==
  LET old == act[r].old IN
  /\ At(r, "catch")
  /\ fresh' = [state |-> "UNAVAILABLE",
               change |-> IF old = None THEN "UNCHANGED" ELSE old.change,
               success |-> IF old = None THEN None ELSE old.success,
               due |-> NextDue(now), error |-> act[r].error]
  /\ overtaken' = overtaken \cup Copies
  /\ Goto(r, "record")
  /\ UNCHANGED <<published, now, head, ledger, runs, reviews, candidates, queue, sched,
                 crossed, cutOff, raced, doubled, late, faults>>

FailRun(r) ==
  /\ At(r, "record")
  /\ runs' = [runs EXCEPT ![act[r].job[2]] =
                [status |-> "FAILED", started |-> act[r].started, revision |-> None]]
  /\ Goto(r, "failed")
  /\ UNCHANGED <<published, now, head, ledger, fresh, reviews, candidates, queue, sched, observed, faults>>

(* reanalyzeCase *)

WriteCandidate(r) ==
  LET c == act[r].job[2]  rev == act[r].job[3] IN
  /\ At(r, "candidate")
  /\ candidates' = [candidates EXCEPT ![rev] = @ \cup {c}]
  /\ Goto(r, "link")
  /\ UNCHANGED <<published, now, head, ledger, fresh, runs, reviews, queue, sched, observed, faults>>

\* Handlers that will write the review of rev from what they have read of it, or
\* from nothing.
AtReview(rev) == {r \in Runner : \/ At(r, "enqueue") /\ act[r].got = rev
                                 \/ At(r, "relink") /\ act[r].job[3] = rev}

\* The candidate is linked to the review, when there is one.
ReadReview(r) ==
  LET rev == act[r].job[3]  found == reviews[rev] IN
  /\ At(r, "link")
  /\ raced' = IF AtReview(rev) = {} THEN raced ELSE raced \cup {rev}
  /\ act' = IF found = None THEN [act EXCEPT ![r].pc = "done"]
            ELSE [act EXCEPT ![r] = [@ EXCEPT !.pc = "relink", !.seen = found]]
  /\ UNCHANGED <<published, now, records, queue, sched,
                 crossed, cutOff, doubled, overtaken, late, faults>>

LinksWithoutMerge(r) == {act[r].job[2]}

Links(r) == act[r].seen \cup {act[r].job[2]}

WriteLinks(r) ==
  /\ At(r, "relink")
  /\ reviews' = [reviews EXCEPT ![act[r].job[3]] = Links(r)]
  /\ Goto(r, "done")
  /\ UNCHANGED <<published, now, head, ledger, fresh, runs, candidates, queue, sched, observed, faults>>

Leaves(r) ==
  /\ act' = [act EXCEPT ![r] = Idle]
  /\ overtaken' = overtaken \ {r}
  /\ late' = late \ {r}

\* The queue learns how the handler ended; of a job that was settled or claimed
\* again meanwhile it may drop the result.
Settle(r) ==
  LET j == act[r].job IN
  /\ At(r, "done") \/ At(r, "failed")
  /\ \/ /\ promise[j] = "pending"
        /\ IF At(r, "done") THEN Queue!Complete(j) ELSE Queue!Fail(j)
     \/ /\ promise[j] # "pending" \/ r \in late
        /\ UNCHANGED queue
  /\ Leaves(r)
  /\ UNCHANGED <<published, now, records, sched, crossed, cutOff, raced, doubled, faults>>

(* Faults *)

Fault(kind) ==
  /\ kind \in Faults
  /\ faults < MaxFaults
  /\ faults' = faults + 1

\* Steps within the try block of pollMonitor, the append of its last event
\* included, and steps outside.
Guarded(r) == \/ act[r].pc \in {"fetch", "compare", "persist", "enqueue", "freshen", "finish"}
              \/ At(r, "done") /\ act[r].job[1] = "poll"
Unguarded(r) == \/ act[r].pc \in {"start", "read", "begin", "catch", "record"}
                \/ act[r].pc \in {"candidate", "link", "relink"}
                \/ At(r, "done") /\ act[r].job[1] = "case"

\* The handler goes no further with the revision it persisted.
BreaksOff(r) == cutOff' = IF At(r, "enqueue") THEN cutOff \cup {act[r].got} ELSE cutOff

\* The official source does not answer.
FetchFails(r) ==
  /\ At(r, "fetch")
  /\ Fault("retrieval")
  /\ act' = [act EXCEPT ![r] = [@ EXCEPT !.pc = "catch", !.error = "retrieval"]]
  /\ UNCHANGED <<published, now, records, queue, sched, observed>>

\* A call of the store rejects, within the try block or outside it: because it
\* fails, or because of a version that another write took in the middle of it.
StoreFails(r) ==
  /\ Fault("store")
  /\ \/ /\ Guarded(r)
        /\ act' = [act EXCEPT ![r] = [@ EXCEPT !.pc = "catch", !.error = "store"]]
     \/ /\ Unguarded(r)
        /\ Goto(r, "failed")
  /\ BreaksOff(r)
  /\ UNCHANGED <<published, now, records, queue, sched, crossed, raced, doubled, overtaken, late>>

\* The job's lease has expired although a handler is still at it.
Retake(r, j) ==
  /\ At(r, "idle")
  /\ promise[j] = "pending"
  /\ AtJob(j) # {}
  /\ Fault("late")
  /\ act' = [act EXCEPT ![r] = Taken(r, j)]
  /\ late' = late \cup AtJob(j)
  /\ UNCHANGED <<published, now, records, queue, sched, crossed, cutOff, raced, doubled, overtaken>>

\* The process dies.
Lose(r) ==
  /\ ~At(r, "idle")
  /\ Fault("loss")
  /\ Leaves(r)
  /\ BreaksOff(r)
  /\ UNCHANGED <<published, now, records, queue, sched, crossed, raced, doubled>>

SchedulerStep == RefreshRead \/ RefreshWrite \/ SyncDeadLetters \/ ScheduleDue

HandlerStep(r) ==
  \/ ReadRun(r) \/ ReadFreshness(r) \/ WriteRunning(r) \/ Fetch(r) \/ Compare(r) \/ Persist(r)
  \/ \E c \in Case : EnqueueCase(r, c)
  \/ WriteReview(r) \/ WriteFreshness(r) \/ CompleteRun(r) \/ CatchPoll(r) \/ FailRun(r)
  \/ WriteCandidate(r) \/ ReadReview(r) \/ WriteLinks(r)
  \/ Settle(r)

FaultStep(r) == FetchFails(r) \/ StoreFails(r) \/ (\E j \in Job : Retake(r, j)) \/ Lose(r)

Next ==
  \/ \E rev \in Revision : Publish(rev)
  \/ Advance
  \/ \E c \in Case : RequestReanalysis(c)
  \/ SchedulerStep
  \/ \E r \in Runner : (\E j \in Job : Take(r, j)) \/ HandlerStep(r) \/ FaultStep(r)

Spec == Init /\ [][Next]_vars

\* Timers fire and promises settle.  Nobody has to publish anything, and the
\* clock may stand still.  A pending job is taken in the end, whichever others
\* there are: JobQueue shows it (EveryJobSettles).
FairSpec ==
  /\ Spec
  /\ WF_vars(SchedulerStep)
  /\ \A r \in Runner : WF_vars(HandlerStep(r))
  /\ \A j \in Job : SF_vars(\E r \in Runner : Take(r, j))

-------------------------------------------------------------------------------
(* Properties *)

\* Revisions that the source went back to, or whose polls crossed: a later poll
\* may find them persisted without their being the head.
Again == Returned \cup crossed

\* A poll that reports success leaves no revision without its review item,
\* whether it found the change itself or found it already persisted: but for a
\* revision whose poll broke off between the two, by a crash or a rejection, which
\* no retry makes up for, and one whose poll is on its way from the one to the other.
CompletedRunsReviewed ==
  \A t \in Instant :
    runs[t] # None /\ runs[t].status = "COMPLETED" =>
      LET rev == runs[t].revision IN
      \/ reviews[rev] # None \/ rev \in cutOff
      \/ \E r \in Runner : At(r, "enqueue") /\ act[r].got = rev

\* A review links only candidates that were made, and when a re-analysis has
\* completed, the review of its revision, if there is one, links its candidate:
\* although poll and re-analysis write the review in separate steps and each
\* writes back the list it read, as long as no other handler has the same review
\* in hand meanwhile.  (The file provider takes a revision that comes again for a
\* new one, and begins its review anew.)
CandidatesLinked ==
  \A rev \in Revision :
    reviews[rev] # None =>
      /\ reviews[rev] \subseteq candidates[rev]
      /\ rev \notin raced /\ (UniqueEvents \/ rev \notin Again) =>
           \A c \in Case : promise[CaseJob(c, rev)] = "completed" => c \in reviews[rev]

\* Retries and redeliveries of a poll keep the started_at of its research run, at
\* whatever step an attempt failed or was lost, unless two of them had both looked
\* for the run before either had recorded it.
StartedAtKept ==
  [][\A t \in Instant : runs[t] # None
       => /\ runs'[t] # None
          /\ runs'[t].started # runs[t].started => t \in doubled']_vars

Wrote(w) == IF w = "scheduler" THEN sched' # sched ELSE act'[w] # act[w]

\* A change that awaits review goes on awaiting it through every later poll,
\* whether it finds a change, finds none or fails, and through every refresh, unless
\* the record is written back from a copy that a poll has replaced since.
ReviewRequiredSticks ==
  [][fresh # None /\ fresh.change = "REVIEW_REQUIRED" /\ fresh'.change # "REVIEW_REQUIRED"
       => \E w \in overtaken : Wrote(w)]_vars

\* The job whose key the scheduler will use for the next poll has not run out: or
\* enqueue would return the settled job each time and the source would never be
\* polled again.
DueSlotIsOpen ==
  fresh # None /\ fresh.due \in Instant => promise[PollJob(fresh.due)] \notin Queue!Settled

\* A source is declared unavailable for a retrieval without an answer or a call of
\* the store that rejected; and else for a revision that the event log has already,
\* which happens to no poll but of a content that the source went back to, or that
\* was fetched by one poll while another one persisted what it had fetched.
UnavailableHasCause ==
  /\ \A r \in Runner : act[r].error = "duplicate" => act[r].got \in Again
  /\ fresh # None /\ fresh.state = "UNAVAILABLE" =>
       \/ fresh.error \in {"retrieval", "store"} /\ fresh.error \in Faults /\ faults > 0
       \/ fresh.error = "duplicate" /\ Again # {}

\* A source that is due is polled, whatever that poll then finds.
DueSourceIsPolled == (fresh # None /\ IsDue) ~> (fresh # None /\ ~IsDue)

===============================================================================
