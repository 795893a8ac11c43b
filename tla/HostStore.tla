------------------------------- MODULE HostStore -------------------------------
(***************************************************************************)
(* The store of a process that has no database: MemoryProvider (memory.ts) *)
(* or FileProvider (file.ts) of packages/persistence, with requests that   *)
(* save a record (one put) or a case (UniverseStore.saveCase: a read, then *)
(* a batch of a put and an event).                                         *)
(*                                                                         *)
(* All requests share one state.  A batch takes a copy of all of it and    *)
(* puts the copy back when its work throws.  While any batch is open the   *)
(* file provider writes nothing: the last batch to end does.               *)
(* Every await is a place where another request may run.                   *)
(***************************************************************************)
EXTENDS Integers, Sequences, FiniteSets

CONSTANTS
  Request,    \* requests
  CaseSave,   \* those that save a case; the others put one record
  Versioned,  \* those of the others whose record names its version itself
  Key,        \* entity ids
  KeyOf,      \* the entity each request writes
  Driver,     \* the providers a run may start with
  None,
  MaxCrashes, \* bound: ends of the process
  MaxFaults   \* bound: times the file could not be written or read

ASSUME HostStoreAssumption ==
  /\ IsFiniteSet(Request)
  /\ CaseSave \subseteq Request
  /\ Versioned \subseteq Request \ CaseSave
  /\ KeyOf \in [Request -> Key]
  /\ Driver \subseteq {"memory", "file"}
  /\ None \notin Request
  /\ MaxCrashes \in Nat
  /\ MaxFaults \in Nat

VARIABLES
  driver,      \* which provider the host created
  mem,         \* state: rows, event chain, audit chain
  auditHead,   \* auditChainHead of the file provider
  batchDepth,  \* open batches, counted by the file provider
  dirty,       \* a write was put off to the end of the open batches
  flushQueue,  \* payloads that wait to be written, oldest first
  disk,        \* what universe-store.json holds
  step,        \* per request: where it is
  seen,        \* per request: the version saveCase read
  snapshot,    \* per request: the copy its batch took
  overlapped,  \* observed: requests that met a batch of another one
  undone,      \* observed: a batch of the file provider has failed
  unwritten,   \* observed: requests told "unchanged" of a record not in the file
  forgotten,   \* observed: successes whose file could not be read at a start
  crashes, faults

storeVars == <<mem, auditHead, batchDepth, dirty, flushQueue, disk>>
observed  == <<overlapped, undone, unwritten, forgotten>>
bounds    == <<crashes, faults>>
vars == <<driver, storeVars, step, seen, snapshot, observed, bounds>>

-------------------------------------------------------------------------------
(* Chains.  A hash is represented by all that went into it. *)

Genesis == <<>>
Link(previous, item) == Append(previous, item)
LastHash(chain) == IF chain = <<>> THEN Genesis ELSE chain[Len(chain)].hash
Linked(chain, previous, item) ==
  Append(chain, [item |-> item, hash |-> Link(previous, item)])

\* verifyChain and verify: every entry's hash follows from the one before it.
Verifies(chain) ==
  \A i \in DOMAIN chain :
    chain[i].hash = Link(IF i = 1 THEN Genesis ELSE chain[i - 1].hash, chain[i].item)

Record(r) == <<r, "put">>
Event(r)  == <<r, "event">>
Items(chain) == {chain[i].item : i \in DOMAIN chain}

Empty == [rows |-> [k \in Key |-> [version |-> 0, by |-> None]],
          events |-> <<>>, audits |-> <<>>]

Steps == {"idle", "read", "put", "saved", "append", "appended", "end", "throw",
          "writing", "ok", "failed", "error", "lost", "again"}
Entry == [item : Request \X {"put", "event"}, hash : Seq(Request \X {"put", "event"})]
Content == [rows : [Key -> [version : Nat, by : Request \cup {None}]],
            events : Seq(Entry), audits : Seq(Entry)]

\* Requests whose batch is open.
Open == {r \in CaseSave : step[r] \in {"put", "saved", "append", "appended", "end", "throw"}}
Alone(r) == r \notin CaseSave

Goto(r, s) == step' = [step EXCEPT ![r] = s]
-------------------------------------------------------------------------------
Init ==
  /\ driver \in Driver
  /\ mem = Empty /\ disk = Empty
  /\ auditHead = Genesis
  /\ batchDepth = 0 /\ dirty = FALSE
  /\ flushQueue = <<>>
  /\ step = [r \in Request |-> "idle"]
  /\ seen = [r \in Request |-> 0]
  /\ snapshot = [r \in Request |-> Empty]
  /\ overlapped = {} /\ undone = FALSE
  /\ unwritten = {} /\ forgotten = {}
  /\ crashes = 0 /\ faults = 0

\* The hash a new audit record is linked to: the file provider keeps it apart
\* from the records, the memory provider looks at the last one.
PreviousAudit == IF driver = "file" THEN auditHead ELSE LastHash(mem.audits)

\* An audit record for item, with the chain it is added to.
Audited(item) == Linked(mem.audits, PreviousAudit, item)
KeepHead(item) ==
  auditHead' = IF driver = "file" THEN Link(PreviousAudit, item) ELSE auditHead

\* A plausible bug: the hash before it is looked up in the file.
AppendedToFile(r) == Linked(mem.events, LastHash(disk.events), Event(r))
Appended(r) == Linked(mem.events, LastHash(mem.events), Event(r))

\* The version of a put alone: its own (always 1 here), or the next one, which
\* the file provider counts and the memory provider starts again at 1.
NextVersion(r) ==
  IF driver = "file" /\ r \notin Versioned THEN mem.rows[KeyOf[r]].version + 1 ELSE 1

\* What the file provider finds that it need not write: the row as it is asked
\* for, version and all.
Unchanged(r) ==
  driver = "file" /\ r \in Versioned /\ mem.rows[KeyOf[r]].by = r

\* saveEntity with expectedVersion.
Conflict(r) == ~Alone(r) /\ mem.rows[KeyOf[r]].version # seen[r]

\* saveCase looks at the case it is to replace.
Read(r) ==
  /\ r \in CaseSave /\ step[r] = "idle"
  /\ seen' = [seen EXCEPT ![r] = mem.rows[KeyOf[r]].version]
  /\ Goto(r, "read")
  /\ UNCHANGED <<driver, storeVars, snapshot, observed, bounds>>

NotDeeper == batchDepth
Deeper == batchDepth + 1

BeginBatch(r) ==
  /\ step[r] = "read"
  /\ snapshot' = [snapshot EXCEPT ![r] = mem]
  /\ batchDepth' = IF driver = "file" THEN Deeper ELSE batchDepth
  /\ overlapped' = IF Open = {} THEN overlapped ELSE overlapped \cup Open \cup {r}
  /\ Goto(r, "put")
  /\ UNCHANGED <<driver, mem, auditHead, dirty, flushQueue, disk, seen, undone,
                 unwritten, forgotten, bounds>>

\* Where a request stands at its put.
AtPut(r) == IF Alone(r) THEN step[r] \in {"idle", "again"} ELSE step[r] = "put"

\* entityRepository().put up to its flush: the row and its audit record.
Put(r) ==
  /\ AtPut(r) /\ ~Conflict(r) /\ ~Unchanged(r)
  /\ LET k == KeyOf[r]
         version == IF Alone(r) THEN NextVersion(r) ELSE seen[r] + 1
     IN mem' = [mem EXCEPT !.rows[k] = [version |-> version, by |-> r],
                           !.audits = Audited(Record(r))]
  /\ KeepHead(Record(r))
  /\ overlapped' = IF Alone(r) /\ Open # {} THEN overlapped \cup {r} ELSE overlapped
  /\ Goto(r, "saved")
  /\ UNCHANGED <<driver, batchDepth, dirty, flushQueue, disk, seen, snapshot, undone,
                 unwritten, forgotten, bounds>>

\* A put that changes nothing is answered at once: no audit record, no flush,
\* whether or not the write of the row it finds succeeded.
PutUnchanged(r) ==
  /\ AtPut(r) /\ Unchanged(r)
  /\ unwritten' = IF Record(r) \in Items(disk.audits) THEN unwritten ELSE unwritten \cup {r}
  /\ Goto(r, "ok")
  /\ UNCHANGED <<driver, storeVars, seen, snapshot, overlapped, undone, forgotten, bounds>>

\* The client of a put that failed, or was not answered, sends it again.
Retry(r) ==
  /\ Alone(r) /\ step[r] \in {"error", "lost"}
  /\ Goto(r, "again")
  /\ UNCHANGED <<driver, storeVars, seen, snapshot, observed, bounds>>

PutConflict(r) ==
  /\ step[r] = "put" /\ Conflict(r)
  /\ Goto(r, "throw")
  /\ UNCHANGED <<driver, storeVars, seen, snapshot, observed, bounds>>

\* eventStore().append up to its flush.
AppendEvent(r) ==
  /\ step[r] = "append"
  /\ mem' = [mem EXCEPT !.events = Appended(r), !.audits = Audited(Event(r))]
  /\ KeepHead(Event(r))
  /\ Goto(r, "appended")
  /\ UNCHANGED <<driver, batchDepth, dirty, flushQueue, disk, seen, snapshot, observed, bounds>>

\* The work of a batch throws, for whatever reason.
Throw(r) ==
  /\ step[r] \in {"put", "append", "end"}
  /\ Goto(r, "throw")
  /\ UNCHANGED <<driver, storeVars, seen, snapshot, observed, bounds>>

\* Where a request goes when a flush has nothing to wait for.
Onward(r) ==
  IF step[r] = "appended" THEN "end" ELSE IF Alone(r) THEN "ok" ELSE "append"

FlushEvenInBatch(r) == FALSE
\* flush() only notes that there is something to write.
PutOff(r) == batchDepth > 0

\* flush() takes the payload and lines up behind the writes before it.
Enqueue(r) ==
  /\ flushQueue' = Append(flushQueue, [by |-> r, content |-> mem])
  /\ dirty' = FALSE
  /\ UNCHANGED <<mem, auditHead, disk>>

\* The flush at the end of put and append.
Flush(r) ==
  /\ step[r] \in {"saved", "appended"}
  /\ IF driver = "memory"
     THEN Goto(r, Onward(r)) /\ UNCHANGED storeVars
     ELSE IF PutOff(r)
     THEN /\ dirty' = TRUE
          /\ Goto(r, Onward(r))
          /\ UNCHANGED <<mem, auditHead, batchDepth, flushQueue, disk>>
     ELSE /\ Enqueue(r)
          /\ Goto(r, IF Alone(r) THEN "writing" ELSE Onward(r))
          /\ UNCHANGED batchDepth
  /\ overlapped' = IF Alone(r) /\ PutOff(r) THEN overlapped \cup {r} ELSE overlapped
  /\ UNCHANGED <<driver, seen, snapshot, undone, unwritten, forgotten, bounds>>

LastOutBeforeCount == batchDepth = 0
\* The batch that ends is the last one open, and something was put off.
LastOut == batchDepth = 1

EndBatch(r) ==
  /\ step[r] = "end"
  /\ IF driver = "memory"
     THEN Goto(r, "ok") /\ UNCHANGED storeVars
     ELSE /\ batchDepth' = batchDepth - 1
          /\ IF LastOut /\ dirty
             THEN Enqueue(r) /\ Goto(r, "writing")
             ELSE Goto(r, "ok") /\ UNCHANGED <<mem, auditHead, dirty, flushQueue, disk>>
  /\ UNCHANGED <<driver, seen, snapshot, observed, bounds>>

RestoredRows(r) == [mem EXCEPT !.rows = snapshot[r].rows]
\* The state a failed batch leaves behind: all of its copy.
Restored(r) == snapshot[r]

\* The catch and finally clauses.  auditHead stays where it is.
Rollback(r) ==
  /\ step[r] = "throw"
  /\ mem' = Restored(r)
  /\ IF driver = "file"
     THEN dirty' = FALSE /\ batchDepth' = batchDepth - 1 /\ undone' = TRUE
     ELSE UNCHANGED <<dirty, batchDepth, undone>>
  /\ Goto(r, "failed")
  /\ UNCHANGED <<driver, auditHead, flushQueue, disk, seen, snapshot, overlapped,
                 unwritten, forgotten, bounds>>

NewestFirst == Len(flushQueue)
\* The write whose turn it is: writes are chained one behind the other.
Turn == 1

Without(i) == SubSeq(flushQueue, 1, i - 1) \o SubSeq(flushQueue, i + 1, Len(flushQueue))

\* A temporary file of its own is written and renamed.
Write ==
  /\ flushQueue # <<>>
  /\ disk' = flushQueue[Turn].content
  /\ step' = [r \in Request |-> IF r = flushQueue[Turn].by THEN "ok" ELSE step[r]]
  /\ flushQueue' = Without(Turn)
  /\ UNCHANGED <<driver, mem, auditHead, batchDepth, dirty, seen, snapshot, observed, bounds>>

\* The file cannot be written: its request is told so, the next one is written.
WriteFails ==
  /\ flushQueue # <<>> /\ faults < MaxFaults
  /\ faults' = faults + 1
  /\ step' = [r \in Request |-> IF r = flushQueue[Turn].by THEN "error" ELSE step[r]]
  /\ flushQueue' = Without(Turn)
  /\ UNCHANGED <<driver, mem, auditHead, batchDepth, dirty, disk, seen, snapshot, observed, crashes>>

\* close(), on the way down: one more flush, which nobody waits for here.
Close ==
  /\ driver = "file" /\ flushQueue = <<>> /\ disk # mem
  /\ IF batchDepth > 0
     THEN dirty' = TRUE /\ UNCHANGED <<mem, auditHead, flushQueue, disk>>
     ELSE Enqueue(None)
  /\ UNCHANGED <<driver, batchDepth, step, seen, snapshot, observed, bounds>>

HeadUnread == Genesis
\* ensure reads the head of the audit chain off its last record.
LoadedHead == LastHash(disk.audits)

\* The process ends; what it was doing is lost with it.
Ends ==
  /\ crashes < MaxCrashes
  /\ crashes' = crashes + 1
  /\ batchDepth' = 0 /\ dirty' = FALSE /\ flushQueue' = <<>>
  /\ step' = [r \in Request |->
       IF step[r] \in {"idle", "ok", "failed", "error", "again"} THEN step[r] ELSE "lost"]
  /\ UNCHANGED <<driver, disk, seen, snapshot, overlapped, undone, unwritten>>

\* The next one loads the file on its first call (ensure).
Restart ==
  /\ Ends
  /\ mem' = disk /\ auditHead' = LoadedHead
  /\ UNCHANGED <<forgotten, faults>>

\* ensure cannot read or parse the file it finds: it starts from an empty
\* state, which the next flush puts in the file's place.
RestartUnread ==
  /\ driver = "file" /\ disk # Empty /\ faults < MaxFaults
  /\ Ends
  /\ mem' = Empty /\ auditHead' = Genesis
  /\ forgotten' = forgotten \cup {r \in Request : step[r] = "ok"}
  /\ faults' = faults + 1

Serve(r) ==
  \/ Read(r) \/ BeginBatch(r) \/ Put(r) \/ PutConflict(r) \/ PutUnchanged(r)
  \/ AppendEvent(r) \/ Flush(r) \/ EndBatch(r) \/ Rollback(r)

Next ==
  \/ \E r \in Request : Serve(r) \/ Throw(r) \/ Retry(r)
  \/ Write \/ WriteFails \/ Close \/ Restart \/ RestartUnread

Spec == Init /\ [][Next]_vars

\* The event loop runs every continuation, and a write to a file ends.
FairSpec ==
  Spec /\ (\A r \in Request : WF_vars(Serve(r))) /\ WF_vars(Write)

-------------------------------------------------------------------------------
(* Properties *)

\* Every variable has the shape the code gives it.
TypeOK ==
  /\ driver \in Driver
  /\ mem \in Content /\ disk \in Content
  /\ auditHead \in Seq(Request \X {"put", "event"})
  /\ batchDepth \in Nat /\ dirty \in BOOLEAN
  /\ flushQueue \in Seq([by : Request \cup {None}, content : Content])
  /\ step \in [Request -> Steps]
  /\ seen \in [Request -> Nat]
  /\ snapshot \in [Request -> Content]
  /\ overlapped \subseteq Request /\ undone \in BOOLEAN
  /\ unwritten \subseteq Request /\ forgotten \subseteq Request
  /\ crashes \in 0..MaxCrashes /\ faults \in 0..MaxFaults

\* verifyChain finds the events in order in memory and in the file, whatever
\* batches failed, overlapped or were cut off by a crash.
EventsVerify == Verifies(mem.events) /\ Verifies(disk.events)

\* verify of the audit trail says valid, in memory and in the file, as long as
\* no batch of the file provider has failed.  (A failed one takes audit records
\* back and leaves auditChainHead behind them.)
AuditsVerifyUntilUndone == ~undone => Verifies(mem.audits) /\ Verifies(disk.audits)

Saved(content, r)  == Record(r) \in Items(content.audits)
Told(content, r)   == Event(r) \in Items(content.events)
Whole(content, r)  == Saved(content, r) /\ (r \in CaseSave => Told(content, r))
Absent(content, r) == ~Saved(content, r) /\ ~Told(content, r)

\* A request that was answered with success is in the file, and stays there
\* through crashes, failed writes and the batches that fail later, with three
\* exceptions: it met a batch of another request; it was told "unchanged" of a
\* record whose write had failed; or a later process could not read the file
\* and went on without it.
AcknowledgedIsDurable ==
  driver = "file" =>
    \A r \in Request \ (overlapped \cup unwritten \cup forgotten) :
      step[r] = "ok" => Whole(disk, r)

\* A case that met no other batch is in the file as a whole or not at all, at
\* every moment; once its batch is over, in memory too; and not at all if its
\* work threw.
BatchesAreWhole ==
  \A r \in CaseSave \ overlapped :
    /\ Whole(disk, r) \/ Absent(disk, r)
    /\ r \notin Open => Whole(mem, r) \/ Absent(mem, r)
    /\ step[r] = "failed" => Absent(mem, r) /\ Absent(disk, r)

\* A success that the file provider put off to the end of somebody's batch gets
\* to the file, unless a batch fails or the process or a write does.
PutOffIsWritten ==
  \A r \in Request :
    (driver = "file" /\ step[r] = "ok")
      ~> (Whole(disk, r) \/ undone \/ crashes > 0 \/ faults > 0)
===============================================================================
