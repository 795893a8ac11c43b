------------------------------- MODULE ReviewDesk ------------------------------
(***************************************************************************)
(* Human reviews and observations kept in PostgreSQL.                      *)
(*                                                                         *)
(* Owners and evaluators open reviews, evaluators move them through the    *)
(* review state machine (orchestrator/review-workflow.ts and its routes),  *)
(* observers record a case and its event                                   *)
(* (runObservationWorkflow).  All of them go through postgres.ts: a row    *)
(* lock for the entity, one advisory lock for the audit and the event      *)
(* ledger, both held to the end of the transaction.                        *)
(*                                                                         *)
(* Every statement sent to the database is a step of its own.  A waiting   *)
(* lock is a disabled step.                                                *)
(***************************************************************************)
EXTENDS Integers, Sequences, FiniteSets

CONSTANTS
  Owner,      \* requests of case owners for a review
  Evaluator,  \* users that may transition reviews, one request at a time
  Admin,      \* those of them that are ADMIN
  Observer,   \* clients that record observations, one request at a time
  Review,     \* ids randomUUID may give, each once
  Case,       \* case ids the observers write
  Asked,      \* what evaluators ask for: a status, an assignee, a disposition
  None,
  MaxVersion, \* bound: versions of each row
  MaxLate,    \* bound: events dated before one that is in the ledger
  MaxBroken   \* bound: calls whose connection or process ends

Caller == Owner \cup Evaluator \cup Observer
Id     == Review \cup Case

\* What tells an event apart: the row and the version it tells of, whose request
\* it was, and how many of that caller's requests were served before.
EventEntry == Id \X Nat \X Caller \X Nat

ASSUME ReviewDeskAssumption ==
  /\ Admin \subseteq Evaluator
  /\ None \notin Caller \cup Id \cup Nat \cup EventEntry \cup {"CREATE", "UPDATE"}
  /\ None \notin [entry : EventEntry, previous : EventEntry \cup {None}]
  /\ Owner \cap Evaluator = {} /\ Owner \cap Observer = {} /\ Evaluator \cap Observer = {}
  /\ Review \cap Case = {}
  /\ \A ask \in Asked : /\ DOMAIN ask = {"status", "assignee", "decides"}
                        /\ ask.assignee \in Evaluator \cup {None}
                        /\ ask.decides \in BOOLEAN
  /\ MaxVersion \in [Review \cup Case -> Nat] /\ MaxLate \in Nat /\ MaxBroken \in Nat

VARIABLES
  rows,      \* entities: the committed row of each id
  events,    \* event_ledger, by (occurred_at, event_id)
  audits,    \* audit_ledger, by chain_position
  rowLock,   \* per id: the call whose transaction has locked the row
  advisory,  \* the call that has pg_advisory_xact_lock(837462902)
  call,      \* per caller: its request and its transaction
  served,    \* per caller: how many of its requests have been served to the end
  late,      \* observed: events that were not dated last
  broken     \* calls that broke off

vars == <<rows, events, audits, rowLock, advisory, call, served, late, broken>>

-------------------------------------------------------------------------------
(* Policy: the state machine of a review, and what the route adds to it. *)

Status == {"QUEUED", "ASSIGNED", "ACKNOWLEDGED", "EVIDENCE_REQUESTED",
           "DISPOSED", "ESCALATED", "REOPENED"}

allowed ==
  [QUEUED             |-> {"ASSIGNED", "ACKNOWLEDGED", "ESCALATED"},
   ASSIGNED           |-> {"ACKNOWLEDGED", "EVIDENCE_REQUESTED", "ESCALATED"},
   ACKNOWLEDGED       |-> {"EVIDENCE_REQUESTED", "DISPOSED", "ESCALATED"},
   EVIDENCE_REQUESTED |-> {"ACKNOWLEDGED", "DISPOSED", "ESCALATED"},
   DISPOSED           |-> {"REOPENED"},
   ESCALATED          |-> {"ACKNOWLEDGED", "DISPOSED", "REOPENED"},
   REOPENED           |-> {"ASSIGNED", "ACKNOWLEDGED", "EVIDENCE_REQUESTED", "ESCALATED"}]

\* No row: version 0, so that an absent version reads as 0.
NoRow == [version |-> 0, status |-> None, assignee |-> None, decided |-> FALSE]

CreatedReview(assignee) ==
  [version |-> 1, status |-> IF assignee = None THEN "QUEUED" ELSE "ASSIGNED",
   assignee |-> assignee, decided |-> FALSE]

Observed(row) == [NoRow EXCEPT !.version = row.version + 1]

\* Evaluator e, by the route and by the policy, may ask that of a review.
MayAsk(e, row, ask) ==
  /\ ask.status \in allowed[row.status]
  /\ ask.status = "DISPOSED" => ask.decides
  /\ e \in Admin \/ ask.assignee \in {e, None}

Transitioned(e, row, ask) ==
  [version  |-> row.version + 1,
   status   |-> ask.status,
   assignee |-> IF ask.assignee # None THEN ask.assignee
                ELSE IF e \notin Admin /\ row.assignee = None THEN e ELSE row.assignee,
   decided  |-> row.decided \/ ask.decides]

-------------------------------------------------------------------------------
(* Ledgers.  A hash stands for the entry that has it, and no entry is made    *)
(* twice: the request that makes it, which draws ids of its own, is told apart *)
(* by its caller and by how many of that caller's were served before.          *)

NoCall == [pc |-> "idle", id |-> None, expected |-> None, next |-> NoRow,
           op |-> None, event |-> None, audits |-> <<>>]

LastOf(chain) == IF chain = <<>> THEN None ELSE chain[Len(chain)].entry

\* What a statement of c's transaction reads as the last entry of the audits:
\* its own, which no other transaction sees, or the last committed one.
PreviousAudit(c) == LastOf(audits \o call[c].audits)

AuditRecord(c, model, op) ==
  [entry |-> <<model, call[c].id, call[c].next.version, c, served[c]>>, op |-> op,
   previous |-> PreviousAudit(c)]

EventRecord(c) ==
  [entry |-> <<call[c].id, call[c].next.version, c, served[c]>>, previous |-> LastOf(events)]

Verifies(chain) ==
  \A i \in DOMAIN chain :
    chain[i].previous = IF i = 1 THEN None ELSE chain[i - 1].entry

LedgerUnlocked(c) == TRUE
RowsUnlocked(c) == TRUE
LedgerFree(c) == advisory \in {None, c}
RowFree(c) == rowLock[call[c].id] \in {None, c}

-------------------------------------------------------------------------------
Init ==
  /\ rows = [id \in Id |-> NoRow]
  /\ events = <<>>
  /\ audits = <<>>
  /\ rowLock = [id \in Id |-> None]
  /\ advisory = None
  /\ call = [c \in Caller |-> NoCall]
  /\ served = [c \in Caller |-> 0]
  /\ late = 0
  /\ broken = 0

\* Answered calls leave the caller free; one that broke off is not made again.
Answered == {"idle", "broken"}
Idle(c)  == call[c].pc = "idle"

\* The call goes to the database with `next`, under `expected` if it has one.
Send(c, id, expected, next) ==
  /\ call' = [call EXCEPT ![c] = [NoCall EXCEPT !.pc = "select", !.id = id,
                                    !.expected = expected, !.next = next]]
  /\ UNCHANGED <<rows, events, audits, rowLock, advisory, served, late, broken>>

Unused(id) == rows[id] = NoRow /\ \A c \in Caller : call[c].id # id
IsOpen(id) == rows[id] # NoRow /\ rows[id].status # "DISPOSED"

\* POST /api/v1/xrp/cases/:id/request-review: the owner's list of open reviews
\* of the case is empty.  (Otherwise 409 REVIEW_ALREADY_OPEN, which changes
\* nothing.)  The list and the save are not one transaction.
RequestReview(c) ==
  /\ c \in Owner /\ Idle(c)
  /\ \A id \in Review : ~IsOpen(id)
  /\ \E id \in Review : Unused(id) /\ Send(c, id, None, CreatedReview(None))

\* POST /api/v1/reviews, which does not look at the reviews there are.
PostReview(c) ==
  /\ c \in Evaluator /\ Idle(c)
  /\ \E id \in Review, assignee \in Evaluator \cup {None} :
       Unused(id) /\ Send(c, id, None, CreatedReview(assignee))

\* POST /api/v1/reviews/:id/transition up to saveEntity.  A transition that the
\* route or the policy refuses changes nothing.
AskTransition(c) ==
  /\ c \in Evaluator /\ Idle(c)
  /\ \E id \in Review, ask \in Asked :
       /\ rows[id] # NoRow /\ rows[id].version < MaxVersion[id]
       /\ MayAsk(c, rows[id], ask)
       /\ Send(c, id, rows[id].version, Transitioned(c, rows[id], ask))

\* runObservationWorkflow up to its batch.
Observe(c) ==
  /\ c \in Observer /\ Idle(c)
  /\ \E id \in Case :
       /\ rows[id].version < MaxVersion[id]
       /\ Send(c, id, rows[id].version, Observed(rows[id]))

-------------------------------------------------------------------------------
(* One transaction.  `Rollback` undoes what it has done and frees its locks. *)

StillLocked(c) == rowLock
Freed(c) == [id \in Id |-> IF rowLock[id] = c THEN None ELSE rowLock[id]]

Release(c) ==
  /\ rowLock' = Freed(c)
  /\ advisory' = IF advisory = c THEN None ELSE advisory

Conflicts(c) == call[c].expected \notin {None, rows[call[c].id].version}

GoesOn(c) == [call[c] EXCEPT !.pc = "append"]

\* Where a call goes that has lost the version it wanted to write.
AfterConflict(c) == NoCall

\* BEGIN; SELECT * FROM entities WHERE id=$1 FOR UPDATE; the version check.
\* A row that does not exist is not locked.
SelectForUpdate(c) ==
  /\ call[c].pc = "select"
  /\ rows[call[c].id] # NoRow => RowFree(c)
  /\ IF Conflicts(c)
     THEN /\ call' = [call EXCEPT ![c] = AfterConflict(c)]
          /\ UNCHANGED rowLock
     ELSE /\ call' = [call EXCEPT ![c].pc = "upsert",
                        ![c].op = IF rows[call[c].id] = NoRow THEN "CREATE" ELSE "UPDATE"]
          /\ rowLock' = IF rows[call[c].id] = NoRow THEN rowLock
                        ELSE [rowLock EXCEPT ![call[c].id] = c]
  /\ UNCHANGED <<rows, events, audits, advisory, served, late, broken>>

\* INSERT .. ON CONFLICT(id) DO UPDATE: waits for whoever inserts that id too.
Upsert(c) ==
  /\ call[c].pc = "upsert"
  /\ RowFree(c)
  /\ rowLock' = [rowLock EXCEPT ![call[c].id] = c]
  /\ call' = [call EXCEPT ![c].pc = "audit"]
  /\ UNCHANGED <<rows, events, audits, advisory, served, late, broken>>

\* writeAudit of the put: the advisory lock, the last record, the insert.
\* An observation goes on in the same batch, a review ends its transaction.
AuditPut(c) ==
  /\ call[c].pc = "audit"
  /\ LedgerFree(c)
  /\ advisory' = c
  /\ call' = [call EXCEPT
       ![c].pc = IF c \in Observer THEN "append" ELSE "commit",
       ![c].audits = Append(@, AuditRecord(c, "ENTITY", call[c].op))]
  /\ UNCHANGED <<rows, events, audits, rowLock, served, late, broken>>

\* EventStore.append: the advisory lock, the last event by (occurred_at,
\* event_id), the insert, and the audit of the event.
AppendEvent(c) ==
  /\ call[c].pc = "append"
  /\ LedgerFree(c)
  /\ advisory' = c
  /\ call' = [call EXCEPT ![c].pc = "commit",
                          ![c].event = EventRecord(c),
                          ![c].audits = Append(@, AuditRecord(c, "EVENT", "CREATE"))]
  /\ UNCHANGED <<rows, events, audits, rowLock, served, late, broken>>

InsertAt(chain, i, item) == SubSeq(chain, 1, i - 1) \o <<item>> \o SubSeq(chain, i, Len(chain))

\* The event takes its place by the date its host gave it.
AddEvent(c) ==
  IF call[c].event = None THEN UNCHANGED <<events, late>>
  ELSE \E i \in 1 .. Len(events) + 1 :
         /\ events' = InsertAt(events, i, call[c].event)
         /\ late' = IF i = Len(events) + 1 THEN late ELSE late + 1
         /\ late' <= MaxLate

HasPut(c) == \E i \in DOMAIN call[c].audits : call[c].audits[i].entry[1] = "ENTITY"

\* COMMIT.  After the put of a review its event follows, in a transaction of
\* its own.
Commit(c) ==
  /\ call[c].pc = "commit"
  /\ rows' = IF HasPut(c) THEN [rows EXCEPT ![call[c].id] = call[c].next] ELSE rows
  /\ audits' = audits \o call[c].audits
  /\ AddEvent(c)
  /\ Release(c)
  /\ IF call[c].event = None
     THEN /\ call' = [call EXCEPT ![c].pc = "append", ![c].audits = <<>>]
          /\ UNCHANGED served
     ELSE /\ call' = [call EXCEPT ![c] = NoCall]
          /\ served' = [served EXCEPT ![c] = @ + 1]
  /\ UNCHANGED broken

\* The connection is lost, a statement fails or the process ends: ROLLBACK.
\* The caller, if there still is one, gets an error.
Break(c) ==
  /\ call[c].pc \in {"select", "upsert", "audit", "append", "commit"}
  /\ broken < MaxBroken
  /\ broken' = broken + 1
  /\ call' = [call EXCEPT ![c].pc = "broken", ![c].audits = <<>>, ![c].event = None]
  /\ Release(c)
  /\ UNCHANGED <<rows, events, audits, served, late>>

Statement(c) ==
  \/ SelectForUpdate(c)
  \/ Upsert(c)
  \/ AuditPut(c)
  \/ AppendEvent(c)
  \/ Commit(c)

Next == \E c \in Caller :
  \/ RequestReview(c) \/ PostReview(c) \/ AskTransition(c) \/ Observe(c)
  \/ Statement(c)
  \/ Break(c)

Spec == Init /\ [][Next]_vars

\* The database goes on while there is a statement it can serve.  (The bounds
\* end every run of calls, so that no call is passed over for ever.)
FairSpec == Spec /\ WF_vars(\E c \in Caller : Statement(c))

-------------------------------------------------------------------------------
(* Properties *)

\* The audit ledger verifies in every committed state, whatever transactions
\* overlapped.  The event ledger verifies exactly as long as every event was
\* dated after those before it: postgres.ts links an event to the last one by
\* (occurred_at, event_id) and verifies in that order.
LedgersVerify ==
  /\ Verifies(audits)
  /\ Verifies(events) <=> late = 0

AuditedPuts == {audits[i].entry : i \in {j \in DOMAIN audits : audits[j].entry[1] = "ENTITY"}}
Told        == {<<"ENTITY">> \o events[i].entry : i \in DOMAIN events}

\* c has saved that version and not yet told it, or has broken off in between.
StillToTell(c, put) ==
  /\ put = <<"ENTITY", call[c].id, call[c].next.version, c, served[c]>>
  /\ call[c].pc \in {"append", "commit", "broken"}

\* Every event tells of a version that was saved, and is there once.  A saved
\* version has its event, but for a review whose caller is between the two
\* transactions or broke off there: an observation has both or none.
EventsTellSaves ==
  /\ Told \subseteq AuditedPuts
  /\ \A put \in AuditedPuts \ Told : put[2] \in Review /\ StillToTell(put[4], put)
  /\ \A i, j \in DOMAIN events : events[i].entry = events[j].entry => i = j

NewAudits == {audits'[i] : i \in Len(audits) + 1 .. Len(audits')}

\* Saves take turns.  A review changes only by a transition that the state
\* machine and the route allow from the row it replaces, and not only from the
\* row that was read before the transaction: nobody's assignment or disposition
\* is overwritten.  A save that found a row replaces the version before its own;
\* only the creation of a case may overwrite what it did not see, even later
\* versions, FOR UPDATE having locked nothing.
SavesTakeTurns ==
  [][/\ \A id \in Review : rows[id] \notin {NoRow, rows'[id]} =>
          \E e \in Evaluator, ask \in Asked :
            MayAsk(e, rows[id], ask) /\ rows'[id] = Transitioned(e, rows[id], ask)
     /\ \A new \in NewAudits : new.entry[1] = "ENTITY" /\ (new.op = "UPDATE" \/ new.entry[2] \in Review)
          => rows[new.entry[2]].version = new.entry[3] - 1]_<<rows, audits>>

\* Every call ends: no order of the row locks and the advisory lock makes two
\* transactions wait for each other, and a transaction that is refused or
\* breaks off leaves nothing locked.
CallsEnd == <>[](\A c \in Caller : call[c].pc \in Answered)
===============================================================================
