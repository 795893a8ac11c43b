---------------------------- MODULE JobQueueProofs ----------------------------
(***************************************************************************)
(* Theorems about JobQueue for any set of jobs, producers, processes and   *)
(* activities, any batch size, lease and backoff.                          *)
(***************************************************************************)
EXTENDS JobQueue, TLAPS

\* What a loop holds in memory is consistent: it runs a job of its batch, it has
\* an outcome only for a job it runs, and each snapshot has an attempt left.
LoopsConsistent ==
  \A l \in Loop :
    /\ cur[l] # NoJob => cur[l] \in batch[l]
    /\ outcome[l] # "none" => cur[l] # NoJob
    /\ \A j \in batch[l] : snap[l][j] < MaxAttempts

\* TypeOK alone is not inductive: run() adds one to a claimed attempt count.
AttemptsInv == TypeOK /\ AttemptsBounded /\ LoopsConsistent

\* The row that run() builds from a snapshot with an attempt left is a row, and
\* it respects the bound on attempts.
LEMMA ResultType ==
  ASSUME NEW result \in {"ok", "failed"}, NEW attempt \in 1..MaxAttempts, NEW elapsed \in Nat
  PROVE  /\ Result(result, attempt, elapsed) \in Row
         /\ Result(result, attempt, elapsed).attempts = attempt
         /\ Result(result, attempt, elapsed).status \in {"COMPLETED", "DEAD_LETTER", "QUEUED"}
         /\ Result(result, attempt, elapsed).status = "QUEUED" => attempt < MaxAttempts
         /\ Result(result, attempt, elapsed).status = "DEAD_LETTER" => attempt = MaxAttempts
  <1>1. Left(Backoff(attempt), elapsed) \in Nat
    BY BackoffAssumption DEF Left
  <1>2. QED
    BY <1>1, NumbersAssumption DEF Result, Unleased, Row, JobStatus

\* A claimed row is a row.
LEMMA LeasedType ==
  ASSUME NEW row \in Row, NEW w \in Worker
  PROVE  /\ Leased(row, w) \in Row
         /\ Leased(row, w).attempts = row.attempts
         /\ Leased(row, w).status = "RUNNING"
         /\ Leased(row, w).owner = w
         /\ Leased(row, w).lease = LeaseTicks
  BY NumbersAssumption DEF Leased, Row, JobStatus

\* A row keeps its type as time passes.
LEMMA AgedType ==
  ASSUME NEW row \in Row
  PROVE  /\ Aged(row) \in Row
         /\ Aged(row).attempts = row.attempts
         /\ Aged(row).status = row.status
         /\ Aged(row).owner = row.owner
         /\ Aged(row).lease = Left(row.lease, 1)
  BY NumbersAssumption DEF Aged, Row, JobStatus, Left

\* Rows that hold no lease.
LEMMA UnleasedRows == Absent \in Row /\ Fresh \in Row
  BY NumbersAssumption DEF Absent, Fresh, Unleased, Row, JobStatus

LEMMA AttemptsInit == Init => AttemptsInv
  <1> SUFFICES ASSUME Init PROVE AttemptsInv
    OBVIOUS
  <1>1. TypeOK
    BY UnleasedRows, NumbersAssumption DEF Init, TypeOK
  <1>2. AttemptsBounded
    BY DEF Init, AttemptsBounded, Absent, Unleased
  <1>3. LoopsConsistent
    BY StructureAssumption DEF Init, LoopsConsistent
  <1>4. QED
    BY <1>1, <1>2, <1>3 DEF AttemptsInv

LEMMA AttemptsStep == AttemptsInv /\ [Next]_vars => AttemptsInv'
  <1> SUFFICES ASSUME AttemptsInv, [Next]_vars PROVE AttemptsInv'
    OBVIOUS
  <1> USE DEF AttemptsInv
  <1>1. ASSUME NEW c \in Client, NEW j \in Job, EnqueueGet(c, j) PROVE AttemptsInv'
    <2>1. TypeOK'
      BY <1>1 DEF EnqueueGet, TypeOK, loopVars
    <2>2. AttemptsBounded' /\ LoopsConsistent'
      BY <1>1 DEF EnqueueGet, AttemptsBounded, LoopsConsistent, loopVars
    <2>3. QED
      BY <2>1, <2>2
  <1>2. ASSUME NEW c \in Client, EnqueuePut(c) PROVE AttemptsInv'
    <2>1. TypeOK'
      BY <1>2, UnleasedRows DEF EnqueuePut, TypeOK, loopVars
    <2>2. AttemptsBounded'
      BY <1>2, NumbersAssumption DEF EnqueuePut, AttemptsBounded, TypeOK, Fresh, Unleased
    <2>3. LoopsConsistent'
      BY <1>2 DEF EnqueuePut, LoopsConsistent, loopVars
    <2>4. QED
      BY <2>1, <2>2, <2>3
  <1>3. ASSUME NEW c \in Client, EnqueueAbort(c) PROVE AttemptsInv'
    <2>1. TypeOK'
      BY <1>3 DEF EnqueueAbort, TypeOK, loopVars
    <2>2. AttemptsBounded' /\ LoopsConsistent'
      BY <1>3 DEF EnqueueAbort, AttemptsBounded, LoopsConsistent, loopVars
    <2>3. QED
      BY <2>1, <2>2
  <1>4. ASSUME NEW w \in Worker, Start(w) \/ Stop(w) PROVE AttemptsInv'
    <2>1. TypeOK'
      BY <1>4 DEF Start, Stop, TypeOK, loopVars
    <2>2. AttemptsBounded' /\ LoopsConsistent'
      BY <1>4 DEF Start, Stop, AttemptsBounded, LoopsConsistent, loopVars
    <2>3. QED
      BY <2>1, <2>2
  <1>5. ASSUME NEW w \in Worker, Crash(w) PROVE AttemptsInv'
    <2>1. TypeOK'
      BY <1>5, NumbersAssumption DEF Crash, TypeOK
    <2>2. AttemptsBounded' /\ LoopsConsistent'
      BY <1>5 DEF Crash, AttemptsBounded, LoopsConsistent, TypeOK
    <2>3. QED
      BY <2>1, <2>2
  <1>6. ASSUME NEW l \in Loop, Claim(l) PROVE AttemptsInv'
    <2>1. PICK S \in Selections :
            /\ jobs' = [j \in Job |-> IF j \in S THEN Leased(jobs[j], OwnerOf[l]) ELSE jobs[j]]
            /\ batch' = [batch EXCEPT ![l] = S]
            /\ snap' = [snap EXCEPT ![l] = [j \in Job |-> IF j \in S THEN jobs[j].attempts ELSE 0]]
            /\ lease' = [lease EXCEPT ![l] = LeaseTicks]
      BY <1>6 DEF Claim
    <2>2. S \subseteq Job /\ \A j \in S : Ready(j)
      BY <2>1 DEF Selections
    <2>3. \A j \in S : jobs[j] \in Row /\ jobs[j].attempts < MaxAttempts
      BY <2>2 DEF Ready, AttemptsBounded, TypeOK
    <2>4. OwnerOf[l] \in Worker
      BY StructureAssumption
    <2>5. TypeOK'
      <3>1. jobs' \in [Job -> Row]
        BY <2>1, <2>2, <2>4, LeasedType DEF TypeOK
      <3>2. snap' \in [Loop -> [Job -> 0..MaxAttempts]]
        BY <2>1, <2>3, NumbersAssumption DEF TypeOK, Row
      <3>3. QED
        BY <1>6, <2>1, <2>2, <3>1, <3>2, NumbersAssumption DEF Claim, TypeOK
    <2>6. AttemptsBounded'
      BY <2>1, <2>2, <2>3, <2>4, LeasedType DEF AttemptsBounded, TypeOK
    <2>7. LoopsConsistent'
      BY <1>6, <2>1, <2>2, <2>3 DEF Claim, LoopsConsistent, TypeOK
    <2>8. QED
      BY <2>5, <2>6, <2>7
  <1>7. ASSUME NEW l \in Loop, NEW j \in Job, Begin(l, j) PROVE AttemptsInv'
    <2>1. TypeOK'
      BY <1>7 DEF Begin, TypeOK
    <2>2. AttemptsBounded' /\ LoopsConsistent'
      BY <1>7, StructureAssumption DEF Begin, AttemptsBounded, LoopsConsistent, TypeOK
    <2>3. QED
      BY <2>1, <2>2
  <1>8. ASSUME NEW l \in Loop, NEW result \in {"ok", "failed"}, Finish(l, result)
        PROVE  AttemptsInv'
    <2>1. TypeOK'
      BY <1>8 DEF Finish, TypeOK
    <2>2. AttemptsBounded' /\ LoopsConsistent'
      BY <1>8 DEF Finish, AttemptsBounded, LoopsConsistent, TypeOK
    <2>3. QED
      BY <2>1, <2>2
  <1>9. ASSUME NEW l \in Loop, Settle(l) PROVE AttemptsInv'
    <2> DEFINE j == cur[l]
               row == Result(outcome[l], snap[l][j] + 1, age[l])
    <2>1. j \in batch[l] /\ j \in Job
      BY <1>9 DEF Settle, LoopsConsistent, TypeOK
    <2>2. /\ snap[l][j] + 1 \in 1..MaxAttempts
          /\ age[l] \in Nat
          /\ outcome[l] \in {"ok", "failed"}
      BY <1>9, <2>1, NumbersAssumption DEF Settle, LoopsConsistent, TypeOK
    <2>3. /\ row \in Row
          /\ row.attempts = snap[l][j] + 1
          /\ row.status \in {"COMPLETED", "DEAD_LETTER", "QUEUED"}
          /\ row.status = "QUEUED" => row.attempts < MaxAttempts
          /\ row.status = "DEAD_LETTER" => row.attempts = MaxAttempts
      BY <2>2, ResultType
    <2>4. jobs' = IF Owns(l, j) THEN [jobs EXCEPT ![j] = row] ELSE jobs
      BY <1>9 DEF Settle
    <2>5. TypeOK'
      <3>1. jobs' \in [Job -> Row]
        BY <2>1, <2>3, <2>4 DEF TypeOK
      <3>2. QED
        BY <1>9, <2>1, <3>1, NumbersAssumption DEF Settle, TypeOK
    <2>6. AttemptsBounded'
      <3> SUFFICES ASSUME NEW k \in Job
                   PROVE  /\ jobs'[k].status \in {"QUEUED", "RUNNING"} => jobs'[k].attempts < MaxAttempts
                          /\ jobs'[k].status = "COMPLETED" => jobs'[k].attempts > 0
                          /\ jobs'[k].status = "DEAD_LETTER" => jobs'[k].attempts = MaxAttempts
        BY DEF AttemptsBounded
      <3>1. CASE k = j /\ Owns(l, j)
        <4>1. jobs'[k] = row
          BY <2>1, <2>4, <3>1 DEF TypeOK
        <4>2. QED
          BY <4>1, <2>2, <2>3
      <3>2. CASE ~(k = j /\ Owns(l, j))
        <4>1. jobs'[k] = jobs[k]
          BY <2>4, <3>2 DEF TypeOK
        <4>2. QED
          BY <4>1 DEF AttemptsBounded
      <3>3. QED
        BY <3>1, <3>2
    <2>7. LoopsConsistent'
      BY <1>9, <2>1 DEF Settle, LoopsConsistent, TypeOK
    <2>8. QED
      BY <2>5, <2>6, <2>7
  <1>10. ASSUME NEW l \in Loop, LoopError(l) PROVE AttemptsInv'
    <2>1. TypeOK'
      BY <1>10, NumbersAssumption DEF LoopError, TypeOK
    <2>2. AttemptsBounded' /\ LoopsConsistent'
      BY <1>10 DEF LoopError, AttemptsBounded, LoopsConsistent, TypeOK
    <2>3. QED
      BY <2>1, <2>2
  <1>11. CASE Tick
    <2>1. \A j \in Job : /\ jobs'[j] \in Row
                         /\ jobs'[j].status = jobs[j].status
                         /\ jobs'[j].attempts = jobs[j].attempts
      BY <1>11, AgedType DEF Tick, TypeOK
    <2>2. TypeOK'
      <3>1. jobs' \in [Job -> Row]
        BY <1>11, <2>1 DEF Tick
      <3>2. lease' \in [Loop -> 0..LeaseTicks] /\ age' \in [Loop -> Nat]
        BY <1>11, NumbersAssumption DEF Tick, TypeOK, Left
      <3>3. QED
        BY <1>11, <3>1, <3>2 DEF Tick, TypeOK
    <2>3. AttemptsBounded'
      BY <2>1 DEF AttemptsBounded
    <2>4. LoopsConsistent'
      BY <1>11 DEF Tick, LoopsConsistent
    <2>5. QED
      BY <2>2, <2>3, <2>4
  <1>12. CASE UNCHANGED vars
    BY <1>12 DEF vars, loopVars, TypeOK, AttemptsBounded, LoopsConsistent
  <1>13. QED
    BY <1>1, <1>2, <1>3, <1>4, <1>5, <1>6, <1>7, <1>8, <1>9, <1>10, <1>11, <1>12
       DEF Next, ClientStep, ProcessStep, LoopStep

LEMMA AttemptsAlways == Spec => []AttemptsInv
  BY AttemptsInit, AttemptsStep, PTL DEF Spec

\* Every variable keeps its type: no number of failures, late results or repeated
\* claims gives a row more attempts than max_attempts or a negative delay.
THEOREM TypeCorrect == Spec => []TypeOK
  BY AttemptsAlways, PTL DEF AttemptsInv

\* A job that can still run has an attempt left, and only a job whose attempts
\* are used up is in the dead letter, even when workers settle stale snapshots.
THEOREM AttemptsAreBounded == Spec => []AttemptsBounded
  BY AttemptsAlways, PTL DEF AttemptsInv

-------------------------------------------------------------------------------
(* One activity per workerId *)

SettleInv == AttemptsInv /\ SettlesFromCurrentRow

\* A claim snapshots the rows it takes; any other holder of one of them loses it,
\* since the claimant has another name.
LEMMA ClaimKeepsSettle ==
  ASSUME SoleActivity, SettleInv, NEW l \in Loop, Claim(l)
  PROVE  SettlesFromCurrentRow'
  <1>1. PICK S \in Selections :
          /\ jobs' = [j \in Job |-> IF j \in S THEN Leased(jobs[j], OwnerOf[l]) ELSE jobs[j]]
          /\ batch' = [batch EXCEPT ![l] = S]
          /\ snap' = [snap EXCEPT ![l] = [j \in Job |-> IF j \in S THEN jobs[j].attempts ELSE 0]]
    BY DEF Claim
  <1>2. S \subseteq Job
    BY <1>1 DEF Selections
  <1>3. SUFFICES ASSUME NEW m \in Loop, NEW j \in batch'[m], Owns(m, j)'
                 PROVE  snap'[m][j] = jobs'[j].attempts
    BY DEF SettlesFromCurrentRow
  <1>4. j \in Job
    BY <1>1, <1>2, <1>3 DEF SettleInv, AttemptsInv, TypeOK
  <1>5. CASE m = l
    <2>1. j \in S
      BY <1>1, <1>3, <1>5 DEF SettleInv, AttemptsInv, TypeOK
    <2>2. jobs'[j].attempts = jobs[j].attempts
      BY <1>1, <1>4, <2>1 DEF Leased
    <2>3. snap'[m][j] = jobs[j].attempts
      BY <1>1, <1>4, <1>5, <2>1 DEF SettleInv, AttemptsInv, TypeOK
    <2>4. QED
      BY <2>2, <2>3
  <1>6. CASE m # l
    <2>1. j \in batch[m] /\ snap'[m] = snap[m]
      BY <1>1, <1>3, <1>6 DEF SettleInv, AttemptsInv, TypeOK
    <2>2. j \notin S
      BY <1>1, <1>3, <1>4, <1>6 DEF Owns, Leased, SoleActivity
    <2>3. jobs'[j] = jobs[j]
      BY <1>1, <1>4, <2>2
    <2>4. QED
      BY <1>3, <2>1, <2>3 DEF Owns, SettleInv, SettlesFromCurrentRow
  <1>7. QED
    BY <1>5, <1>6

LEMMA SettleInvStep ==
  ASSUME SoleActivity
  PROVE  SettleInv /\ [Next]_vars => SettleInv'
  <1> SUFFICES ASSUME SettleInv, [Next]_vars PROVE SettlesFromCurrentRow'
    BY AttemptsStep DEF SettleInv
  <1> USE DEF SettleInv, AttemptsInv
  <1>1. ASSUME NEW c \in Client, ClientStep(c) PROVE SettlesFromCurrentRow'
    <2>1. batch' = batch /\ snap' = snap
      BY <1>1 DEF ClientStep, EnqueueGet, EnqueuePut, EnqueueAbort, loopVars
    <2>2. \A k \in Job : jobs'[k] = jobs[k] \/ jobs'[k].status # "RUNNING"
      <3>1. Fresh.status # "RUNNING"
        BY DEF Fresh, Unleased
      <3>2. jobs' = jobs \/ jobs' = [jobs EXCEPT ![asked[c]] = Fresh]
        BY <1>1 DEF ClientStep, EnqueueGet, EnqueuePut, EnqueueAbort
      <3>3. QED
        BY <3>1, <3>2 DEF TypeOK
    <2>3. SUFFICES ASSUME NEW m \in Loop, NEW k \in batch[m], Owns(m, k)'
                   PROVE  snap[m][k] = jobs'[k].attempts
      BY <2>1 DEF SettlesFromCurrentRow
    <2>4. k \in Job
      BY DEF TypeOK
    <2>5. jobs'[k] = jobs[k]
      BY <2>2, <2>3, <2>4 DEF Owns
    <2>6. QED
      BY <2>3, <2>5 DEF SettlesFromCurrentRow, Owns
  <1>2. ASSUME NEW w \in Worker, Start(w) \/ Stop(w) PROVE SettlesFromCurrentRow'
    BY <1>2 DEF Start, Stop, loopVars, SettlesFromCurrentRow, Owns
  <1>3. ASSUME NEW w \in Worker, Crash(w) PROVE SettlesFromCurrentRow'
    BY <1>3 DEF Crash, SettlesFromCurrentRow, Owns
  <1>4. ASSUME NEW l \in Loop, Claim(l) PROVE SettlesFromCurrentRow'
    BY <1>4, ClaimKeepsSettle
  <1>5. ASSUME NEW l \in Loop, NEW j \in Job, Begin(l, j) PROVE SettlesFromCurrentRow'
    BY <1>5 DEF Begin, SettlesFromCurrentRow, Owns
  <1>6. ASSUME NEW l \in Loop, NEW result \in {"ok", "failed"}, Finish(l, result)
        PROVE  SettlesFromCurrentRow'
    BY <1>6 DEF Finish, SettlesFromCurrentRow, Owns
  <1>7. ASSUME NEW l \in Loop, Settle(l) PROVE SettlesFromCurrentRow'
    <2> DEFINE row == Result(outcome[l], snap[l][cur[l]] + 1, age[l])
    <2>1. cur[l] \in batch[l] /\ cur[l] \in Job
      BY <1>7 DEF Settle, LoopsConsistent, TypeOK
    <2>2. row.status # "RUNNING"
      BY <1>7 DEF Result, Unleased
    <2>3. \A k \in Job : jobs'[k] = jobs[k] \/ (k = cur[l] /\ jobs'[k] = row)
      BY <1>7 DEF Settle, TypeOK
    <2>4. SUFFICES ASSUME NEW m \in Loop, NEW k \in batch'[m], Owns(m, k)'
                   PROVE  snap'[m][k] = jobs'[k].attempts
      BY DEF SettlesFromCurrentRow
    <2>5. k \in batch[m] /\ k \in Job /\ (m = l => k # cur[l])
      BY <1>7, <2>4 DEF Settle, TypeOK
    <2>6. jobs'[k] = jobs[k]
      BY <2>2, <2>3, <2>4, <2>5 DEF Owns
    <2>7. snap'[m][k] = snap[m][k]
      BY <1>7, <2>1, <2>5 DEF Settle, TypeOK
    <2>8. QED
      BY <2>4, <2>5, <2>6, <2>7 DEF Owns, SettlesFromCurrentRow
  <1>8. ASSUME NEW l \in Loop, LoopError(l) PROVE SettlesFromCurrentRow'
    BY <1>8 DEF LoopError, SettlesFromCurrentRow, Owns, TypeOK
  <1>9. CASE Tick
    <2>1. \A j \in Job : jobs'[j] = Aged(jobs[j])
      BY <1>9 DEF Tick
    <2>2. QED
      BY <1>9, <2>1, AgedType DEF Tick, SettlesFromCurrentRow, Owns, TypeOK
  <1>10. CASE UNCHANGED vars
    BY <1>10 DEF vars, loopVars, SettlesFromCurrentRow, Owns
  <1>11. QED
    BY <1>1, <1>2, <1>3, <1>4, <1>5, <1>6, <1>7, <1>8, <1>9, <1>10
       DEF Next, ProcessStep, LoopStep

\* Where each process runs one activity, a result that resolveLease accepts was
\* computed from the attempt count the row still has: no counted attempt is lost.
THEOREM AcceptedResultsAreCurrent ==
  ASSUME SoleActivity
  PROVE  Spec => []SettlesFromCurrentRow
  <1>1. Init => SettleInv
    BY AttemptsInit DEF Init, SettleInv, SettlesFromCurrentRow
  <1>2. SettleInv /\ [Next]_vars => SettleInv'
    BY SettleInvStep
  <1>3. QED
    BY <1>1, <1>2, PTL DEF Spec, SettleInv

-------------------------------------------------------------------------------
(* Settled rows, whoever shares keys and owner names *)

\* What a step does to a row: it leaves it alone, or inserts it, or claims it when
\* it is ready, or settles it for the owner of its lease, or lets it age.
RowStep(j) ==
  \/ jobs'[j] = jobs[j]
  \/ jobs[j].status = "ABSENT" /\ jobs'[j] = Fresh
  \/ \E w \in Worker : Ready(j) /\ jobs'[j] = Leased(jobs[j], w)
  \/ \E l \in Loop, attempt \in 1..MaxAttempts, elapsed \in Nat, result \in {"ok", "failed"} :
       jobs[j].status = "RUNNING" /\ jobs'[j] = Result(result, attempt, elapsed)
  \/ jobs'[j] = Aged(jobs[j])

\* Only a put does anything else.
LEMMA OtherRowSteps ==
  ASSUME AttemptsInv, Next
  PROVE  (\E c \in Client : EnqueuePut(c)) \/ (\A j \in Job : RowStep(j))
  <1> USE DEF AttemptsInv
  <1>1. ASSUME NEW l \in Loop, Claim(l) PROVE \A j \in Job : RowStep(j)
    <2>1. OwnerOf[l] \in Worker
      BY StructureAssumption
    <2>2. PICK S \in Selections :
            jobs' = [j \in Job |-> IF j \in S THEN Leased(jobs[j], OwnerOf[l]) ELSE jobs[j]]
      BY <1>1 DEF Claim
    <2>3. \A j \in S : Ready(j)
      BY <2>2 DEF Selections
    <2>4. QED
      BY <2>1, <2>2, <2>3 DEF RowStep
  <1>2. ASSUME NEW l \in Loop, Settle(l) PROVE \A j \in Job : RowStep(j)
    <2>1. cur[l] \in batch[l] /\ cur[l] \in Job
      BY <1>2 DEF Settle, LoopsConsistent, TypeOK
    <2>2. /\ snap[l][cur[l]] + 1 \in 1..MaxAttempts
          /\ age[l] \in Nat
          /\ outcome[l] \in {"ok", "failed"}
      BY <1>2, <2>1, NumbersAssumption DEF Settle, LoopsConsistent, TypeOK
    <2>3. \A j \in Job :
            \/ jobs'[j] = jobs[j]
            \/ /\ j = cur[l]
               /\ jobs[j].status = "RUNNING"
               /\ jobs'[j] = Result(outcome[l], snap[l][cur[l]] + 1, age[l])
      BY <1>2 DEF Settle, Owns, TypeOK
    <2>4. QED
      BY <2>2, <2>3 DEF RowStep
  <1>3. CASE Tick
    BY <1>3 DEF Tick, RowStep
  <1>4. CASE jobs' = jobs
    BY <1>4 DEF RowStep
  <1>5. Next => \/ jobs' = jobs
                \/ \E c \in Client : EnqueuePut(c)
                \/ \E l \in Loop : Claim(l) \/ Settle(l)
                \/ Tick
    BY DEF Next, ClientStep, ProcessStep, LoopStep, EnqueueGet, EnqueueAbort,
           Start, Stop, Crash, Begin, Finish, LoopError
  <1>6. QED
    BY <1>1, <1>2, <1>3, <1>4, <1>5

\* A settled row waits for nothing and holds no lease.
SettledAtRest ==
  \A j \in Job : jobs[j].status \in Terminal => jobs[j].wait = 0 /\ jobs[j].lease = 0

RestInv == AttemptsInv /\ SettledAtRest

LEMMA RestStep == RestInv /\ [Next]_vars => RestInv'
  <1> SUFFICES ASSUME RestInv, [Next]_vars PROVE SettledAtRest'
    BY AttemptsStep DEF RestInv
  <1> USE DEF RestInv
  <1>1. CASE UNCHANGED vars
    BY <1>1 DEF vars, SettledAtRest
  <1>2. CASE \E c \in Client : EnqueuePut(c)
    BY <1>2 DEF EnqueuePut, SettledAtRest, Fresh, Unleased, Terminal, AttemptsInv, TypeOK
  <1>3. CASE \A j \in Job : RowStep(j)
    <2> SUFFICES ASSUME NEW j \in Job, jobs'[j].status \in Terminal
                 PROVE  jobs'[j].wait = 0 /\ jobs'[j].lease = 0
      BY DEF SettledAtRest
    <2>1. RowStep(j) /\ jobs[j] \in Row
      BY <1>3 DEF AttemptsInv, TypeOK
    <2>2. CASE jobs'[j] = jobs[j]
      BY <2>2 DEF SettledAtRest
    <2>3. CASE jobs'[j] = Fresh
      BY <2>3 DEF Fresh, Unleased
    <2>4. CASE \E w \in Worker : jobs'[j] = Leased(jobs[j], w)
      BY <2>4 DEF Leased, Terminal
    <2>5. CASE \E attempt \in 1..MaxAttempts, elapsed \in Nat, result \in {"ok", "failed"} :
                 jobs'[j] = Result(result, attempt, elapsed)
      BY <2>5 DEF Result, Unleased, Terminal
    <2>6. CASE jobs'[j] = Aged(jobs[j])
      <3>1. jobs[j].wait = 0 /\ jobs[j].lease = 0
        BY <2>6 DEF SettledAtRest, Aged
      <3>2. QED
        BY <2>6, <3>1 DEF Aged, Left
    <2>7. QED
      BY <2>1, <2>2, <2>3, <2>4, <2>5, <2>6 DEF RowStep
  <1>4. QED
    BY <1>1, <1>2, <1>3, OtherRowSteps

LEMMA RestAlways == Spec => []RestInv
  <1>1. Init => RestInv
    BY AttemptsInit DEF Init, RestInv, SettledAtRest, Absent, Unleased
  <1>2. QED
    BY <1>1, RestStep, PTL DEF Spec

\* A settled row is left as it is by every step on rows but a put.
LEMMA SettledRowStays ==
  ASSUME RestInv, NEW j \in Job, RowStep(j), jobs[j].status \in Terminal
  PROVE  jobs'[j] = jobs[j]
  <1>1. jobs[j] \in Row /\ jobs[j].wait = 0 /\ jobs[j].lease = 0
    BY DEF RestInv, AttemptsInv, TypeOK, SettledAtRest
  <1>2. jobs[j].status \notin {"ABSENT", "RUNNING", "QUEUED"}
    BY DEF Terminal
  <1>3. Aged(jobs[j]) = jobs[j]
    BY <1>1 DEF Aged, Left, Row
  <1>4. QED
    BY <1>2, <1>3 DEF RowStep, Ready

\* Whatever producers share a key and whatever activities share an owner name, a
\* settled job is reopened by nothing but the put of an enqueue that read the row
\* before another producer had put it.
THEOREM OnlyRacingPutsReopen == Spec => OnlyRacingPutReopens
  <1>1. RestInv /\ [Next]_vars
          => [\A j \in Job : jobs[j].status \in Terminal /\ jobs'[j] # jobs[j]
                => jobs'[j] = Fresh /\ \E c \in Client : asked[c] = j /\ asked'[c] = NoJob]_vars
    <2> SUFFICES ASSUME RestInv, Next, NEW j \in Job, jobs[j].status \in Terminal,
                        jobs'[j] # jobs[j]
                 PROVE  jobs'[j] = Fresh /\ \E c \in Client : asked[c] = j /\ asked'[c] = NoJob
      OBVIOUS
    <2>1. ~RowStep(j)
      BY SettledRowStays
    <2>2. PICK c \in Client : EnqueuePut(c)
      BY <2>1, OtherRowSteps DEF RestInv
    <2>3. jobs \in [Job -> Row] /\ asked \in [Client -> Job \cup {NoJob}]
      BY DEF RestInv, AttemptsInv, TypeOK
    <2>4. asked[c] = j
      BY <2>2, <2>3 DEF EnqueuePut
    <2>5. QED
      BY <2>2, <2>3, <2>4 DEF EnqueuePut
  <1>2. QED
    BY <1>1, RestAlways, PTL DEF Spec, OnlyRacingPutReopens

-------------------------------------------------------------------------------
(* One producer per idempotency key *)

\* The row a producer found absent is still absent when its put arrives.
AskedAbsent ==
  \A c \in Client :
    asked[c] # NoJob => asked[c] \in Keys[c] /\ jobs[asked[c]].status = "ABSENT"

\* A job nobody accepted has no attempts.
AbsentUntouched == \A j \in Job : jobs[j].status = "ABSENT" => jobs[j].attempts = 0

ProducerInv == AttemptsInv /\ AskedAbsent /\ SettledAtRest /\ AbsentUntouched

\* With one producer per key, a put inserts what is absent.
LEMMA RowSteps ==
  ASSUME AttemptsInv, AskedAbsent, Next
  PROVE  \A j \in Job : RowStep(j)
  <1>1. ASSUME NEW c \in Client, EnqueuePut(c) PROVE \A j \in Job : RowStep(j)
    BY <1>1 DEF EnqueuePut, AskedAbsent, RowStep, AttemptsInv, TypeOK
  <1>2. QED
    BY <1>1, OtherRowSteps


LEMMA ProducerInvStep ==
  ASSUME DistinctProducers
  PROVE  ProducerInv /\ [Next]_vars => ProducerInv'
  <1> SUFFICES ASSUME ProducerInv, [Next]_vars
               PROVE  AskedAbsent' /\ SettledAtRest' /\ AbsentUntouched'
    BY AttemptsStep DEF ProducerInv
  <1> USE DEF ProducerInv
  <1>1. CASE UNCHANGED vars
    BY <1>1 DEF vars, AskedAbsent, SettledAtRest, AbsentUntouched
  <1>2. CASE Next
    <2>1. \A j \in Job : RowStep(j)
      BY <1>2, RowSteps
    <2>2. SettledAtRest'
      BY RestStep DEF RestInv
    <2>3. AskedAbsent'
      <3> SUFFICES ASSUME NEW c \in Client, asked'[c] # NoJob
                   PROVE  asked'[c] \in Keys[c] /\ jobs'[asked'[c]].status = "ABSENT"
        BY DEF AskedAbsent
      <3>1. CASE \E d \in Client, j \in Job : EnqueueGet(d, j)
        BY <3>1 DEF EnqueueGet, AskedAbsent, AttemptsInv, TypeOK
      <3>2. CASE \E d \in Client : EnqueuePut(d)
        <4>1. PICK d \in Client : EnqueuePut(d)
          BY <3>2
        <4>2. c # d /\ asked'[c] = asked[c]
          BY <4>1 DEF EnqueuePut, AttemptsInv, TypeOK
        <4>3. asked[c] # asked[d]
          BY <4>1, <4>2 DEF EnqueuePut, AskedAbsent, DistinctProducers
        <4>4. QED
          BY <4>1, <4>2, <4>3 DEF EnqueuePut, AskedAbsent, AttemptsInv, TypeOK
      <3>3. CASE \E d \in Client : EnqueueAbort(d)
        BY <3>3 DEF EnqueueAbort, AskedAbsent, AttemptsInv, TypeOK
      <3>4. CASE /\ asked' = asked
                 /\ \A j \in Job : jobs[j].status = "ABSENT" => jobs'[j].status = "ABSENT"
        BY <3>4 DEF AskedAbsent, AttemptsInv, TypeOK
      <3>5. ASSUME NEW l \in Loop, Claim(l)
            PROVE  \A j \in Job : jobs[j].status = "ABSENT" => jobs'[j].status = "ABSENT"
        BY <3>5 DEF Claim, Selections, Ready
      <3>6. ASSUME NEW l \in Loop, Settle(l)
            PROVE  \A j \in Job : jobs[j].status = "ABSENT" => jobs'[j].status = "ABSENT"
        BY <3>6 DEF Settle, Owns, AttemptsInv, TypeOK
      <3>7. ASSUME Tick
            PROVE  \A j \in Job : jobs[j].status = "ABSENT" => jobs'[j].status = "ABSENT"
        BY <3>7 DEF Tick, Aged
      <3>8. Next => \/ \E d \in Client : (\E j \in Job : EnqueueGet(d, j))
                                           \/ EnqueuePut(d) \/ EnqueueAbort(d)
                    \/ asked' = asked /\ (\/ jobs' = jobs
                                          \/ \E l \in Loop : Claim(l) \/ Settle(l)
                                          \/ Tick)
        BY DEF Next, ClientStep, ProcessStep, LoopStep, Start, Stop, Crash, Claim,
               Begin, Finish, Settle, LoopError, Tick
      <3>9. QED
        BY <1>2, <3>1, <3>2, <3>3, <3>4, <3>5, <3>6, <3>7, <3>8
    <2>4. AbsentUntouched'
      <3> SUFFICES ASSUME NEW j \in Job, jobs'[j].status = "ABSENT"
                   PROVE  jobs'[j].attempts = 0
        BY DEF AbsentUntouched
      <3>1. jobs'[j] = jobs[j] \/ jobs'[j] = Aged(jobs[j])
        <4>1. /\ jobs'[j] # Fresh
              /\ \A w \in Worker : jobs'[j] # Leased(jobs[j], w)
          BY DEF Fresh, Leased, Unleased
        <4>2. \A attempt \in 1..MaxAttempts, elapsed \in Nat, result \in {"ok", "failed"} :
                jobs'[j] # Result(result, attempt, elapsed)
          BY DEF Result, Unleased
        <4>3. QED
          BY <2>1, <4>1, <4>2 DEF RowStep
      <3>2. jobs'[j].status = jobs[j].status /\ jobs'[j].attempts = jobs[j].attempts
        BY <3>1 DEF Aged
      <3>3. QED
        BY <3>2 DEF AbsentUntouched
    <2>5. QED
      BY <2>2, <2>3, <2>4
  <1>3. QED
    BY <1>1, <1>2

LEMMA ProducerAlways ==
  ASSUME DistinctProducers
  PROVE  Spec => []ProducerInv
  <1>1. Init => ProducerInv
    BY AttemptsInit DEF Init, ProducerInv, AskedAbsent, SettledAtRest, AbsentUntouched,
                     Absent, Unleased
  <1>2. ProducerInv /\ [Next]_vars => ProducerInv'
    BY ProducerInvStep
  <1>3. QED
    BY <1>1, <1>2, PTL DEF Spec

\* With one producer per idempotency key, nothing reopens a settled job: neither
\* a late result of a worker that lost its lease, nor an expired lease, nor a
\* repeated enqueue of the key.
THEOREM SettledJobsStaySettled ==
  ASSUME DistinctProducers
  PROVE  Spec => TerminalIsFinal
  <1>1. ProducerInv /\ [Next]_vars
          => [\A j \in Job : jobs[j].status \in Terminal => jobs'[j] = jobs[j]]_vars
    <2> SUFFICES ASSUME ProducerInv, Next, NEW j \in Job, jobs[j].status \in Terminal
                 PROVE  jobs'[j] = jobs[j]
      OBVIOUS
    <2>1. RowStep(j)
      BY RowSteps DEF ProducerInv
    <2>2. QED
      BY <2>1, SettledRowStays DEF RestInv, ProducerInv
  <1>2. QED
    BY <1>1, ProducerAlways, PTL DEF Spec, TerminalIsFinal

-------------------------------------------------------------------------------
(* Leases *)

LeaseInv == ProducerInv /\ LiveLeaseIsHeld

LEMMA LeaseInvStep ==
  ASSUME SoleActivity, DistinctProducers
  PROVE  LeaseInv /\ [Next]_vars => LeaseInv'
  <1> SUFFICES ASSUME LeaseInv, [Next]_vars PROVE LiveLeaseIsHeld'
    BY ProducerInvStep DEF LeaseInv
  <1> USE DEF LeaseInv, ProducerInv, AttemptsInv
  <1>0. SUFFICES ASSUME NEW m \in Loop, NEW k \in batch'[m], lease'[m] > 0
                 PROVE  /\ jobs'[k].status = "RUNNING"
                        /\ jobs'[k].owner = OwnerOf[m]
                        /\ jobs'[k].lease = lease'[m]
    BY DEF LiveLeaseIsHeld, Owns
  \* What holds of a pair the step leaves alone.
  <1>1. ASSUME k \in batch[m], lease'[m] = lease[m]
        PROVE  /\ k \in Job
               /\ jobs[k].status = "RUNNING"
               /\ jobs[k].owner = OwnerOf[m]
               /\ jobs[k].lease = lease'[m]
    BY <1>0, <1>1 DEF LiveLeaseIsHeld, Owns, TypeOK
  <1>2. CASE batch' = batch /\ lease' = lease /\ jobs' = jobs
    BY <1>0, <1>1, <1>2
  <1>3. ASSUME NEW c \in Client, EnqueuePut(c)
        PROVE  /\ jobs'[k].status = "RUNNING"
               /\ jobs'[k].owner = OwnerOf[m]
               /\ jobs'[k].lease = lease'[m]
    <2>1. batch' = batch /\ lease' = lease
      BY <1>3 DEF EnqueuePut, loopVars
    <2>2. k # asked[c]
      BY <1>0, <1>1, <1>3, <2>1 DEF EnqueuePut, AskedAbsent
    <2>3. jobs'[k] = jobs[k]
      BY <1>0, <1>1, <1>3, <2>1, <2>2 DEF EnqueuePut, TypeOK
    <2>4. QED
      BY <1>0, <1>1, <2>1, <2>3
  <1>4. ASSUME NEW w \in Worker, Crash(w)
        PROVE  k \in batch[m] /\ lease'[m] = lease[m] /\ jobs' = jobs
    BY <1>0, <1>4 DEF Crash
  <1>5. ASSUME NEW l \in Loop, Claim(l)
        PROVE  /\ jobs'[k].status = "RUNNING"
               /\ jobs'[k].owner = OwnerOf[m]
               /\ jobs'[k].lease = lease'[m]
    <2>1. PICK S \in Selections :
            /\ jobs' = [j \in Job |-> IF j \in S THEN Leased(jobs[j], OwnerOf[l]) ELSE jobs[j]]
            /\ batch' = [batch EXCEPT ![l] = S]
            /\ lease' = [lease EXCEPT ![l] = LeaseTicks]
      BY <1>5 DEF Claim
    <2>2. S \subseteq Job /\ \A j \in S : Ready(j)
      BY <2>1 DEF Selections
    <2>3. CASE m = l
      <3>1. k \in S /\ lease'[m] = LeaseTicks
        BY <1>0, <2>1, <2>3 DEF TypeOK
      <3>2. jobs'[k] = Leased(jobs[k], OwnerOf[l])
        BY <2>1, <2>2, <3>1
      <3>3. QED
        BY <2>3, <3>1, <3>2 DEF Leased
    <2>4. CASE m # l
      <3>1. k \in batch[m] /\ lease'[m] = lease[m]
        BY <1>0, <2>1, <2>4 DEF TypeOK
      <3>2. k \notin S
        BY <1>0, <1>1, <2>2, <3>1 DEF Ready
      <3>3. jobs'[k] = jobs[k]
        BY <1>1, <2>1, <3>1, <3>2
      <3>4. QED
        BY <1>1, <3>1, <3>3
    <2>5. QED
      BY <2>3, <2>4
  <1>6. ASSUME NEW l \in Loop, Settle(l)
        PROVE  /\ jobs'[k].status = "RUNNING"
               /\ jobs'[k].owner = OwnerOf[m]
               /\ jobs'[k].lease = lease'[m]
    <2>1. k \in batch[m] /\ (m = l => k # cur[l])
      BY <1>0, <1>6 DEF Settle, TypeOK
    <2>2. lease'[m] = lease[m]
      BY <1>0, <1>6 DEF Settle, TypeOK
    <2>3. jobs'[k] = jobs[k]
      <3>1. k # cur[l] \/ ~Owns(l, k)
        BY <1>1, <2>1, <2>2 DEF Owns, SoleActivity
      <3>2. k \in Job
        BY <1>1, <2>1, <2>2
      <3>3. QED
        BY <1>6, <3>1, <3>2 DEF Settle, TypeOK
    <2>4. QED
      BY <1>1, <2>1, <2>2, <2>3
  <1>7. ASSUME NEW l \in Loop, LoopError(l)
        PROVE  k \in batch[m] /\ lease'[m] = lease[m] /\ jobs' = jobs
    BY <1>0, <1>7 DEF LoopError, TypeOK
  <1>8. ASSUME Tick
        PROVE  /\ jobs'[k].status = "RUNNING"
               /\ jobs'[k].owner = OwnerOf[m]
               /\ jobs'[k].lease = lease'[m]
    <2>1. k \in batch[m] /\ k \in Job /\ lease'[m] = Left(lease[m], 1)
      BY <1>0, <1>8 DEF Tick, TypeOK
    <2>2. lease[m] > 0
      BY <1>0, <2>1, NumbersAssumption DEF Left, TypeOK
    <2>3. jobs[k].status = "RUNNING" /\ jobs[k].owner = OwnerOf[m] /\ jobs[k].lease = lease[m]
      BY <2>1, <2>2 DEF LiveLeaseIsHeld, Owns
    <2>4. jobs'[k] = Aged(jobs[k])
      BY <1>8, <2>1 DEF Tick
    <2>5. QED
      BY <2>1, <2>3, <2>4 DEF Aged
  <1>9. [Next]_vars =>
          \/ batch' = batch /\ lease' = lease /\ jobs' = jobs
          \/ \E c \in Client : EnqueuePut(c)
          \/ \E w \in Worker : Crash(w)
          \/ \E l \in Loop : Claim(l) \/ Settle(l) \/ LoopError(l)
          \/ Tick
    BY DEF Next, vars, loopVars, ClientStep, ProcessStep, LoopStep, EnqueueGet, EnqueueAbort,
           Start, Stop, Begin, Finish
  <1>10. QED
    BY <1>1, <1>2, <1>3, <1>4, <1>5, <1>6, <1>7, <1>8, <1>9

\* With one activity per workerId and one producer per key, a claimed job belongs
\* to its claimant until the lease ends: nobody else starts, settles or requeues it.
THEOREM LiveLeasesAreHeld ==
  ASSUME SoleActivity, DistinctProducers
  PROVE  Spec => []LiveLeaseIsHeld
  <1>1. Init => LiveLeaseIsHeld
    BY DEF Init, LiveLeaseIsHeld
  <1>2. Init => ProducerInv
    BY AttemptsInit DEF Init, ProducerInv, AskedAbsent, SettledAtRest, AbsentUntouched,
                     Absent, Unleased
  <1>3. LeaseInv /\ [Next]_vars => LeaseInv'
    BY LeaseInvStep
  <1>4. QED
    BY <1>1, <1>2, <1>3, PTL DEF Spec, LeaseInv

-------------------------------------------------------------------------------
(* The queue implements JobPromise *)

RefineInv == ProducerInv /\ SettlesFromCurrentRow

\* The abstract value of a row.
LEMMA PromiseOf ==
  ASSUME NEW j \in Job
  PROVE  /\ jobs[j].status = "ABSENT" => promiseOf[j] = "absent"
         /\ jobs[j].status = "COMPLETED" => promiseOf[j] = "completed"
         /\ jobs[j].status = "DEAD_LETTER" => promiseOf[j] = "deadLetter"
         /\ jobs[j].status \in {"QUEUED", "RUNNING"} => promiseOf[j] = "pending"
  BY DEF promiseOf

\* A step that changes no row's status class and no attempt count stutters.
LEMMA PromiseStutter ==
  ASSUME AttemptsInv, AttemptsInv',
         \A j \in Job : /\ jobs'[j].attempts = jobs[j].attempts
                        /\ \/ jobs'[j].status = jobs[j].status
                           \/ /\ jobs[j].status \in {"QUEUED", "RUNNING"}
                              /\ jobs'[j].status \in {"QUEUED", "RUNNING"}
  PROVE  UNCHANGED Promise!vars
  <1>1. promiseOf' = promiseOf
    BY DEF promiseOf
  <1>2. [j \in Job |-> jobs[j].attempts]' = [j \in Job |-> jobs[j].attempts]
    OBVIOUS
  <1>3. QED
    BY <1>1, <1>2 DEF Promise!vars

\* A step that touches one row, by how it touches it.
LEMMA PromiseStep ==
  ASSUME AttemptsInv, AttemptsInv', NEW j \in Job,
         \A k \in Job \ {j} : jobs'[k] = jobs[k],
         \/ /\ jobs[j].status = "ABSENT"
            /\ jobs'[j].status = "QUEUED"
            /\ jobs'[j].attempts = jobs[j].attempts
         \/ /\ jobs[j].status = "RUNNING"
            /\ jobs'[j].attempts = jobs[j].attempts + 1
            /\ \/ jobs'[j].status = "COMPLETED"
               \/ jobs'[j].status = "DEAD_LETTER" /\ jobs[j].attempts + 1 >= MaxAttempts
               \/ jobs'[j].status = "QUEUED" /\ ~(jobs[j].attempts + 1 >= MaxAttempts)
  PROVE  Promise!Next
  <1> DEFINE counted == [k \in Job |-> jobs[k].attempts]
  <1>1. promiseOf' = [promiseOf EXCEPT ![j] = promiseOf'[j]]
    BY DEF promiseOf
  <1>2. counted' = [counted EXCEPT ![j] = jobs'[j].attempts] /\ counted[j] = jobs[j].attempts
    OBVIOUS
  <1>3. /\ jobs'[j].status = "COMPLETED" => promiseOf'[j] = "completed"
        /\ jobs'[j].status = "DEAD_LETTER" => promiseOf'[j] = "deadLetter"
        /\ jobs'[j].status = "QUEUED" => promiseOf'[j] = "pending"
    BY DEF promiseOf
  <1>4. CASE jobs[j].status = "ABSENT"
    <2>1. Promise!Accept(j)
      <3>1. counted' = counted
        BY <1>2, <1>4
      <3>2. promiseOf[j] = "absent" /\ promiseOf'[j] = "pending"
        BY <1>3, <1>4, PromiseOf
      <3>3. QED
        BY <1>1, <3>1, <3>2 DEF Promise!Accept
    <2>2. QED
      BY <2>1 DEF Promise!Next
  <1>5. CASE jobs[j].status = "RUNNING"
    <2>1. promiseOf[j] = "pending" /\ counted' = [counted EXCEPT ![j] = counted[j] + 1]
      BY <1>2, <1>5, PromiseOf
    <2>2. CASE jobs'[j].status = "COMPLETED"
      <3>1. Promise!Complete(j)
        BY <1>1, <1>3, <2>1, <2>2 DEF Promise!Complete
      <3>2. QED
        BY <3>1 DEF Promise!Next
    <2>3. CASE jobs'[j].status \in {"DEAD_LETTER", "QUEUED"}
      <3>1. promiseOf'[j] = IF counted[j] + 1 >= MaxAttempts THEN "deadLetter" ELSE "pending"
        BY <1>2, <1>3, <1>5, <2>3
      <3>2. Promise!Fail(j)
        BY <1>1, <2>1, <3>1 DEF Promise!Fail
      <3>3. QED
        BY <3>2 DEF Promise!Next
    <2>4. QED
      BY <1>5, <2>2, <2>3
  <1>6. QED
    BY <1>4, <1>5

LEMMA PromiseSimulation ==
  ASSUME RefineInv, RefineInv', [Next]_vars
  PROVE  [Promise!Next]_(Promise!vars)
  <1> USE DEF RefineInv, ProducerInv
  <1>1. CASE jobs' = jobs
    BY <1>1, PromiseStutter
  <1>2. ASSUME NEW c \in Client, EnqueuePut(c) PROVE Promise!Next
    <2>1. asked[c] \in Job /\ jobs[asked[c]].status = "ABSENT"
      BY <1>2 DEF EnqueuePut, AskedAbsent, AttemptsInv, TypeOK
    <2>2. jobs'[asked[c]] = Fresh /\ \A k \in Job \ {asked[c]} : jobs'[k] = jobs[k]
      BY <1>2, <2>1 DEF EnqueuePut, AttemptsInv, TypeOK
    <2>3. jobs[asked[c]].attempts = 0
      BY <2>1 DEF AbsentUntouched, AttemptsInv
    <2>4. QED
      BY <2>1, <2>2, <2>3, PromiseStep DEF Fresh, Unleased
  <1>3. ASSUME NEW l \in Loop, Claim(l) PROVE UNCHANGED Promise!vars
    <2>1. \A j \in Job : \/ jobs'[j] = jobs[j]
                        \/ /\ jobs[j].status \in {"QUEUED", "RUNNING"}
                           /\ jobs'[j].status = "RUNNING"
                           /\ jobs'[j].attempts = jobs[j].attempts
      BY <1>3 DEF Claim, Selections, Ready, Leased
    <2>2. QED
      BY <2>1, PromiseStutter
  <1>4. ASSUME NEW l \in Loop, Settle(l), jobs' # jobs PROVE Promise!Next
    <2> DEFINE j == cur[l]
               row == Result(outcome[l], snap[l][j] + 1, age[l])
    <2>1. j \in batch[l] /\ j \in Job /\ snap[l][j] \in 0..MaxAttempts - 1
      BY <1>4, NumbersAssumption DEF Settle, LoopsConsistent, AttemptsInv, TypeOK
    <2>2. Owns(l, j) /\ jobs'[j] = row /\ \A k \in Job \ {j} : jobs'[k] = jobs[k]
      BY <1>4, <2>1 DEF Settle, AttemptsInv, TypeOK
    <2>3. jobs[j].status = "RUNNING" /\ snap[l][j] = jobs[j].attempts
      BY <2>1, <2>2 DEF Owns, SettlesFromCurrentRow
    <2>4. /\ row.attempts = jobs[j].attempts + 1
          /\ \/ row.status = "COMPLETED"
             \/ row.status = "DEAD_LETTER" /\ jobs[j].attempts + 1 >= MaxAttempts
             \/ row.status = "QUEUED" /\ ~(jobs[j].attempts + 1 >= MaxAttempts)
      BY <2>3 DEF Result, Unleased
    <2>5. QED
      BY <2>1, <2>2, <2>3, <2>4, PromiseStep
  <1>5. ASSUME Tick PROVE UNCHANGED Promise!vars
    <2>1. \A j \in Job : /\ jobs'[j].attempts = jobs[j].attempts
                         /\ jobs'[j].status = jobs[j].status
      BY <1>5 DEF Tick, Aged
    <2>2. QED
      BY <2>1, PromiseStutter
  <1>6. [Next]_vars => \/ jobs' = jobs
                       \/ \E c \in Client : EnqueuePut(c)
                       \/ \E l \in Loop : Claim(l) \/ Settle(l)
                       \/ Tick
    BY DEF Next, vars, ClientStep, ProcessStep, LoopStep, EnqueueGet, EnqueueAbort,
           Start, Stop, Crash, Begin, Finish, LoopError
  <1>7. QED
    BY <1>1, <1>2, <1>3, <1>4, <1>5, <1>6

\* With one activity per workerId and one producer per key, the queue implements
\* JobPromise: leases, crashes, expiry and late results change nothing but the
\* acceptance of a job, one counted attempt of one job, or the end of one job.
THEOREM QueueKeepsPromise ==
  ASSUME SoleActivity, DistinctProducers
  PROVE  Spec => KeepsPromise
  <1>1. Init => Promise!Init
    BY DEF Init, Promise!Init, promiseOf, Absent, Unleased
  <1>2. RefineInv /\ RefineInv' /\ [Next]_vars => [Promise!Next]_(Promise!vars)
    BY PromiseSimulation
  <1>3. Spec => []RefineInv
    BY ProducerAlways, AcceptedResultsAreCurrent, PTL DEF RefineInv
  <1>4. QED
    BY <1>1, <1>2, <1>3, PTL DEF Spec, KeepsPromise, Promise!Spec

===============================================================================
