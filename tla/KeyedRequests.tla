----------------------------- MODULE KeyedRequests -----------------------------
(***************************************************************************)
(* Requests with an idempotency key on one host that keeps the answers in  *)
(* a file (idempotency.ts).  A request whose key is recorded gets the      *)
(* recorded answer, one whose key is being worked on waits, and any other  *)
(* does its work and records it.                                           *)
(*                                                                         *)
(* The code between two awaits is one action.  The file is written beside  *)
(* and renamed; all writes use one temporary name, so that two writes at   *)
(* once share an inode, which may be renamed under the second.  An answer  *)
(* recorded in memory is given to whoever asks, whether the file has it or *)
(* not.  A request that uses a key again for another payload is refused    *)
(* and changes nothing; it is left out.                                    *)
(***************************************************************************)
EXTENDS Integers, FiniteSets

CONSTANTS
  Key,
  Request,   \* requests at one time; one that has its answer makes room for another
  NoOne,
  MaxFaults  \* bound: crashes, failed readings and failed writes together

ASSUME KeyedAssumption == Key # {} /\ NoOne \notin Request /\ MaxFaults \in Nat

VARIABLES
  loaded, records, inFlight,  \* the store in memory
  pc, key, early,             \* per request; early: it came while the file was being read
  file, tmp, at, snap,        \* the two names, the name a writer's inode has, what it writes
  acked, lost,       \* keys somebody has the answer of, and those a crash lost since
  unsaved,           \* keys worked for in this life of the process that no flush has written
  mishaps,           \* of this life: a flush that met a "flush" or the "reading", a "misreading"
  repeated, faults   \* repeated: a work was begun that should not have been

store == <<loaded, records, inFlight>>
disk == <<file, tmp, at, snap>>
ghosts == <<acked, lost, unsaved, mishaps, repeated>>
vars == <<store, pc, key, early, disk, ghosts, faults>>

Torn == [whole |-> FALSE, keys |-> {}]
Holding(keys) == [whole |-> TRUE, keys |-> keys]

Flushing == {r \in Request : pc[r] \in {"opened", "written"}}
Reading == {r \in Request : pc[r] = "reading"}

-------------------------------------------------------------------------------
(* execute *)

\* get() starts the reading for the first request; the others do not wait for it.
Arrive(r) ==
  /\ pc[r] = "idle"
  /\ \E k \in Key : key' = [key EXCEPT ![r] = k]
  /\ early' = [early EXCEPT ![r] = Reading # {}]
  /\ IF loaded
     THEN pc' = [pc EXCEPT ![r] = "found"] /\ UNCHANGED <<loaded, snap>>
     ELSE /\ loaded' = TRUE
          /\ pc' = [pc EXCEPT ![r] = "reading"]
          /\ snap' = [snap EXCEPT ![r] = file]
  /\ UNCHANGED <<records, inFlight, file, tmp, at, ghosts, faults>>

\* load(): a file that is missing or malformed is an empty store,
Read(r) ==
  /\ pc[r] = "reading"
  /\ \E seen \in {snap[r], file} : records' = records \cup seen.keys
  /\ pc' = [pc EXCEPT ![r] = "found"]
  /\ UNCHANGED <<loaded, inFlight, key, early, disk, ghosts, faults>>

\* and so is one that is there and cannot be read.
ReadFails(r) ==
  /\ pc[r] = "reading"
  /\ faults < MaxFaults /\ faults' = faults + 1
  /\ mishaps' = mishaps \cup {"misreading"}
  /\ pc' = [pc EXCEPT ![r] = "found"]
  /\ UNCHANGED <<store, key, early, disk, acked, lost, unsaved, repeated>>

AtWork(k) == {r \in Request : key[r] = k /\ pc[r] \in {"working", "flush", "opened", "written"}}

NeverPending(k) == FALSE
Pending(k) == inFlight[k] # NoOne

\* Work for k is called for: nobody is at it, it was not done in this life, and its
\* answer, if anybody has it, was lost or could not be known.
CalledFor(r, k) ==
  /\ AtWork(k) = {} /\ k \notin unsaved
  /\ k \in acked \ lost => early[r] \/ mishaps \cap {"reading", "misreading"} # {}

\* The recorded answer, the answer of the request that is at it, or the work.
LookUp(r) ==
  LET k == key[r] IN
  /\ pc[r] = "found"
  /\ CASE k \in records ->
            /\ pc' = [pc EXCEPT ![r] = "idle"]
            /\ acked' = acked \cup {k}
            /\ lost' = lost \ {k}
            /\ UNCHANGED <<inFlight, repeated>>
       [] k \notin records /\ Pending(k) ->
            pc' = [pc EXCEPT ![r] = "waiting"] /\ UNCHANGED <<inFlight, acked, lost, repeated>>
       [] OTHER ->
            /\ pc' = [pc EXCEPT ![r] = "working"]
            /\ inFlight' = [inFlight EXCEPT ![k] = r]
            /\ repeated' = (repeated \/ ~CalledFor(r, k))
            /\ UNCHANGED <<acked, lost>>
  /\ UNCHANGED <<loaded, records, key, early, disk, unsaved, mishaps, faults>>

\* The execution of r settles: it is in flight no longer, and r and those who
\* waited have their answer or its error.
Settle(r) ==
  /\ inFlight' = [inFlight EXCEPT ![key[r]] = NoOne]
  /\ pc' = [q \in Request |->
              IF q = r \/ (pc[q] = "waiting" /\ key[q] = key[r]) THEN "idle" ELSE pc[q]]

WorkFails(r) ==
  /\ pc[r] = "working"
  /\ Settle(r)
  /\ UNCHANGED <<loaded, records, key, early, disk, ghosts, faults>>

\* put: the record is in memory before it is in the file.
WorkDone(r) ==
  /\ pc[r] = "working"
  /\ records' = records \cup {key[r]}
  /\ unsaved' = unsaved \cup {key[r]}
  /\ pc' = [pc EXCEPT ![r] = "flush"]
  /\ UNCHANGED <<loaded, inFlight, key, early, disk, acked, lost, mishaps, repeated, faults>>

-------------------------------------------------------------------------------
(* flush *)

\* writeFile opens the temporary file, which empties it.
Open(r) ==
  /\ pc[r] = "flush"
  /\ snap' = [snap EXCEPT ![r] = Holding(records)]
  /\ tmp' = [exists |-> TRUE, content |-> Torn]
  /\ at' = [at EXCEPT ![r] = "tmp"]
  /\ mishaps' = mishaps \cup {"flush" : q \in Flushing} \cup {"reading" : q \in Reading}
  /\ pc' = [pc EXCEPT ![r] = "opened"]
  /\ UNCHANGED <<store, key, early, file, acked, lost, unsaved, repeated, faults>>

\* Over what another has written, a shorter text leaves a tail of the longer.
Written(old, new) == IF old.keys \subseteq new.keys THEN new ELSE Torn

Write(r) ==
  /\ pc[r] = "opened"
  /\ CASE at[r] = "tmp" -> tmp' = [tmp EXCEPT !.content = Written(@, snap[r])] /\ UNCHANGED file
       [] at[r] = "file" -> file' = Written(file, snap[r]) /\ UNCHANGED tmp
       [] OTHER -> UNCHANGED <<file, tmp>>
  /\ pc' = [pc EXCEPT ![r] = "written"]
  /\ UNCHANGED <<store, key, early, at, snap, ghosts, faults>>

\* The inode of the temporary name gets the name of the file.
Rename(r) ==
  /\ pc[r] = "written" /\ tmp.exists
  /\ file' = tmp.content
  /\ tmp' = [exists |-> FALSE, content |-> Torn]
  /\ at' = [q \in Request |-> IF at[q] = "tmp" THEN "file" ELSE "none"]
  /\ acked' = acked \cup {key[r]}
  /\ lost' = lost \ {key[r]}
  /\ unsaved' = unsaved \ snap[r].keys
  /\ Settle(r)
  /\ UNCHANGED <<loaded, records, key, early, snap, mishaps, repeated, faults>>

\* A write or a rename fails; the rename does so if another took the inode.
FlushFails(r) ==
  /\ pc[r] \in {"flush", "opened", "written"}
  /\ \/ pc[r] = "written" /\ ~tmp.exists /\ UNCHANGED faults
     \/ faults < MaxFaults /\ faults' = faults + 1
  /\ Settle(r)
  /\ UNCHANGED <<loaded, records, key, early, disk, ghosts>>

-------------------------------------------------------------------------------

\* The process dies and starts again.  A write in the middle of the file leaves it
\* torn.
Crash ==
  /\ faults < MaxFaults /\ faults' = faults + 1
  /\ file' \in {file} \cup {Torn : r \in {q \in Request : pc[q] = "opened" /\ at[q] = "file"}}
  /\ lost' = acked \ file'.keys
  /\ loaded' = FALSE /\ records' = {} /\ unsaved' = {} /\ mishaps' = {}
  /\ inFlight' = [k \in Key |-> NoOne]
  /\ pc' = [r \in Request |-> "idle"]
  /\ at' = [r \in Request |-> "none"]
  /\ UNCHANGED <<key, early, tmp, snap, acked, repeated>>

Init ==
  /\ loaded = FALSE /\ records = {} /\ inFlight = [k \in Key |-> NoOne]
  /\ pc = [r \in Request |-> "idle"]
  /\ key \in [Request -> {CHOOSE k \in Key : TRUE}]
  /\ early = [r \in Request |-> FALSE]
  /\ file = Torn /\ tmp = [exists |-> FALSE, content |-> Torn]
  /\ at = [r \in Request |-> "none"] /\ snap = [r \in Request |-> Torn]
  /\ acked = {} /\ lost = {} /\ unsaved = {} /\ mishaps = {} /\ repeated = FALSE
  /\ faults = 0

Next ==
  \/ \E r \in Request :
       \/ Arrive(r) \/ Read(r) \/ ReadFails(r) \/ LookUp(r) \/ WorkFails(r) \/ WorkDone(r)
       \/ Open(r) \/ Write(r) \/ Rename(r) \/ FlushFails(r)
  \/ Crash

Spec == Init /\ [][Next]_vars

-------------------------------------------------------------------------------
(* Properties *)

\* Work is begun only for a key that nobody is at and that was not worked for since
\* the process began, even if the write of its record failed.  A key somebody has
\* the answer of, the one who worked or one who was answered from memory, is not
\* worked for again either, unless a crash lost it, or the request came, or
\* something was written, while the file was first read, or that reading failed.
\* And a crash loses no such key unless the reading failed, or two flushes, or a
\* flush and the reading, overlapped in the life that it ended, or the key was
\* answered from memory before any flush had written it: until then the file has
\* them all.
WorkIsDoneOnce ==
  /\ ~repeated
  /\ mishaps = {} => acked \ lost \subseteq file.keys \cup unsaved
===============================================================================
