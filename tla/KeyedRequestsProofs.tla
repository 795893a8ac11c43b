-------------------------- MODULE KeyedRequestsProofs --------------------------
(***************************************************************************)
(* WorkIsDoneOnce, the guarantee of the file store of idempotency keys,    *)
(* for any keys, requests and faults.                                      *)
(*                                                                         *)
(* What is served depends on memory, and what survives on the file.  The   *)
(* invariant says what each holds of the acknowledged keys, and from when: *)
(* memory once the file has been read undisturbed, the file as long as no  *)
(* flush met another one or the reading, and but for the keys that no      *)
(* flush has written yet.                                                  *)
(***************************************************************************)
EXTENDS KeyedRequests, TLAPS

WorkPc  == {"working", "flush", "opened", "written"}
FlushPc == {"flush", "opened", "written"}
Content == [whole : BOOLEAN, keys : SUBSET Key]

TypeOK ==
  /\ loaded \in BOOLEAN /\ records \in SUBSET Key /\ inFlight \in [Key -> Request \cup {NoOne}]
  /\ pc \in [Request -> {"idle", "reading", "found", "waiting"} \cup WorkPc]
  /\ key \in [Request -> Key] /\ early \in [Request -> BOOLEAN]
  /\ file \in Content /\ tmp \in [exists : BOOLEAN, content : Content]
  /\ at \in [Request -> {"tmp", "file", "none"}] /\ snap \in [Request -> Content]
  /\ acked \in SUBSET Key /\ lost \in SUBSET Key /\ unsaved \in SUBSET Key
  /\ mishaps \in SUBSET {"flush", "reading", "misreading"}

\* What the store owes its clients: the keys answered that no crash lost.
Owed == acked \ lost

\* Who is at work for a key is the one on record for it.
WorkersAreOnRecord == \A r \in Request : pc[r] \in WorkPc => inFlight[key[r]] = r

\* Nobody has come before the file is asked for, and then it holds what is owed.
NobodyBeforeTheReading ==
  ~loaded => /\ mishaps = {} /\ records = {} /\ Owed \subseteq file.keys
             /\ \A r \in Request : pc[r] = "idle"

OneReads == \A r, q \in Request : pc[r] = "reading" /\ pc[q] = "reading" => q = r

\* A request that did not come during the reading looks up after it.
LooksUpAfterReading == \A r \in Request : pc[r] = "found" /\ ~early[r] => Reading = {}

\* A reading that no flush overlaps reads what is owed, but for what was done
\* meanwhile.
ReadsWhatIsOwed ==
  "reading" \notin mishaps =>
    \A r \in Reading : /\ Flushing = {} /\ snap[r] = file
                       /\ records \subseteq unsaved /\ Owed \subseteq file.keys \cup unsaved

\* After it, unless it failed, memory holds what is owed,
MemoryHasWhatIsOwed ==
  loaded /\ Reading = {} /\ mishaps \cap {"reading", "misreading"} = {} => Owed \subseteq records

\* and a key that is flushed, or that is yet to be.
FlushedIsRecorded == \A r \in Request : pc[r] \in FlushPc => key[r] \in records

UnsavedIsRecorded == unsaved \subseteq records

\* A flush that meets no other replaces a file that holds what is owed and what is
\* in memory, but for what is yet to be saved, by another that does.
FlushKeepsWhatIsOwed ==
  mishaps = {} =>
    /\ Owed \cup records \subseteq file.keys \cup unsaved
    /\ \A r \in Flushing :
         /\ \A q \in Flushing : q = r
         /\ at[r] = "tmp" /\ tmp.exists
         /\ Owed \cup records \subseteq snap[r].keys \cup unsaved /\ key[r] \in snap[r].keys
         /\ tmp.content = IF pc[r] = "opened" THEN Torn ELSE snap[r]

Inv ==
  /\ TypeOK /\ ~repeated
  /\ WorkersAreOnRecord /\ NobodyBeforeTheReading /\ OneReads /\ LooksUpAfterReading
  /\ ReadsWhatIsOwed /\ MemoryHasWhatIsOwed /\ FlushedIsRecorded /\ UnsavedIsRecorded
  /\ FlushKeepsWhatIsOwed

-------------------------------------------------------------------------------
(* Types *)

LEMMA TornIsContent == Torn \in Content /\ \A keys \in SUBSET Key : Holding(keys) \in Content
  BY DEF Torn, Content, Holding

LEMMA WrittenIsContent == \A old, new \in Content : Written(old, new) \in Content
  BY TornIsContent DEF Written

LEMMA SettleType ==
  ASSUME TypeOK, NEW r \in Request, Settle(r)
  PROVE  /\ inFlight' \in [Key -> Request \cup {NoOne}]
         /\ pc' \in [Request -> {"idle", "reading", "found", "waiting"} \cup WorkPc]
         /\ inFlight'[key[r]] = NoOne /\ \A k \in Key \ {key[r]} : inFlight'[k] = inFlight[k]
         /\ pc'[r] = "idle"
         /\ \A q \in Request \ {r} :
              pc'[q] = IF pc[q] = "waiting" /\ key[q] = key[r] THEN "idle" ELSE pc[q]
  BY DEF Settle, TypeOK

LEMMA ArriveType == ASSUME TypeOK, NEW r \in Request, Arrive(r) PROVE TypeOK'
  <1>1. key' \in [Request -> Key] /\ snap' \in [Request -> Content] /\ loaded' \in BOOLEAN
    <2>1. PICK k \in Key : key' = [key EXCEPT ![r] = k]
      BY DEF Arrive
    <2>2. \/ snap' = snap /\ loaded' = loaded
          \/ snap' = [snap EXCEPT ![r] = file] /\ loaded' = TRUE
      BY DEF Arrive
    <2>3. key' \in [Request -> Key]
      BY <2>1 DEF TypeOK
    <2>4. snap \in [Request -> Content] /\ file \in Content /\ loaded \in BOOLEAN
      BY DEF TypeOK
    <2>5. QED
      BY <2>2, <2>3, <2>4
  <1>2. pc' \in [Request -> {"idle", "reading", "found", "waiting"} \cup WorkPc]
    <2>1. PICK p \in {"found", "reading"} : pc' = [pc EXCEPT ![r] = p]
      BY DEF Arrive
    <2>2. QED
      BY <2>1 DEF TypeOK
  <1>3. early' \in [Request -> BOOLEAN]
    <2>1. PICK b \in BOOLEAN : b = (Reading # {})
      OBVIOUS
    <2>2. early' = [early EXCEPT ![r] = b]
      BY <2>1, Zenon DEF Arrive
    <2>3. QED
      BY <2>2 DEF TypeOK
  <1>4. QED
    BY <1>1, <1>2, <1>3 DEF Arrive, TypeOK, ghosts

LEMMA ReadType == ASSUME TypeOK, NEW r \in Request, Read(r) PROVE TypeOK'
  <1>1. PICK seen \in {snap[r], file} : records' = records \cup seen.keys
    BY DEF Read
  <1>2. seen \in Content
    BY DEF TypeOK
  <1>3. records' \in SUBSET Key
    BY <1>1, <1>2 DEF TypeOK, Content
  <1>4. QED
    BY <1>3 DEF Read, TypeOK, disk, ghosts

LEMMA ReadFailsType == ASSUME TypeOK, NEW r \in Request, ReadFails(r) PROVE TypeOK'
  BY DEF ReadFails, TypeOK, store, disk

LEMMA LookUpType == ASSUME TypeOK, NEW r \in Request, LookUp(r) PROVE TypeOK'
  <1>1. /\ pc' \in [Request -> {"idle", "reading", "found", "waiting"} \cup WorkPc]
        /\ inFlight' \in [Key -> Request \cup {NoOne}]
        /\ acked' \in SUBSET Key /\ lost' \in SUBSET Key
    BY DEF LookUp, TypeOK, WorkPc
  <1>2. QED
    BY <1>1 DEF LookUp, TypeOK, disk

LEMMA WorkType == ASSUME TypeOK, NEW r \in Request, WorkFails(r) \/ WorkDone(r) PROVE TypeOK'
  <1>1. CASE WorkFails(r)
    BY <1>1, SettleType DEF WorkFails, TypeOK, disk, ghosts
  <1>2. CASE WorkDone(r)
    BY <1>2 DEF WorkDone, TypeOK, WorkPc, disk, ghosts
  <1>3. QED
    BY <1>1, <1>2

LEMMA OpenType == ASSUME TypeOK, NEW r \in Request, Open(r) PROVE TypeOK'
  <1>1. snap' \in [Request -> Content] /\ tmp' \in [exists : BOOLEAN, content : Content]
    BY TornIsContent DEF Open, TypeOK
  <1>2. mishaps' \in SUBSET {"flush", "reading", "misreading"}
    BY DEF Open, TypeOK
  <1>3. QED
    BY <1>1, <1>2 DEF Open, TypeOK, WorkPc, store

LEMMA WriteType == ASSUME TypeOK, NEW r \in Request, Write(r) PROVE TypeOK'
  <1>1. tmp' \in [exists : BOOLEAN, content : Content] /\ file' \in Content
    <2>1. tmp.content \in Content /\ snap[r] \in Content
      BY DEF TypeOK
    <2>2. Written(tmp.content, snap[r]) \in Content /\ Written(file, snap[r]) \in Content
      BY <2>1, WrittenIsContent DEF TypeOK
    <2>3. QED
      BY <2>2 DEF Write, TypeOK
  <1>2. pc' \in [Request -> {"idle", "reading", "found", "waiting"} \cup WorkPc]
    BY DEF Write, TypeOK, WorkPc
  <1>3. QED
    BY <1>1, <1>2 DEF Write, TypeOK, store, ghosts

LEMMA RenameType == ASSUME TypeOK, NEW r \in Request, Rename(r) PROVE TypeOK'
  BY SettleType, TornIsContent DEF Rename, TypeOK

LEMMA FlushFailsType == ASSUME TypeOK, NEW r \in Request, FlushFails(r) PROVE TypeOK'
  BY SettleType DEF FlushFails, TypeOK, disk, ghosts

LEMMA CrashType == ASSUME TypeOK, Crash PROVE TypeOK'
  <1>1. file' \in Content
    BY TornIsContent DEF Crash, TypeOK
  <1>2. QED
    BY <1>1 DEF Crash, TypeOK

-------------------------------------------------------------------------------
(* Every step keeps the invariant *)

LEMMA ArriveKeeps == ASSUME Inv, NEW r \in Request, Arrive(r) PROVE Inv'
  <1>1. TypeOK'
    BY ArriveType DEF Inv
  <1>2. /\ pc[r] = "idle" /\ UNCHANGED <<records, inFlight, file, tmp, at, acked, lost, unsaved, mishaps, repeated>>
        /\ \A q \in Request \ {r} : pc'[q] = pc[q] /\ key'[q] = key[q] /\ early'[q] = early[q]
        /\ early'[r] = (Reading # {})
    BY DEF Inv, Arrive, TypeOK, ghosts
  <1>3. Owed' = Owed
    BY <1>2 DEF Owed
  <1>4. CASE loaded
    <2>1. pc'[r] = "found" /\ UNCHANGED <<loaded, snap>>
      BY <1>4 DEF Inv, Arrive, TypeOK
    <2>2. Reading' = Reading /\ Flushing' = Flushing
      BY <1>2, <2>1 DEF Reading, Flushing
    <2>3. WorkersAreOnRecord' /\ FlushedIsRecorded' /\ UnsavedIsRecorded'
      BY <1>2, <2>1 DEF Inv, WorkersAreOnRecord, FlushedIsRecorded, UnsavedIsRecorded, WorkPc, FlushPc
    <2>4. NobodyBeforeTheReading'
      BY <1>4, <2>1 DEF NobodyBeforeTheReading
    <2>5. OneReads'
      BY <1>2, <2>1 DEF Inv, OneReads
    <2>6. LooksUpAfterReading'
      BY <1>2, <2>1, <2>2 DEF Inv, LooksUpAfterReading
    <2>7. ReadsWhatIsOwed' /\ MemoryHasWhatIsOwed'
      BY <1>2, <1>3, <2>1, <2>2 DEF Inv, ReadsWhatIsOwed, MemoryHasWhatIsOwed
    <2>8. FlushKeepsWhatIsOwed'
      <3>1. \A q \in Flushing : q # r
        BY <1>2 DEF Flushing
      <3>2. \A q \in Flushing : q \in Request
        BY DEF Flushing
      <3>3. QED
        BY <1>2, <1>3, <2>1, <2>2, <3>1, <3>2 DEF Inv, FlushKeepsWhatIsOwed
    <2>9. QED
      BY <1>1, <1>2, <2>3, <2>4, <2>5, <2>6, <2>7, <2>8 DEF Inv
  <1>5. CASE ~loaded
    <2>1. pc'[r] = "reading" /\ loaded' = TRUE /\ snap'[r] = file
      BY <1>5 DEF Inv, Arrive, TypeOK
    <2>2. /\ \A q \in Request \ {r} : pc'[q] = "idle"
          /\ mishaps' = {} /\ records' = {} /\ Owed' \subseteq file'.keys
      BY <1>2, <1>3, <1>5 DEF Inv, NobodyBeforeTheReading
    <2>3. Reading' = {r} /\ Flushing' = {}
      BY <2>1, <2>2 DEF Reading, Flushing
    <2>4. WorkersAreOnRecord' /\ FlushedIsRecorded' /\ UnsavedIsRecorded'
      BY <1>2, <2>1, <2>2 DEF Inv, WorkersAreOnRecord, FlushedIsRecorded, UnsavedIsRecorded, WorkPc, FlushPc
    <2>5. NobodyBeforeTheReading' /\ OneReads' /\ LooksUpAfterReading'
      BY <2>1, <2>2 DEF NobodyBeforeTheReading, OneReads, LooksUpAfterReading
    <2>6. ReadsWhatIsOwed' /\ MemoryHasWhatIsOwed' /\ FlushKeepsWhatIsOwed'
      BY <1>2, <2>1, <2>2, <2>3 DEF ReadsWhatIsOwed, MemoryHasWhatIsOwed, FlushKeepsWhatIsOwed
    <2>7. QED
      BY <1>1, <1>2, <2>4, <2>5, <2>6 DEF Inv
  <1>6. QED
    BY <1>4, <1>5 DEF Inv, TypeOK

LEMMA ReadKeeps == ASSUME Inv, NEW r \in Request, Read(r) \/ ReadFails(r) PROVE Inv'
  <1>1. TypeOK'
    BY ReadType, ReadFailsType DEF Inv
  <1>2. /\ pc[r] = "reading" /\ pc'[r] = "found" /\ \A q \in Request \ {r} : pc'[q] = pc[q]
        /\ UNCHANGED <<loaded, inFlight, key, early, file, tmp, at, snap, acked, lost, unsaved, repeated>>
    BY DEF Inv, Read, ReadFails, TypeOK, store, disk, ghosts
  <1>3. \/ /\ mishaps' = mishaps /\ \E seen \in {snap[r], file} : records' = records \cup seen.keys
        \/ mishaps' = mishaps \cup {"misreading"} /\ records' = records
    BY DEF Read, ReadFails, store, ghosts
  <1>4. /\ Flushing' = Flushing /\ Owed' = Owed
        /\ Reading' = {} /\ r \in Reading /\ records \subseteq records'
    BY <1>2, <1>3 DEF Inv, Flushing, Owed, Reading, OneReads
  <1>5. WorkersAreOnRecord' /\ FlushedIsRecorded' /\ UnsavedIsRecorded'
    BY <1>2, <1>4 DEF Inv, WorkersAreOnRecord, FlushedIsRecorded, UnsavedIsRecorded, WorkPc, FlushPc
  <1>6. OneReads' /\ LooksUpAfterReading'
    BY <1>2, <1>4 DEF Inv, OneReads, LooksUpAfterReading
  <1>7. NobodyBeforeTheReading'
    BY <1>2 DEF Inv, TypeOK, NobodyBeforeTheReading
  <1>8. ReadsWhatIsOwed' /\ MemoryHasWhatIsOwed'
    BY <1>2, <1>3, <1>4, <1>5 DEF Inv, ReadsWhatIsOwed, MemoryHasWhatIsOwed, UnsavedIsRecorded
  <1>9. ASSUME mishaps' = {} PROVE FlushKeepsWhatIsOwed'
    <2>1. mishaps = {} /\ Flushing = {} /\ snap[r] = file
      BY <1>3, <1>4, <1>9 DEF Inv, ReadsWhatIsOwed
    <2>2. records' = records \cup file.keys
      BY <1>3, <1>9, <2>1
    <2>3. QED
      BY <1>2, <1>4, <2>1, <2>2 DEF Inv, FlushKeepsWhatIsOwed
  <1>10. FlushKeepsWhatIsOwed'
    BY <1>9 DEF FlushKeepsWhatIsOwed
  <1>11. QED
    BY <1>1, <1>2, <1>5, <1>6, <1>7, <1>8, <1>10 DEF Inv

LEMMA SomebodyHasCome == ASSUME Inv, NEW r \in Request, pc[r] # "idle" PROVE loaded
  BY DEF Inv, TypeOK, NobodyBeforeTheReading

\* A step that begins neither a reading nor a flush, and answers only what memory
\* holds.
LEMMA NothingBegun ==
  ASSUME Inv, loaded, UNCHANGED <<loaded, key, early, file, tmp, at, snap, mishaps>>,
         records \subseteq records', records' \subseteq records \cup unsaved',
         unsaved \subseteq unsaved', unsaved' \subseteq unsaved \cup records',
         Owed' \subseteq Owed \cup records,
         \A q \in Request : /\ pc'[q] = "reading" <=> pc[q] = "reading"
                            /\ pc'[q] = "found" => pc[q] = "found"
                            /\ pc'[q] \in {"opened", "written"} => pc'[q] = pc[q]
  PROVE  /\ NobodyBeforeTheReading' /\ OneReads' /\ LooksUpAfterReading'
         /\ ReadsWhatIsOwed' /\ MemoryHasWhatIsOwed' /\ UnsavedIsRecorded' /\ FlushKeepsWhatIsOwed'
  <1>1. Reading' = Reading /\ Flushing' \subseteq Flushing
    BY DEF Reading, Flushing
  <1>2. NobodyBeforeTheReading' /\ OneReads' /\ LooksUpAfterReading'
    BY <1>1 DEF Inv, NobodyBeforeTheReading, OneReads, LooksUpAfterReading
  <1>3. ReadsWhatIsOwed' /\ MemoryHasWhatIsOwed' /\ UnsavedIsRecorded'
    BY <1>1 DEF Inv, ReadsWhatIsOwed, MemoryHasWhatIsOwed, UnsavedIsRecorded
  <1>4. \A q \in Flushing' : pc'[q] = pc[q]
    BY DEF Flushing
  <1>5. FlushKeepsWhatIsOwed'
    BY <1>1, <1>4 DEF Inv, FlushKeepsWhatIsOwed
  <1>6. QED
    BY <1>2, <1>3, <1>5

LEMMA LookUpKeeps == ASSUME Inv, NEW r \in Request, LookUp(r) PROVE Inv'
  <1> DEFINE k == key[r]
  <1>1. TypeOK'
    BY LookUpType DEF Inv
  <1>2. /\ pc[r] = "found" /\ loaded /\ k \in Key
        /\ UNCHANGED <<loaded, records, key, early, file, tmp, at, snap, unsaved, mishaps>>
    BY SomebodyHasCome DEF Inv, LookUp, TypeOK, disk
  <1>3. /\ pc'[r] \in {"idle", "waiting", "working"} /\ \A q \in Request \ {r} : pc'[q] = pc[q]
    BY DEF Inv, LookUp, TypeOK
  <1>4. Owed' \subseteq Owed \cup records
    BY DEF LookUp, Owed
  <1>5. /\ NobodyBeforeTheReading' /\ OneReads' /\ LooksUpAfterReading'
        /\ ReadsWhatIsOwed' /\ MemoryHasWhatIsOwed' /\ UnsavedIsRecorded' /\ FlushKeepsWhatIsOwed'
    BY <1>2, <1>3, <1>4, NothingBegun
  <1>6. FlushedIsRecorded'
    BY <1>2, <1>3 DEF Inv, FlushedIsRecorded, FlushPc
  <1>7. CASE pc'[r] # "working"
    <2>1. UNCHANGED <<inFlight, repeated>>
      BY <1>7 DEF Inv, LookUp, TypeOK
    <2>2. WorkersAreOnRecord'
      BY <1>2, <1>3, <1>7, <2>1 DEF Inv, WorkersAreOnRecord, WorkPc
    <2>3. QED
      BY <1>1, <1>5, <1>6, <2>1, <2>2 DEF Inv
  <1>8. CASE pc'[r] = "working"
    <2>1. /\ k \notin records /\ inFlight[k] = NoOne
          /\ inFlight' = [inFlight EXCEPT ![k] = r]
      BY <1>8 DEF Inv, LookUp, TypeOK, Pending
    <2>2. repeated' = (repeated \/ ~CalledFor(r, k))
      BY <1>8 DEF Inv, LookUp, TypeOK
    <2>3. AtWork(k) = {}
      BY <2>1, KeyedAssumption DEF Inv, WorkersAreOnRecord, AtWork, WorkPc
    <2>4. k \in acked \ lost => early[r] \/ mishaps \cap {"reading", "misreading"} # {}
      BY <1>2, <2>1 DEF Inv, LooksUpAfterReading, MemoryHasWhatIsOwed, Owed
    <2>5. k \notin unsaved
      BY <2>1 DEF Inv, UnsavedIsRecorded
    <2>6. CalledFor(r, k)
      BY <2>3, <2>4, <2>5 DEF CalledFor
    <2>7. ~repeated'
      BY <2>2, <2>6, Zenon DEF Inv
    <2>8. \A q \in Request : key[q] = k => pc[q] \notin WorkPc
      BY <2>3 DEF AtWork, WorkPc
    <2>9. WorkersAreOnRecord'
      BY <1>2, <1>3, <2>1, <2>8 DEF Inv, TypeOK, WorkersAreOnRecord
    <2>10. QED
      BY <1>1, <1>5, <1>6, <2>7, <2>9 DEF Inv
  <1>9. QED
    BY <1>7, <1>8

\* When an execution settles, nobody else was at work for its key.
LEMMA SettledKeeps ==
  ASSUME Inv, NEW r \in Request, pc[r] \in WorkPc, Settle(r), UNCHANGED <<key, records>>
  PROVE  /\ WorkersAreOnRecord' /\ FlushedIsRecorded'
         /\ \A q \in Request : /\ pc'[q] = "reading" <=> pc[q] = "reading"
                               /\ pc'[q] = "found" => pc[q] = "found"
                               /\ pc'[q] \in {"opened", "written"} => pc'[q] = pc[q]
  <1>1. /\ inFlight'[key[r]] = NoOne /\ \A k \in Key \ {key[r]} : inFlight'[k] = inFlight[k]
        /\ pc'[r] = "idle" /\ \A q \in Request \ {r} : pc'[q] = pc[q] \/ (pc[q] = "waiting" /\ pc'[q] = "idle")
    BY SettleType DEF Inv
  <1>2. \A q \in Request \ {r} : pc'[q] \in WorkPc => pc[q] = pc'[q] /\ key[q] # key[r]
    BY <1>1 DEF Inv, WorkersAreOnRecord, WorkPc
  <1>3. WorkersAreOnRecord'
    BY <1>1, <1>2 DEF Inv, TypeOK, WorkersAreOnRecord, WorkPc
  <1>4. FlushedIsRecorded'
    BY <1>1 DEF Inv, FlushedIsRecorded, FlushPc
  <1>5. QED
    BY <1>1, <1>3, <1>4 DEF WorkPc

LEMMA WorkFailsKeeps == ASSUME Inv, NEW r \in Request, WorkFails(r) PROVE Inv'
  <1>1. TypeOK'
    BY WorkType DEF Inv
  <1>2. /\ pc[r] = "working" /\ Settle(r) /\ loaded
        /\ UNCHANGED <<loaded, records, key, early, file, tmp, at, snap, acked, lost, unsaved, mishaps, repeated>>
    BY SomebodyHasCome DEF WorkFails, disk, ghosts
  <1>3. /\ WorkersAreOnRecord' /\ FlushedIsRecorded'
        /\ \A q \in Request : /\ pc'[q] = "reading" <=> pc[q] = "reading"
                              /\ pc'[q] = "found" => pc[q] = "found"
                              /\ pc'[q] \in {"opened", "written"} => pc'[q] = pc[q]
    BY <1>2, SettledKeeps DEF WorkPc
  <1>4. Owed' = Owed
    BY <1>2 DEF Owed
  <1>5. QED
    BY <1>1, <1>2, <1>3, <1>4, NothingBegun DEF Inv

LEMMA WorkDoneKeeps == ASSUME Inv, NEW r \in Request, WorkDone(r) PROVE Inv'
  <1>1. TypeOK'
    BY WorkType DEF Inv
  <1>2. /\ pc[r] = "working" /\ loaded /\ records' = records \cup {key[r]}
        /\ pc'[r] = "flush" /\ \A q \in Request \ {r} : pc'[q] = pc[q]
        /\ unsaved' = unsaved \cup {key[r]} /\ Owed' = Owed
        /\ UNCHANGED <<loaded, inFlight, key, early, file, tmp, at, snap, acked, lost, mishaps, repeated>>
    BY SomebodyHasCome DEF Inv, WorkDone, TypeOK, disk, Owed
  <1>3. WorkersAreOnRecord' /\ FlushedIsRecorded'
    BY <1>2 DEF Inv, WorkersAreOnRecord, FlushedIsRecorded, WorkPc, FlushPc
  <1>4. \A q \in Request : /\ pc'[q] = "reading" <=> pc[q] = "reading"
                           /\ pc'[q] = "found" => pc[q] = "found"
                           /\ pc'[q] \in {"opened", "written"} => pc'[q] = pc[q]
    BY <1>2
  <1>5. QED
    BY <1>1, <1>2, <1>3, <1>4, NothingBegun DEF Inv

LEMMA OpenKeeps == ASSUME Inv, NEW r \in Request, Open(r) PROVE Inv'
  <1>1. TypeOK'
    BY OpenType DEF Inv
  <1>2. /\ pc[r] = "flush" /\ pc'[r] = "opened" /\ \A q \in Request \ {r} : pc'[q] = pc[q]
        /\ loaded /\ UNCHANGED <<loaded, records, inFlight, key, early, file, acked, lost, unsaved, repeated>>
    BY SomebodyHasCome DEF Inv, Open, TypeOK, store
  <1>3. /\ Owed' = Owed /\ Reading' = Reading
        /\ Flushing' = Flushing \cup {r} /\ r \notin Reading
    BY <1>2 DEF Owed, Reading, Flushing
  <1>4. /\ mishaps \subseteq mishaps'
        /\ Flushing # {} => "flush" \in mishaps'
        /\ Reading # {} => "reading" \in mishaps'
    BY DEF Open
  <1>5. WorkersAreOnRecord' /\ FlushedIsRecorded' /\ UnsavedIsRecorded'
    BY <1>2 DEF Inv, WorkersAreOnRecord, FlushedIsRecorded, UnsavedIsRecorded, WorkPc, FlushPc
  <1>6. NobodyBeforeTheReading' /\ OneReads' /\ LooksUpAfterReading'
    BY <1>2, <1>3 DEF Inv, NobodyBeforeTheReading, OneReads, LooksUpAfterReading
  <1>7. ReadsWhatIsOwed'
    BY <1>3, <1>4 DEF ReadsWhatIsOwed
  <1>8. MemoryHasWhatIsOwed'
    BY <1>2, <1>3, <1>4 DEF Inv, MemoryHasWhatIsOwed
  <1>9. ASSUME mishaps' = {} PROVE FlushKeepsWhatIsOwed'
    <2>1. mishaps = {} /\ Flushing = {} /\ Reading = {} /\ Flushing' = {r}
      BY <1>3, <1>4, <1>9
    <2>2. Owed \subseteq records /\ Owed \cup records \subseteq file.keys \cup unsaved /\ key[r] \in records
      BY <1>2, <2>1 DEF Inv, MemoryHasWhatIsOwed, FlushKeepsWhatIsOwed, FlushedIsRecorded, FlushPc
    <2>3. /\ snap'[r].keys = records /\ tmp'.exists /\ tmp'.content = Torn /\ at'[r] = "tmp"
      BY DEF Inv, Open, TypeOK, Holding
    <2>4. QED
      BY <1>2, <1>3, <2>1, <2>2, <2>3 DEF FlushKeepsWhatIsOwed
  <1>10. FlushKeepsWhatIsOwed'
    BY <1>9 DEF FlushKeepsWhatIsOwed
  <1>11. QED
    BY <1>1, <1>2, <1>5, <1>6, <1>7, <1>8, <1>10 DEF Inv

LEMMA WriteKeeps == ASSUME Inv, NEW r \in Request, Write(r) PROVE Inv'
  <1>1. TypeOK'
    BY WriteType DEF Inv
  <1>2. /\ pc[r] = "opened" /\ pc'[r] = "written" /\ \A q \in Request \ {r} : pc'[q] = pc[q]
        /\ loaded
        /\ UNCHANGED <<loaded, records, inFlight, key, early, at, snap, acked, lost, unsaved, mishaps, repeated>>
    BY SomebodyHasCome DEF Inv, Write, TypeOK, store, ghosts
  <1>3. /\ Owed' = Owed /\ Reading' = Reading
        /\ Flushing' = Flushing /\ r \in Flushing
    BY <1>2 DEF Owed, Reading, Flushing
  <1>4. WorkersAreOnRecord' /\ FlushedIsRecorded' /\ UnsavedIsRecorded'
    BY <1>2 DEF Inv, WorkersAreOnRecord, FlushedIsRecorded, UnsavedIsRecorded, WorkPc, FlushPc
  <1>5. NobodyBeforeTheReading' /\ OneReads' /\ LooksUpAfterReading'
    BY <1>2, <1>3 DEF Inv, NobodyBeforeTheReading, OneReads, LooksUpAfterReading
  <1>6. ReadsWhatIsOwed' /\ MemoryHasWhatIsOwed'
    BY <1>2, <1>3 DEF Inv, ReadsWhatIsOwed, MemoryHasWhatIsOwed
  <1>7. ASSUME mishaps' = {} PROVE FlushKeepsWhatIsOwed'
    <2>1. /\ Owed \cup records \subseteq file.keys \cup unsaved /\ \A q \in Flushing : q = r
          /\ at[r] = "tmp" /\ tmp.exists
          /\ Owed \cup records \subseteq snap[r].keys \cup unsaved /\ key[r] \in snap[r].keys
          /\ tmp.content = Torn
      BY <1>2, <1>3, <1>7 DEF Inv, FlushKeepsWhatIsOwed
    <2>2. file' = file /\ tmp' = [tmp EXCEPT !.content = Written(Torn, snap[r])]
      BY <2>1 DEF Write
    <2>3. Written(Torn, snap[r]) = snap[r]
      BY DEF Written, Torn
    <2>4. tmp'.exists /\ tmp'.content = snap[r]
      BY <2>1, <2>2, <2>3 DEF Inv, TypeOK
    <2>5. QED
      BY <1>2, <1>3, <2>1, <2>2, <2>4 DEF FlushKeepsWhatIsOwed
  <1>8. FlushKeepsWhatIsOwed'
    BY <1>7 DEF FlushKeepsWhatIsOwed
  <1>9. QED
    BY <1>1, <1>2, <1>4, <1>5, <1>6, <1>8 DEF Inv

LEMMA RenameKeeps == ASSUME Inv, NEW r \in Request, Rename(r) PROVE Inv'
  <1>1. TypeOK'
    BY RenameType DEF Inv
  <1>2. /\ pc[r] = "written" /\ Settle(r) /\ loaded /\ file' = tmp.content
        /\ acked' = acked \cup {key[r]} /\ lost' = lost \ {key[r]}
        /\ unsaved' = unsaved \ snap[r].keys
        /\ UNCHANGED <<loaded, records, key, early, snap, mishaps, repeated>>
    BY SomebodyHasCome DEF Rename
  <1>3. /\ WorkersAreOnRecord' /\ FlushedIsRecorded'
        /\ \A q \in Request : /\ pc'[q] = "reading" <=> pc[q] = "reading"
                              /\ pc'[q] = "found" => pc[q] = "found"
                              /\ pc'[q] \in {"opened", "written"} => pc'[q] = pc[q]
    BY <1>2, SettledKeeps DEF WorkPc
  <1>4. /\ Owed' \subseteq Owed \cup {key[r]} /\ Reading' = Reading
        /\ Flushing' \subseteq Flushing /\ r \in Flushing
    BY <1>2, <1>3 DEF Owed, Reading, Flushing
  <1>5. NobodyBeforeTheReading' /\ OneReads' /\ LooksUpAfterReading'
    BY <1>2, <1>3, <1>4 DEF Inv, NobodyBeforeTheReading, OneReads, LooksUpAfterReading
  <1>6. ReadsWhatIsOwed' /\ UnsavedIsRecorded'
    BY <1>2, <1>4 DEF Inv, ReadsWhatIsOwed, UnsavedIsRecorded
  <1>7. MemoryHasWhatIsOwed'
    BY <1>2, <1>4 DEF Inv, MemoryHasWhatIsOwed, FlushedIsRecorded, FlushPc
  <1>8. ASSUME mishaps' = {} PROVE FlushKeepsWhatIsOwed'
    <2>1. /\ \A q \in Flushing : q = r
          /\ Owed \cup records \subseteq snap[r].keys \cup unsaved /\ key[r] \in snap[r].keys
          /\ tmp.content = snap[r]
      BY <1>2, <1>4, <1>8 DEF Inv, FlushKeepsWhatIsOwed
    <2>2. pc'[r] = "idle"
      BY <1>2, SettleType DEF Inv
    <2>3. Flushing' = {} /\ Owed' \cup records' \subseteq file'.keys \cup unsaved'
      BY <1>2, <1>4, <2>1, <2>2 DEF Flushing
    <2>4. QED
      BY <2>3 DEF FlushKeepsWhatIsOwed
  <1>9. FlushKeepsWhatIsOwed'
    BY <1>8 DEF FlushKeepsWhatIsOwed
  <1>10. QED
    BY <1>1, <1>2, <1>3, <1>5, <1>6, <1>7, <1>9 DEF Inv

LEMMA FlushFailsKeeps == ASSUME Inv, NEW r \in Request, FlushFails(r) PROVE Inv'
  <1>1. TypeOK'
    BY FlushFailsType DEF Inv
  <1>2. /\ pc[r] \in FlushPc /\ pc[r] \in WorkPc /\ Settle(r) /\ loaded
        /\ UNCHANGED <<loaded, records, key, early, file, tmp, at, snap, acked, lost, unsaved, mishaps, repeated>>
    BY SomebodyHasCome DEF FlushFails, FlushPc, WorkPc, disk, ghosts
  <1>3. /\ WorkersAreOnRecord' /\ FlushedIsRecorded'
        /\ \A q \in Request : /\ pc'[q] = "reading" <=> pc[q] = "reading"
                              /\ pc'[q] = "found" => pc[q] = "found"
                              /\ pc'[q] \in {"opened", "written"} => pc'[q] = pc[q]
    BY <1>2, SettledKeeps
  <1>4. Owed' = Owed
    BY <1>2 DEF Owed
  <1>5. QED
    BY <1>1, <1>2, <1>3, <1>4, NothingBegun DEF Inv

LEMMA CrashKeeps == ASSUME Inv, Crash PROVE Inv'
  <1>1. TypeOK'
    BY CrashType DEF Inv
  <1>2. /\ loaded' = FALSE /\ records' = {} /\ unsaved' = {} /\ mishaps' = {} /\ \A q \in Request : pc'[q] = "idle"
        /\ lost' = acked \ file'.keys /\ UNCHANGED <<acked, repeated>>
    BY DEF Crash
  <1>3. Owed' \subseteq file'.keys /\ Flushing' = {} /\ Reading' = {}
    BY <1>2 DEF Owed, Flushing, Reading
  <1>4. QED
    BY <1>1, <1>2, <1>3
    DEF Inv, WorkersAreOnRecord, NobodyBeforeTheReading, OneReads, LooksUpAfterReading, ReadsWhatIsOwed,
        MemoryHasWhatIsOwed, FlushedIsRecorded, UnsavedIsRecorded, FlushKeepsWhatIsOwed, WorkPc, FlushPc

-------------------------------------------------------------------------------

LEMMA InvHolds == Spec => []Inv
  <1>1. Init => Inv
    <2> SUFFICES ASSUME Init PROVE Inv
      OBVIOUS
    <2>1. (CHOOSE k \in Key : TRUE) \in Key
      BY KeyedAssumption
    <2>2. key \in [Request -> Key]
      BY <2>1 DEF Init
    <2>3. TypeOK
      BY <2>2, TornIsContent DEF Init, TypeOK
    <2>4. Owed = {} /\ Flushing = {} /\ Reading = {}
      BY DEF Init, Owed, Flushing, Reading
    <2>5. QED
      BY <2>3, <2>4
      DEF Init, Inv, WorkersAreOnRecord, NobodyBeforeTheReading, OneReads, LooksUpAfterReading,
          ReadsWhatIsOwed, MemoryHasWhatIsOwed, FlushedIsRecorded, UnsavedIsRecorded, FlushKeepsWhatIsOwed, WorkPc, FlushPc
  <1>2. Inv /\ [Next]_vars => Inv'
    <2> SUFFICES ASSUME Inv, [Next]_vars PROVE Inv'
      OBVIOUS
    <2>1. ASSUME NEW r \in Request, Arrive(r) \/ Read(r) \/ ReadFails(r) \/ LookUp(r) \/ WorkFails(r) \/ WorkDone(r)
          PROVE Inv'
      BY <2>1, ArriveKeeps, ReadKeeps, LookUpKeeps, WorkFailsKeeps, WorkDoneKeeps
    <2>2. ASSUME NEW r \in Request, Open(r) \/ Write(r) \/ Rename(r) \/ FlushFails(r) PROVE Inv'
      BY <2>2, OpenKeeps, WriteKeeps, RenameKeeps, FlushFailsKeeps
    <2>3. CASE Crash
      BY <2>3, CrashKeeps
    <2>4. CASE UNCHANGED vars
      BY <2>4
      DEF vars, store, disk, ghosts, Inv, TypeOK, Owed, Reading, Flushing, WorkersAreOnRecord,
          NobodyBeforeTheReading, OneReads, LooksUpAfterReading, ReadsWhatIsOwed,
          MemoryHasWhatIsOwed, FlushedIsRecorded, UnsavedIsRecorded, FlushKeepsWhatIsOwed
    <2>5. QED
      BY <2>1, <2>2, <2>3, <2>4 DEF Next
  <1>3. QED
    BY <1>1, <1>2, PTL DEF Spec

\* For any keys and requests, and however many crashes and failed readings and
\* writes: work is not begun for a key that somebody is at or that was worked for in
\* this life of the process, nor again for one that anybody was answered, and a crash
\* loses none of those, but for the mishaps and the keys yet to be saved that
\* WorkIsDoneOnce names (execute, load and flush of idempotency.ts).
THEOREM KeyedWorkIsDoneOnce == Spec => []WorkIsDoneOnce
  <1>1. Inv => WorkIsDoneOnce
    BY DEF Inv, WorkIsDoneOnce, FlushKeepsWhatIsOwed, Owed
  <1>2. QED
    BY <1>1, InvHolds, PTL
===============================================================================
