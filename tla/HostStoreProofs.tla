---------------------------- MODULE HostStoreProofs ----------------------------
(***************************************************************************)
(* Proofs about HostStore, for any requests, keys and bounds: the type     *)
(* invariant, that the event and audit chains verify, that a success which *)
(* met no batch of another request is durable, but for what the file never *)
(* got or was not read from it, and that batches are whole.                *)
(***************************************************************************)
EXTENDS HostStore, FiniteSetTheorems, SequenceTheorems, TLAPS

Item == Request \X {"put", "event"}

\* Everything that was, is or will be in memory or in the file, and what a process
\* starts from that cannot read its file.
Contents ==
  {Empty, mem, disk} \cup {snapshot[r] : r \in Request}
    \cup {flushQueue[i].content : i \in DOMAIN flushQueue}

EventChains == \A c \in Contents : Verifies(c.events)

\* The head that the file provider keeps apart is the end of the chain in
\* memory, as long as no batch of it has failed.
AuditChains ==
  ~undone => /\ \A c \in Contents : Verifies(c.audits)
             /\ driver = "file" => auditHead = LastHash(mem.audits)

-------------------------------------------------------------------------------

\* A chain that is extended from its last hash verifies, and ends there.
LEMMA LinkedVerifies ==
  ASSUME NEW chain \in Seq(Entry), Verifies(chain), NEW item \in Item
  PROVE  LET longer == Linked(chain, LastHash(chain), item) IN
         /\ Verifies(longer)
         /\ LastHash(longer) = Link(LastHash(chain), item)
  <1> DEFINE h == Link(LastHash(chain), item)
             longer == Append(chain, [item |-> item, hash |-> h])
  <1>1. /\ Len(longer) = Len(chain) + 1 /\ Len(chain) \in Nat
        /\ \A i \in 1 .. Len(chain) : longer[i] = chain[i]
        /\ longer[Len(chain) + 1] = [item |-> item, hash |-> h]
        /\ DOMAIN longer = 1 .. Len(chain) + 1 /\ DOMAIN chain = 1 .. Len(chain)
    <2> DEFINE e == [item |-> item, hash |-> h]
    <2> HIDE DEF e
    <2>1. Len(chain) \in Nat /\ DOMAIN chain = 1 .. Len(chain)
      OBVIOUS
    <2>2. /\ Len(Append(chain, e)) = Len(chain) + 1
          /\ DOMAIN Append(chain, e) = 1 .. Len(chain) + 1
      BY <2>1
    <2>3. /\ \A i \in 1 .. Len(chain) : Append(chain, e)[i] = chain[i]
          /\ Append(chain, e)[Len(chain) + 1] = e
      BY <2>1
    <2>4. QED
      BY <2>1, <2>2, <2>3 DEF e
  <1>2. LastHash(chain) = IF Len(chain) = 0 THEN Genesis ELSE chain[Len(chain)].hash
    BY DEF LastHash
  <1>3. LastHash(longer) = h
    <2>1. longer # <<>>
      <3> HIDE DEF longer
      <3>1. Len(longer) # 0
        BY <1>1
      <3>2. QED
        BY <3>1
    <2>2. LastHash(longer) = longer[Len(longer)].hash
      BY <2>1 DEF LastHash
    <2>3. QED
      BY <1>1, <2>2
  <1>4. ASSUME NEW i \in DOMAIN longer
        PROVE  longer[i].hash = Link(IF i = 1 THEN Genesis ELSE longer[i - 1].hash, longer[i].item)
    <2>1. CASE i = Len(chain) + 1
      <3>1. longer[i].hash = h /\ longer[i].item = item
        BY <1>1, <2>1
      <3>2. LastHash(chain) = IF i = 1 THEN Genesis ELSE longer[i - 1].hash
        <4>1. CASE Len(chain) = 0
          BY <1>2, <2>1, <4>1
        <4>2. CASE Len(chain) # 0
          <5>1. Len(chain) \in 1 .. Len(chain) /\ i # 1 /\ i - 1 = Len(chain)
            BY <1>1, <2>1, <4>2
          <5>2. longer[i - 1] = chain[Len(chain)]
            BY <1>1, <5>1
          <5>3. QED
            BY <1>2, <4>2, <5>1, <5>2
        <4>3. QED
          BY <4>1, <4>2
      <3>3. QED
        BY <3>1, <3>2
    <2>2. CASE i \in 1 .. Len(chain)
      <3>1. longer[i] = chain[i] /\ (i # 1 => longer[i - 1] = chain[i - 1])
        BY <1>1, <2>2
      <3>2. QED
        BY <1>1, <2>2, <3>1 DEF Verifies
    <2>3. QED
      BY <1>1, <2>1, <2>2
  <1>5. Verifies(longer)
    BY <1>4 DEF Verifies
  <1>6. QED
    BY <1>3, <1>5 DEF Linked

LEMMA LinkedIsTyped ==
  ASSUME NEW chain \in Seq(Entry), NEW previous \in Seq(Item), NEW item \in Item
  PROVE  /\ Link(previous, item) \in Seq(Item)
         /\ Linked(chain, previous, item) \in Seq(Entry)
  BY DEF Link, Linked, Entry, Item

LEMMA LastHashIsTyped ==
  ASSUME NEW chain \in Seq(Entry)
  PROVE  LastHash(chain) \in Seq(Item)
  <1>1. CASE chain = <<>>
    BY <1>1 DEF LastHash, Genesis
  <1>2. CASE chain # <<>>
    <2>1. chain[Len(chain)] \in Entry
      BY <1>2
    <2>2. QED
      BY <1>2, <2>1 DEF LastHash, Entry, Item
  <1>3. QED
    BY <1>1, <1>2

LEMMA StoreInit == Init => TypeOK /\ EventChains /\ AuditChains
  <1> SUFFICES ASSUME Init PROVE TypeOK /\ EventChains /\ AuditChains
    OBVIOUS
  <1> USE HostStoreAssumption DEF Init
  <1>1. Empty \in Content
    BY DEF Empty, Content
  <1>2. TypeOK
    <2>1. mem \in Content /\ disk \in Content /\ snapshot \in [Request -> Content]
      BY <1>1
    <2>2. /\ auditHead \in Seq(Request \X {"put", "event"})
          /\ flushQueue \in Seq([by : Request \cup {None}, content : Content])
      BY DEF Genesis
    <2>3. step \in [Request -> Steps] /\ seen \in [Request -> Nat]
      BY DEF Steps
    <2>4. driver \in Driver /\ dirty \in BOOLEAN /\ undone \in BOOLEAN
      OBVIOUS
    <2>5. overlapped \subseteq Request /\ unwritten \subseteq Request /\ forgotten \subseteq Request
      OBVIOUS
    <2>6. batchDepth \in Nat /\ crashes \in 0..MaxCrashes /\ faults \in 0..MaxFaults
      OBVIOUS
    <2>7. QED
      BY <2>1, <2>2, <2>3, <2>4, <2>5, <2>6 DEF TypeOK
  <1>3. \A c \in Contents : c = Empty
    BY DEF Contents
  <1>4. EventChains /\ AuditChains
    BY <1>3 DEF EventChains, AuditChains, Verifies, Empty, LastHash
  <1>5. QED
    BY <1>2, <1>4

-------------------------------------------------------------------------------
(* Types *)

LEMMA ItemsAreTyped ==
  ASSUME NEW r \in Request
  PROVE  Record(r) \in Item /\ Event(r) \in Item
  BY DEF Record, Event, Item

LEMMA AuditIsTyped ==
  ASSUME TypeOK, NEW item \in Item
  PROVE  Audited(item) \in Seq(Entry) /\ (KeepHead(item) => auditHead' \in Seq(Item))
  <1>1. mem.audits \in Seq(Entry) /\ auditHead \in Seq(Item)
    BY DEF TypeOK, Content, Item
  <1>2. PreviousAudit \in Seq(Item)
    BY <1>1, LastHashIsTyped DEF PreviousAudit
  <1>3. Audited(item) \in Seq(Entry) /\ Link(PreviousAudit, item) \in Seq(Item)
    BY <1>1, <1>2, LinkedIsTyped DEF Audited
  <1>4. QED
    BY <1>1, <1>3 DEF KeepHead

\* The memory after a put and after an event.
LEMMA PutMemory ==
  ASSUME TypeOK, NEW r \in Request, Put(r)
  PROVE  /\ mem' \in Content
         /\ mem'.events = mem.events /\ mem'.audits = Audited(Record(r))
  <1> DEFINE k == KeyOf[r]
             version == IF Alone(r) THEN NextVersion(r) ELSE seen[r] + 1
             row == [version |-> version, by |-> r]
  <1>1. k \in Key /\ version \in Nat
    BY HostStoreAssumption DEF TypeOK, Content, NextVersion
  <1>2. mem' = [mem EXCEPT !.rows[k] = row, !.audits = Audited(Record(r))]
    BY DEF Put
  <1>3. Audited(Record(r)) \in Seq(Entry)
    BY ItemsAreTyped, AuditIsTyped
  <1>4. mem' = [rows |-> [mem.rows EXCEPT ![k] = row], events |-> mem.events,
                audits |-> Audited(Record(r))]
    BY <1>2 DEF TypeOK, Content
  <1>5. QED
    BY <1>1, <1>3, <1>4 DEF TypeOK, Content

LEMMA EventMemory ==
  ASSUME TypeOK, NEW r \in Request, AppendEvent(r)
  PROVE  /\ mem' \in Content
         /\ mem'.events = Appended(r) /\ mem'.audits = Audited(Event(r))
  <1>1. mem' = [mem EXCEPT !.events = Appended(r), !.audits = Audited(Event(r))]
    BY DEF AppendEvent
  <1>2. Audited(Event(r)) \in Seq(Entry)
    BY ItemsAreTyped, AuditIsTyped
  <1>3. mem.events \in Seq(Entry)
    BY DEF TypeOK, Content
  <1>4. Appended(r) \in Seq(Entry)
    BY <1>3, ItemsAreTyped, LastHashIsTyped, LinkedIsTyped DEF Appended
  <1>5. mem' = [rows |-> mem.rows, events |-> Appended(r), audits |-> Audited(Event(r))]
    BY <1>1 DEF TypeOK, Content
  <1>6. QED
    BY <1>2, <1>4, <1>5 DEF TypeOK, Content

\* A sequence without its first element.
LEMMA WithoutFirst ==
  ASSUME NEW S, NEW s \in Seq(S), s # <<>>
  PROVE  LET rest == SubSeq(s, 1, 1 - 1) \o SubSeq(s, 1 + 1, Len(s)) IN
         /\ 1 \in DOMAIN s /\ s[1] \in S
         /\ rest \in Seq(S)
         /\ \A i \in DOMAIN rest : i + 1 \in DOMAIN s /\ i \in Nat /\ rest[i] = s[i + 1]
  <1> DEFINE tail == SubSeq(s, 2, Len(s))
  <1>1. Len(s) \in Nat /\ Len(s) > 0 /\ DOMAIN s = 1 .. Len(s)
    OBVIOUS
  <1>2. \A i \in 2 .. Len(s) : s[i] \in S
    BY <1>1
  <1>3. 2 \in Int /\ Len(s) \in Int
    BY <1>1
  <1>4. /\ tail \in Seq(S)
        /\ Len(tail) = IF 2 <= Len(s) THEN Len(s) - 2 + 1 ELSE 0
        /\ \A i \in 1 .. Len(s) - 2 + 1 : tail[i] = s[2 + i - 1]
    BY <1>2, <1>3, SubSeqProperties
  <1>5. \A i \in DOMAIN tail : i + 1 \in DOMAIN s /\ i \in Nat /\ tail[i] = s[i + 1]
    <2> SUFFICES ASSUME NEW i \in DOMAIN tail
                 PROVE  i + 1 \in DOMAIN s /\ i \in Nat /\ tail[i] = s[i + 1]
      OBVIOUS
    <2>1. i \in 1 .. Len(s) - 2 + 1
      BY <1>1, <1>4
    <2>2. i + 1 \in DOMAIN s /\ 2 + i - 1 = i + 1 /\ tail[i] = s[2 + i - 1]
      BY <1>1, <1>4, <2>1
    <2>3. QED
      BY <2>1, <2>2
  <1>6. SubSeq(s, 1, 1 - 1) = <<>>
    BY SubSeqEmpty
  <1>7. SubSeq(s, 1, 1 - 1) \o SubSeq(s, 1 + 1, Len(s)) = tail
    BY <1>4, <1>6
  <1>8. QED
    BY <1>1, <1>4, <1>5, <1>7

Payload == [by : Request \cup {None}, content : Content]

LEMMA PayloadIsTyped ==
  ASSUME TypeOK, NEW i \in DOMAIN flushQueue
  PROVE  flushQueue[i].by \in Request \cup {None} /\ flushQueue[i].content \in Content
  <1>1. flushQueue \in Seq(Payload)
    BY DEF TypeOK, Payload
  <1>2. flushQueue[i] \in Payload
    BY <1>1
  <1>3. QED
    BY <1>2 DEF Payload

\* What the queue of writes is after one more, and after one less.
LEMMA QueueIsTyped ==
  ASSUME TypeOK
  PROVE  /\ \A by \in Request \cup {None} :
              Append(flushQueue, [by |-> by, content |-> mem]) \in Seq(Payload)
         /\ flushQueue # <<>> =>
              /\ Turn \in DOMAIN flushQueue /\ flushQueue[Turn] \in Payload
              /\ Without(Turn) \in Seq(Payload)
              /\ \A i \in DOMAIN Without(Turn) :
                   /\ i + 1 \in DOMAIN flushQueue /\ i \in Nat
                   /\ Without(Turn)[i] = flushQueue[i + 1]
  <1>1. flushQueue \in Seq(Payload) /\ mem \in Content
    BY DEF TypeOK, Payload
  <1>2. ASSUME NEW by \in Request \cup {None}
        PROVE  Append(flushQueue, [by |-> by, content |-> mem]) \in Seq(Payload)
    <2>1. [by |-> by, content |-> mem] \in Payload
      BY <1>1 DEF Payload
    <2>2. QED
      BY <1>1, <2>1
  <1>3. QED
    BY <1>1, <1>2, WithoutFirst DEF Turn, Without

-------------------------------------------------------------------------------
(* The type invariant.  batchDepth stays a natural number because it counts the *)
(* open batches, and only requests that save a case have one.                   *)

InBatch == {"put", "saved", "append", "appended", "end", "throw"}

AloneSteps == {"idle", "saved", "writing", "ok", "error", "lost", "again"}
AloneHaveNoBatch ==
  \A r \in Request : Alone(r) => step[r] \in AloneSteps

DepthCounts == batchDepth = IF driver = "file" THEN Cardinality(Open) ELSE 0

\* Whoever has a payload in the queue has one, and waits for it.
WritersWait ==
  \A i \in DOMAIN flushQueue :
    \/ flushQueue[i].by = None
    \/ /\ step[flushQueue[i].by] = "writing"
       /\ \A j \in DOMAIN flushQueue : flushQueue[j].by = flushQueue[i].by => j = i

TypeInv == TypeOK /\ AloneHaveNoBatch /\ DepthCounts /\ WritersWait

LEMMA OpenIsFinite ==
  /\ Open \subseteq Request /\ IsFiniteSet(Open) /\ Cardinality(Open) \in Nat
  /\ \A r : IsFiniteSet(Open \ {r}) /\ IsFiniteSet(Open \cup {r})
  /\ \A r \in Open : Cardinality(Open \ {r}) = Cardinality(Open) - 1 /\ Cardinality(Open) > 0
  /\ \A r : r \notin Open => Cardinality(Open \cup {r}) = Cardinality(Open) + 1
  <1>1. Open \subseteq Request
    BY HostStoreAssumption DEF Open
  <1>2. IsFiniteSet(Open)
    BY <1>1, HostStoreAssumption, FS_Subset
  <1>3. Cardinality(Open) \in Nat
    BY <1>2, FS_CardinalityType
  <1>4. \A r : IsFiniteSet(Open \ {r}) /\ IsFiniteSet(Open \cup {r})
    BY <1>2, FS_RemoveElement, FS_AddElement
  <1>5. \A r \in Open : Cardinality(Open \ {r}) = Cardinality(Open) - 1 /\ Cardinality(Open) > 0
    <2> SUFFICES ASSUME NEW r \in Open
                 PROVE  Cardinality(Open \ {r}) = Cardinality(Open) - 1 /\ Cardinality(Open) > 0
      OBVIOUS
    <2>1. Cardinality(Open \ {r}) = Cardinality(Open) - 1
      BY <1>2, FS_RemoveElement
    <2>2. Cardinality(Open) # 0
      BY <1>2, FS_EmptySet
    <2>3. QED
      BY <1>3, <2>1, <2>2
  <1>6. \A r : r \notin Open => Cardinality(Open \cup {r}) = Cardinality(Open) + 1
    BY <1>2, FS_AddElement
  <1>7. QED
    BY <1>1, <1>2, <1>3, <1>4, <1>5, <1>6

\* What one move of a request does to the open batches.
LEMMA Moves ==
  ASSUME TypeInv, NEW r \in Request, NEW s \in Steps, Goto(r, s),
         Alone(r) => s \in AloneSteps
  PROVE  /\ step' \in [Request -> Steps]
         /\ AloneHaveNoBatch'
         /\ step'[r] = s /\ \A q \in Request \ {r} : step'[q] = step[q]
         /\ Open' = IF r \in CaseSave /\ s \in InBatch THEN Open \cup {r} ELSE Open \ {r}
         /\ step[r] # "writing" /\ UNCHANGED flushQueue => WritersWait'
  <1>1. step \in [Request -> Steps] /\ step' = [step EXCEPT ![r] = s]
    BY DEF TypeInv, TypeOK, Goto
  <1>2. step'[r] = s /\ \A q \in Request \ {r} : step'[q] = step[q]
    BY <1>1
  <1>3. AloneHaveNoBatch'
    BY <1>2 DEF TypeInv, AloneHaveNoBatch, Alone
  <1>4. Open' = IF r \in CaseSave /\ s \in InBatch THEN Open \cup {r} ELSE Open \ {r}
    <2>1. CaseSave \subseteq Request
      BY HostStoreAssumption
    <2>2. \A q \in Request \ {r} : q \in Open' <=> q \in Open
      BY <1>2 DEF Open
    <2>3. r \in Open' <=> r \in CaseSave /\ s \in InBatch
      BY <1>2 DEF Open, InBatch
    <2>4. Open \subseteq Request /\ Open' \subseteq Request
      BY <2>1 DEF Open
    <2>5. CASE r \in CaseSave /\ s \in InBatch
      BY <2>2, <2>3, <2>4, <2>5
    <2>6. CASE ~(r \in CaseSave /\ s \in InBatch)
      BY <2>2, <2>3, <2>4, <2>6
    <2>7. QED
      BY <2>5, <2>6
  <1>5. ASSUME step[r] # "writing", UNCHANGED flushQueue PROVE WritersWait'
    <2> SUFFICES ASSUME NEW i \in DOMAIN flushQueue, flushQueue[i].by # None
                 PROVE  /\ step'[flushQueue[i].by] = "writing"
                        /\ \A j \in DOMAIN flushQueue : flushQueue[j].by = flushQueue[i].by => j = i
      BY <1>5 DEF WritersWait
    <2>1. /\ step[flushQueue[i].by] = "writing"
          /\ \A j \in DOMAIN flushQueue : flushQueue[j].by = flushQueue[i].by => j = i
      BY DEF TypeInv, WritersWait
    <2>2. flushQueue[i].by \in Request
      BY PayloadIsTyped DEF TypeInv
    <2>3. QED
      BY <1>2, <1>5, <2>1, <2>2
  <1>6. QED
    BY <1>1, <1>2, <1>3, <1>4, <1>5

\* A request that stays in its batch, or stays out of one.
LEMMA StaysPut ==
  ASSUME TypeInv, NEW r \in Request, NEW s \in Steps, Goto(r, s),
         Alone(r) => s \in AloneSteps,
         ~Alone(r) => (s \in InBatch <=> step[r] \in InBatch),
         UNCHANGED <<driver, batchDepth>>
  PROVE  /\ step' \in [Request -> Steps] /\ AloneHaveNoBatch' /\ DepthCounts'
         /\ step[r] # "writing" /\ UNCHANGED flushQueue => WritersWait'
  <1>1. r \in Open <=> r \in CaseSave /\ step[r] \in InBatch
    BY DEF Open, InBatch
  <1>2. Open' = Open
    BY <1>1, Moves DEF Alone
  <1>3. QED
    BY <1>2, Moves DEF TypeInv, DepthCounts

LEMMA ReadType == ASSUME TypeInv, NEW r \in Request, Read(r) PROVE TypeInv'
  <1>1. ~Alone(r) /\ step[r] = "idle" /\ Goto(r, "read") /\ "read" \in Steps
    BY DEF Read, Alone, Steps
  <1>2. UNCHANGED <<driver, mem, auditHead, batchDepth, dirty, flushQueue, disk, snapshot,
                    overlapped, undone, unwritten, forgotten, crashes, faults>>
    BY DEF Read, storeVars, observed, bounds
  <1>3. step' \in [Request -> Steps] /\ AloneHaveNoBatch' /\ DepthCounts' /\ WritersWait'
    BY <1>1, <1>2, StaysPut DEF InBatch, AloneSteps
  <1>4. seen' \in [Request -> Nat]
    BY HostStoreAssumption DEF Read, TypeInv, TypeOK, Content
  <1>5. QED
    BY <1>2, <1>3, <1>4 DEF TypeInv, TypeOK

LEMMA BeginBatchType == ASSUME TypeInv, NEW r \in Request, BeginBatch(r) PROVE TypeInv'
  <1>1. ~Alone(r) /\ step[r] = "read" /\ Goto(r, "put") /\ "put" \in Steps
    BY DEF BeginBatch, TypeInv, AloneHaveNoBatch, AloneSteps, Steps
  <1>2. UNCHANGED <<driver, mem, auditHead, dirty, flushQueue, disk, seen, undone, unwritten, forgotten, crashes, faults>>
    BY DEF BeginBatch, bounds
  <1>3. r \notin Open /\ Open' = Open \cup {r}
    BY <1>1, Moves DEF AloneSteps, Alone, Open, InBatch
  <1>4. batchDepth' \in Nat /\ DepthCounts'
    BY <1>2, <1>3, OpenIsFinite DEF BeginBatch, Deeper, TypeInv, TypeOK, DepthCounts
  <1>5. step' \in [Request -> Steps] /\ AloneHaveNoBatch' /\ WritersWait'
    BY <1>1, <1>2, Moves DEF AloneSteps
  <1>6. snapshot' \in [Request -> Content]
    BY DEF BeginBatch, TypeInv, TypeOK
  <1>7. overlapped' \subseteq Request
    BY OpenIsFinite DEF BeginBatch, TypeInv, TypeOK
  <1>8. QED
    BY <1>2, <1>4, <1>5, <1>6, <1>7 DEF TypeInv, TypeOK

LEMMA PutType == ASSUME TypeInv, NEW r \in Request, Put(r) PROVE TypeInv'
  <1>1. /\ IF Alone(r) THEN step[r] \in {"idle", "again"} ELSE step[r] = "put"
        /\ Goto(r, "saved") /\ "saved" \in Steps
    BY DEF Put, AtPut, Steps
  <1>2. UNCHANGED <<driver, batchDepth, dirty, flushQueue, disk, seen, snapshot, undone, unwritten, forgotten, crashes, faults>>
    BY DEF Put, bounds
  <1>3. step' \in [Request -> Steps] /\ AloneHaveNoBatch' /\ DepthCounts' /\ WritersWait'
    BY <1>1, <1>2, StaysPut DEF InBatch, AloneSteps
  <1>4. mem' \in Content
    BY PutMemory DEF TypeInv
  <1>5. auditHead' \in Seq(Request \X {"put", "event"})
    BY ItemsAreTyped, AuditIsTyped DEF Put, TypeInv, Item
  <1>6. overlapped' \subseteq Request
    BY DEF Put, TypeInv, TypeOK
  <1>7. QED
    BY <1>2, <1>3, <1>4, <1>5, <1>6 DEF TypeInv, TypeOK

LEMMA AppendEventType == ASSUME TypeInv, NEW r \in Request, AppendEvent(r) PROVE TypeInv'
  <1>1. step[r] = "append" /\ ~Alone(r) /\ Goto(r, "appended") /\ "appended" \in Steps
    BY DEF AppendEvent, Steps, TypeInv, AloneHaveNoBatch, AloneSteps
  <1>2. UNCHANGED <<driver, batchDepth, dirty, flushQueue, disk, seen, snapshot,
                    overlapped, undone, unwritten, forgotten, crashes, faults>>
    BY DEF AppendEvent, observed, bounds
  <1>3. step' \in [Request -> Steps] /\ AloneHaveNoBatch' /\ DepthCounts' /\ WritersWait'
    BY <1>1, <1>2, StaysPut DEF InBatch, AloneSteps
  <1>4. mem' \in Content
    BY EventMemory DEF TypeInv
  <1>5. auditHead' \in Seq(Request \X {"put", "event"})
    BY ItemsAreTyped, AuditIsTyped DEF AppendEvent, TypeInv, Item
  <1>6. QED
    BY <1>2, <1>3, <1>4, <1>5 DEF TypeInv, TypeOK

\* A work that throws, of itself or at a conflict.
LEMMA ThrowType == ASSUME TypeInv, NEW r \in Request, Throw(r) \/ PutConflict(r) PROVE TypeInv'
  <1>1. step[r] \in {"put", "append", "end"} /\ ~Alone(r) /\ Goto(r, "throw") /\ "throw" \in Steps
    BY DEF Throw, PutConflict, Steps, TypeInv, AloneHaveNoBatch, AloneSteps
  <1>2. UNCHANGED <<driver, mem, auditHead, batchDepth, dirty, flushQueue, disk, seen, snapshot,
                    overlapped, undone, unwritten, forgotten, crashes, faults>>
    BY DEF Throw, PutConflict, storeVars, observed, bounds
  <1>3. step' \in [Request -> Steps] /\ AloneHaveNoBatch' /\ DepthCounts' /\ WritersWait'
    BY <1>1, <1>2, StaysPut DEF InBatch, AloneSteps
  <1>4. QED
    BY <1>2, <1>3 DEF TypeInv, TypeOK

\* A request that begins to wait for its write.
LEMMA Waits ==
  ASSUME TypeInv, NEW r \in Request, Goto(r, "writing"), Enqueue(r), step[r] # "writing"
  PROVE  flushQueue' \in Seq(Payload) /\ dirty' \in BOOLEAN /\ WritersWait'
  <1>1. flushQueue' = Append(flushQueue, [by |-> r, content |-> mem]) /\ dirty' = FALSE
    BY DEF Enqueue
  <1>2. flushQueue' \in Seq(Payload)
    BY <1>1, QueueIsTyped DEF TypeInv
  <1>3. flushQueue \in Seq(Payload)
    BY DEF TypeInv, TypeOK, Payload
  <1>4. /\ DOMAIN flushQueue = 1 .. Len(flushQueue) /\ Len(flushQueue) \in Nat
        /\ DOMAIN flushQueue' = 1 .. Len(flushQueue) + 1
        /\ \A i \in 1 .. Len(flushQueue) : flushQueue'[i] = flushQueue[i]
        /\ flushQueue'[Len(flushQueue) + 1] = [by |-> r, content |-> mem]
    BY <1>1, <1>3
  <1>5. \A i \in 1 .. Len(flushQueue) : flushQueue[i].by # r
    <2> SUFFICES ASSUME NEW i \in 1 .. Len(flushQueue), flushQueue[i].by = r PROVE FALSE
      OBVIOUS
    <2>1. r # None
      BY HostStoreAssumption
    <2>2. QED
      BY <1>4, <2>1 DEF TypeInv, WritersWait
  <1>6. step'[r] = "writing" /\ \A q \in Request \ {r} : step'[q] = step[q]
    BY DEF Goto, TypeInv, TypeOK
  <1>7. ASSUME NEW i \in DOMAIN flushQueue', flushQueue'[i].by # None
        PROVE  /\ step'[flushQueue'[i].by] = "writing"
               /\ \A j \in DOMAIN flushQueue' : flushQueue'[j].by = flushQueue'[i].by => j = i
    <2>1. CASE i = Len(flushQueue) + 1
      BY <1>4, <1>5, <1>6, <2>1
    <2>2. CASE i \in 1 .. Len(flushQueue)
      <3>1. flushQueue'[i] = flushQueue[i] /\ flushQueue[i].by # None /\ flushQueue[i].by # r
        BY <1>4, <1>5, <1>7, <2>2
      <3>2. flushQueue[i].by \in Request
        BY <1>4, <2>2, <3>1, PayloadIsTyped DEF TypeInv
      <3>3. /\ step[flushQueue[i].by] = "writing"
            /\ \A j \in 1 .. Len(flushQueue) : flushQueue[j].by = flushQueue[i].by => j = i
        BY <1>4, <2>2, <3>1 DEF TypeInv, WritersWait
      <3>4. QED
        BY <1>4, <1>6, <3>1, <3>2, <3>3
    <2>3. QED
      BY <1>4, <2>1, <2>2
  <1>8. WritersWait'
    BY <1>7 DEF WritersWait
  <1>9. QED
    BY <1>1, <1>2, <1>8

LEMMA FlushType == ASSUME TypeInv, NEW r \in Request, Flush(r) PROVE TypeInv'
  <1>1. /\ step[r] \in {"saved", "appended"}
        /\ Alone(r) => step[r] = "saved"
        /\ Onward(r) \in Steps
        /\ Alone(r) => Onward(r) = "ok"
        /\ ~Alone(r) => Onward(r) \in InBatch
    BY DEF Flush, TypeInv, AloneHaveNoBatch, AloneSteps, Onward, Steps, InBatch
  <1>2. UNCHANGED <<driver, batchDepth, seen, snapshot, undone, unwritten, forgotten, crashes, faults>>
    BY DEF Flush, Enqueue, storeVars, bounds
  <1>3. UNCHANGED <<mem, auditHead, disk>>
    BY DEF Flush, Enqueue, storeVars
  <1>4. overlapped' \subseteq Request
    BY DEF Flush, TypeInv, TypeOK
  <1>5. CASE Goto(r, Onward(r)) /\ UNCHANGED flushQueue /\ dirty' \in BOOLEAN
    <2>1. step' \in [Request -> Steps] /\ AloneHaveNoBatch' /\ DepthCounts' /\ WritersWait'
      BY <1>1, <1>2, <1>5, StaysPut DEF InBatch, AloneSteps
    <2>2. QED
      BY <1>2, <1>3, <1>4, <1>5, <2>1 DEF TypeInv, TypeOK
  <1>6. CASE driver = "file" /\ ~PutOff(r) /\ Enqueue(r)
             /\ Goto(r, IF Alone(r) THEN "writing" ELSE Onward(r))
    <2>1. Alone(r)
      <3>1. batchDepth = Cardinality(Open) /\ ~(batchDepth > 0)
        BY <1>6 DEF TypeInv, DepthCounts, PutOff
      <3>2. r \notin Open
        BY <3>1, OpenIsFinite
      <3>3. QED
        BY <1>1, <3>2 DEF Open, Alone
    <2>2. Goto(r, "writing") /\ "writing" \in Steps
      BY <1>6, <2>1 DEF Steps
    <2>3. step' \in [Request -> Steps] /\ AloneHaveNoBatch' /\ DepthCounts'
      BY <1>1, <1>2, <2>1, <2>2, StaysPut DEF AloneSteps
    <2>4. flushQueue' \in Seq(Payload) /\ dirty' \in BOOLEAN /\ WritersWait'
      BY <1>1, <1>6, <2>2, Waits
    <2>5. QED
      BY <1>2, <1>3, <1>4, <2>3, <2>4 DEF TypeInv, TypeOK, Payload
  <1>7. QED
    <2>1. CASE driver = "memory"
      BY <1>5, <2>1 DEF Flush, storeVars, TypeInv, TypeOK
    <2>2. CASE driver # "memory" /\ PutOff(r)
      BY <1>5, <2>2 DEF Flush
    <2>3. CASE driver # "memory" /\ ~PutOff(r)
      <3>1. driver = "file"
        BY <2>3, HostStoreAssumption DEF TypeInv, TypeOK
      <3>2. QED
        BY <1>6, <2>3, <3>1 DEF Flush
    <2>4. QED
      BY <2>1, <2>2, <2>3

LEMMA EndBatchType == ASSUME TypeInv, NEW r \in Request, EndBatch(r) PROVE TypeInv'
  <1>1. step[r] = "end" /\ ~Alone(r) /\ "ok" \in Steps /\ "writing" \in Steps
    BY DEF EndBatch, TypeInv, AloneHaveNoBatch, AloneSteps, Steps
  <1>2. UNCHANGED <<driver, seen, snapshot, overlapped, undone, unwritten, forgotten, crashes, faults>>
    BY DEF EndBatch, observed, bounds
  <1>3. UNCHANGED <<mem, auditHead, disk>>
    BY DEF EndBatch, Enqueue, storeVars
  <1>4. r \in Open
    BY <1>1 DEF Open, Alone
  <1>5. batchDepth' = IF driver = "file" THEN batchDepth - 1 ELSE batchDepth
    BY HostStoreAssumption DEF EndBatch, storeVars, TypeInv, TypeOK
  <1>6. ASSUME NEW s \in {"ok", "writing"}, Goto(r, s)
        PROVE  /\ step' \in [Request -> Steps] /\ AloneHaveNoBatch'
               /\ DepthCounts' /\ batchDepth' \in Nat
               /\ UNCHANGED flushQueue => WritersWait'
    <2>1. Open' = Open \ {r}
      BY <1>1, <1>6, Moves DEF AloneSteps, InBatch
    <2>2. DepthCounts' /\ batchDepth' \in Nat
      BY <1>2, <1>4, <1>5, <2>1, OpenIsFinite DEF TypeInv, DepthCounts
    <2>3. QED
      BY <1>1, <1>6, <2>2, Moves DEF AloneSteps
  <1>7. CASE Goto(r, "ok") /\ UNCHANGED <<flushQueue, dirty>>
    BY <1>2, <1>3, <1>6, <1>7 DEF TypeInv, TypeOK
  <1>8. CASE Goto(r, "writing") /\ Enqueue(r)
    <2>1. flushQueue' \in Seq(Payload) /\ dirty' \in BOOLEAN /\ WritersWait'
      BY <1>1, <1>8, Waits
    <2>2. QED
      BY <1>2, <1>3, <1>6, <1>8, <2>1 DEF TypeInv, TypeOK, Payload
  <1>9. QED
    BY <1>7, <1>8 DEF EndBatch, storeVars

LEMMA RollbackType == ASSUME TypeInv, NEW r \in Request, Rollback(r) PROVE TypeInv'
  <1>1. step[r] = "throw" /\ ~Alone(r) /\ Goto(r, "failed") /\ "failed" \in Steps
    BY DEF Rollback, TypeInv, AloneHaveNoBatch, AloneSteps, Steps
  <1>2. UNCHANGED <<driver, auditHead, flushQueue, disk, seen, snapshot, overlapped, unwritten, forgotten, crashes, faults>>
    BY DEF Rollback, bounds
  <1>3. r \in Open /\ Open' = Open \ {r}
    BY <1>1, Moves DEF AloneSteps, Open, InBatch, Alone
  <1>4. batchDepth' = IF driver = "file" THEN batchDepth - 1 ELSE batchDepth
    BY DEF Rollback
  <1>5. DepthCounts' /\ batchDepth' \in Nat
    BY <1>2, <1>3, <1>4, OpenIsFinite DEF TypeInv, DepthCounts
  <1>6. step' \in [Request -> Steps] /\ AloneHaveNoBatch' /\ WritersWait'
    BY <1>1, <1>2, Moves DEF AloneSteps
  <1>7. mem' \in Content
    BY DEF Rollback, Restored, TypeInv, TypeOK
  <1>8. dirty' \in BOOLEAN /\ undone' \in BOOLEAN
    BY DEF Rollback, TypeInv, TypeOK
  <1>9. QED
    BY <1>2, <1>5, <1>6, <1>7, <1>8 DEF TypeInv, TypeOK

\* The first payload leaves the queue, and its request, if it is one's, goes on.
LEMMA Answered ==
  ASSUME TypeInv, flushQueue # <<>>, NEW s \in {"ok", "error"},
         step' = [r \in Request |-> IF r = flushQueue[Turn].by THEN s ELSE step[r]],
         flushQueue' = Without(Turn), UNCHANGED <<driver, batchDepth>>
  PROVE  /\ step' \in [Request -> Steps] /\ AloneHaveNoBatch' /\ DepthCounts'
         /\ flushQueue' \in Seq(Payload) /\ WritersWait'
  <1>1. step \in [Request -> Steps] /\ s \in Steps /\ Turn = 1
    BY DEF TypeInv, TypeOK, Steps, Turn
  <1>2. /\ 1 \in DOMAIN flushQueue
        /\ flushQueue' \in Seq(Payload)
        /\ \A i \in DOMAIN flushQueue' :
             i + 1 \in DOMAIN flushQueue /\ i \in Nat /\ flushQueue'[i] = flushQueue[i + 1]
    BY <1>1, QueueIsTyped DEF TypeInv
  <1>3. ASSUME NEW r \in Request, r = flushQueue[1].by PROVE step[r] = "writing"
    <2>1. r # None
      BY HostStoreAssumption
    <2>2. QED
      BY <1>2, <1>3, <2>1 DEF TypeInv, WritersWait
  <1>4. step' \in [Request -> Steps]
    BY <1>1
  <1>5. AloneHaveNoBatch'
    BY <1>1 DEF TypeInv, AloneHaveNoBatch, AloneSteps, Alone
  <1>6. Open' = Open
    BY <1>1, <1>3, HostStoreAssumption DEF Open
  <1>7. ASSUME NEW i \in DOMAIN flushQueue', flushQueue'[i].by # None
        PROVE  /\ step'[flushQueue'[i].by] = "writing"
               /\ \A j \in DOMAIN flushQueue' : flushQueue'[j].by = flushQueue'[i].by => j = i
    <2>1. /\ i + 1 \in DOMAIN flushQueue /\ i \in Nat /\ flushQueue'[i] = flushQueue[i + 1]
          /\ flushQueue[i + 1].by # None
      BY <1>2, <1>7
    <2>2. /\ step[flushQueue[i + 1].by] = "writing"
          /\ \A j \in DOMAIN flushQueue : flushQueue[j].by = flushQueue[i + 1].by => j = i + 1
      BY <2>1 DEF TypeInv, WritersWait
    <2>3. flushQueue[i + 1].by \in Request /\ flushQueue[1].by # flushQueue[i + 1].by
      BY <1>2, <2>1, <2>2, PayloadIsTyped DEF TypeInv
    <2>4. step'[flushQueue'[i].by] = "writing"
      BY <1>1, <2>1, <2>2, <2>3
    <2>5. ASSUME NEW j \in DOMAIN flushQueue', flushQueue'[j].by = flushQueue'[i].by PROVE j = i
      <3>1. j + 1 \in DOMAIN flushQueue /\ j \in Nat /\ flushQueue'[j] = flushQueue[j + 1]
        BY <1>2
      <3>2. j + 1 = i + 1
        BY <2>1, <2>2, <2>5, <3>1
      <3>3. QED
        BY <2>1, <3>1, <3>2
    <2>6. QED
      BY <2>4, <2>5
  <1>8. WritersWait'
    BY <1>7 DEF WritersWait
  <1>9. DepthCounts'
    BY <1>6 DEF TypeInv, DepthCounts
  <1>10. QED
    BY <1>2, <1>4, <1>5, <1>8, <1>9

LEMMA WriteType == ASSUME TypeInv, Write \/ WriteFails PROVE TypeInv'
  <1>1. flushQueue # <<>> /\ UNCHANGED <<driver, batchDepth, mem, auditHead, dirty, seen, snapshot,
                                         overlapped, undone, unwritten, forgotten, crashes>>
    BY DEF Write, WriteFails, observed, bounds
  <1>2. /\ step' \in [Request -> Steps] /\ AloneHaveNoBatch' /\ DepthCounts'
        /\ flushQueue' \in Seq(Payload) /\ WritersWait'
    BY <1>1, Answered DEF Write, WriteFails
  <1>3. disk' \in Content
    <2>1. CASE Write
      BY <1>1, <2>1, QueueIsTyped DEF Write, TypeInv, Payload
    <2>2. CASE WriteFails
      BY <2>2 DEF WriteFails, TypeInv, TypeOK
    <2>3. QED
      BY <2>1, <2>2
  <1>4. faults' \in 0 .. MaxFaults
    BY HostStoreAssumption DEF Write, WriteFails, TypeInv, TypeOK, bounds
  <1>5. QED
    BY <1>1, <1>2, <1>3, <1>4 DEF TypeInv, TypeOK, Payload

LEMMA CloseType == ASSUME TypeInv, Close PROVE TypeInv'
  <1>1. UNCHANGED <<driver, batchDepth, mem, auditHead, disk, step, seen, snapshot,
                    overlapped, undone, unwritten, forgotten, crashes, faults>>
    BY DEF Close, Enqueue, observed, bounds
  <1>2. dirty' \in BOOLEAN
    BY DEF Close, Enqueue, TypeInv, TypeOK
  <1>3. flushQueue' \in Seq(Payload) /\ WritersWait'
    <2>1. CASE UNCHANGED flushQueue
      BY <1>1, <2>1 DEF TypeInv, TypeOK, Payload, WritersWait
    <2>2. CASE flushQueue = <<>> /\ Enqueue(None)
      <3>1. flushQueue' = Append(flushQueue, [by |-> None, content |-> mem])
        BY <2>2 DEF Enqueue
      <3>2. flushQueue' \in Seq(Payload)
        BY <3>1, QueueIsTyped DEF TypeInv
      <3>3. DOMAIN flushQueue' = {1} /\ flushQueue'[1].by = None
        BY <2>2, <3>1
      <3>4. QED
        BY <3>2, <3>3 DEF WritersWait
    <2>3. QED
      BY <2>1, <2>2 DEF Close
  <1>4. AloneHaveNoBatch' /\ DepthCounts'
    BY <1>1 DEF TypeInv, AloneHaveNoBatch, AloneSteps, DepthCounts, Open, Alone
  <1>5. QED
    BY <1>1, <1>2, <1>3, <1>4 DEF TypeInv, TypeOK, Payload

LEMMA PutUnchangedType == ASSUME TypeInv, NEW r \in Request, PutUnchanged(r) PROVE TypeInv'
  <1>1. /\ Alone(r) /\ step[r] \in {"idle", "again"}
        /\ Goto(r, "ok") /\ "ok" \in Steps
    BY HostStoreAssumption DEF PutUnchanged, AtPut, Unchanged, Alone, Steps
  <1>2. UNCHANGED <<driver, mem, auditHead, batchDepth, dirty, flushQueue, disk, seen, snapshot,
                    overlapped, undone, forgotten, crashes, faults>>
    BY DEF PutUnchanged, storeVars, bounds
  <1>3. step' \in [Request -> Steps] /\ AloneHaveNoBatch' /\ DepthCounts' /\ WritersWait'
    BY <1>1, <1>2, StaysPut DEF AloneSteps
  <1>4. unwritten' \subseteq Request
    BY DEF PutUnchanged, TypeInv, TypeOK
  <1>5. QED
    BY <1>2, <1>3, <1>4 DEF TypeInv, TypeOK

LEMMA RetryType == ASSUME TypeInv, NEW r \in Request, Retry(r) PROVE TypeInv'
  <1>1. /\ Alone(r) /\ step[r] \in {"error", "lost"}
        /\ Goto(r, "again") /\ "again" \in Steps
    BY DEF Retry, Steps
  <1>2. UNCHANGED <<driver, mem, auditHead, batchDepth, dirty, flushQueue, disk, seen, snapshot,
                    overlapped, undone, unwritten, forgotten, crashes, faults>>
    BY DEF Retry, storeVars, observed, bounds
  <1>3. step' \in [Request -> Steps] /\ AloneHaveNoBatch' /\ DepthCounts' /\ WritersWait'
    BY <1>1, <1>2, StaysPut DEF AloneSteps
  <1>4. QED
    BY <1>2, <1>3 DEF TypeInv, TypeOK

\* The end of a process, whether or not the next one reads the file.
LEMMA RestartType == ASSUME TypeInv, Restart \/ RestartUnread PROVE TypeInv'
  <1>0. Ends
    BY DEF Restart, RestartUnread
  <1>1. UNCHANGED <<driver, disk, seen, snapshot, overlapped, undone, unwritten>>
    BY <1>0 DEF Ends
  <1>2. batchDepth' = 0 /\ dirty' = FALSE /\ flushQueue' = <<>>
    BY <1>0 DEF Ends
  <1>3. /\ mem' \in Content /\ auditHead' \in Seq(Request \X {"put", "event"})
        /\ forgotten' \subseteq Request /\ faults' \in 0 .. MaxFaults
    <2>1. CASE Restart
      <3>1. disk.audits \in Seq(Entry) /\ disk \in Content
        BY DEF TypeInv, TypeOK, Content
      <3>2. auditHead' \in Seq(Request \X {"put", "event"})
        BY <2>1, <3>1, LastHashIsTyped DEF Restart, LoadedHead, Item
      <3>3. QED
        BY <2>1, <3>1, <3>2 DEF Restart, TypeInv, TypeOK
    <2>2. CASE RestartUnread
      <3>1. Empty \in Content
        BY HostStoreAssumption DEF Empty, Content
      <3>2. Genesis \in Seq(Request \X {"put", "event"})
        BY DEF Genesis
      <3>3. QED
        BY <2>2, <3>1, <3>2, HostStoreAssumption DEF RestartUnread, TypeInv, TypeOK
    <2>3. QED
      BY <2>1, <2>2
  <1>4. step' = [r \in Request |->
          IF step[r] \in {"idle", "ok", "failed", "error", "again"} THEN step[r] ELSE "lost"]
    BY <1>0 DEF Ends
  <1>5. step' \in [Request -> Steps] /\ AloneHaveNoBatch'
    BY <1>4 DEF TypeInv, TypeOK, AloneHaveNoBatch, AloneSteps, Alone, Steps
  <1>6. Open' = {}
    BY <1>4, HostStoreAssumption DEF Open
  <1>7. DepthCounts'
    BY <1>2, <1>6, FS_EmptySet DEF DepthCounts
  <1>8. WritersWait' /\ flushQueue' \in Seq([by : Request \cup {None}, content : Content])
    BY <1>2 DEF WritersWait
  <1>9. crashes' \in 0 .. MaxCrashes
    BY <1>0, HostStoreAssumption DEF Ends, TypeInv, TypeOK
  <1>10. QED
    BY <1>1, <1>2, <1>3, <1>5, <1>7, <1>8, <1>9 DEF TypeInv, TypeOK

LEMMA TypeStep == TypeInv /\ [Next]_vars => TypeInv'
  <1> SUFFICES ASSUME TypeInv, [Next]_vars PROVE TypeInv'
    OBVIOUS
  <1>1. CASE UNCHANGED vars
    BY <1>1 DEF vars, storeVars, observed, bounds, TypeInv, TypeOK, AloneHaveNoBatch, DepthCounts,
                WritersWait, Open, Alone
  <1>2. ASSUME NEW r \in Request, Serve(r) \/ Throw(r) \/ Retry(r) PROVE TypeInv'
    BY <1>2, ReadType, BeginBatchType, PutType, PutUnchangedType, RetryType, ThrowType,
       AppendEventType, FlushType, EndBatchType, RollbackType DEF Serve
  <1>3. CASE Write \/ WriteFails \/ Close \/ Restart \/ RestartUnread
    BY <1>3, WriteType, CloseType, RestartType
  <1>4. QED
    BY <1>1, <1>2, <1>3 DEF Next

LEMMA TypeInit == Init => TypeInv
  <1> SUFFICES ASSUME Init PROVE TypeInv
    OBVIOUS
  <1>1. step = [r \in Request |-> "idle"] /\ flushQueue = <<>> /\ batchDepth = 0
    BY DEF Init
  <1>2. AloneHaveNoBatch /\ WritersWait
    BY <1>1 DEF AloneHaveNoBatch, AloneSteps, WritersWait
  <1>3. Open = {}
    BY <1>1, HostStoreAssumption DEF Open
  <1>4. DepthCounts
    BY <1>1, <1>3, FS_EmptySet DEF DepthCounts
  <1>5. QED
    BY <1>2, <1>4, StoreInit DEF TypeInv

LEMMA TypeInvHolds == Spec => []TypeInv
  <1>1. QED
    BY TypeInit, TypeStep, PTL DEF Spec

\* Every variable keeps the shape the code gives it; in particular batchDepth,
\* which every batch raises and lowers, never goes below 0.
THEOREM StoreTypeCorrect == Spec => []TypeOK
  <1>1. TypeInv => TypeOK
    BY DEF TypeInv
  <1>2. QED
    BY <1>1, TypeInvHolds, PTL

-------------------------------------------------------------------------------
(* Chains *)

\* The content of memory changes into something new by a put or an event only;
\* every other step moves contents about, and with them the head of the audits.
Adds == \E r \in Request : Put(r) \/ AppendEvent(r)

MovesOnly ==
  /\ mem' \in Contents
  /\ undone' \/ driver' # "file" \/ UNCHANGED <<mem, auditHead>>
       \/ auditHead' = LastHash(mem'.audits)

NothingElseIsNew ==
  /\ \A c \in Contents' : c \in Contents \/ c = mem'
  /\ undone => undone'
  /\ UNCHANGED driver

\* The contents when memory, file or queue change.
LEMMA ContentsAre ==
  ASSUME \A r \in Request : snapshot'[r] \in Contents \cup {mem'},
         disk' \in Contents \cup {mem'},
         \A i \in DOMAIN flushQueue' : flushQueue'[i].content \in Contents \cup {mem'}
  PROVE  \A c \in Contents' : c \in Contents \/ c = mem'
  BY DEF Contents

\* The queue holds what it held, or what memory holds too.
LEMMA QueueHolds ==
  ASSUME TypeInv,
         \/ UNCHANGED flushQueue
         \/ UNCHANGED mem /\ \E by \in Request \cup {None} :
              flushQueue' = Append(flushQueue, [by |-> by, content |-> mem])
         \/ flushQueue # <<>> /\ flushQueue' = Without(Turn)
         \/ flushQueue' = <<>>
  PROVE  \A i \in DOMAIN flushQueue' : flushQueue'[i].content \in Contents
  <1>1. flushQueue \in Seq(Payload) /\ mem \in Contents
    BY DEF TypeInv, TypeOK, Payload, Contents
  <1>2. \A i \in DOMAIN flushQueue : flushQueue[i].content \in Contents
    BY DEF Contents
  <1>3. CASE UNCHANGED flushQueue
    BY <1>2, <1>3
  <1>4. ASSUME NEW by \in Request \cup {None},
               flushQueue' = Append(flushQueue, [by |-> by, content |-> mem])
        PROVE  \A i \in DOMAIN flushQueue' : flushQueue'[i].content \in Contents
    <2>1. /\ DOMAIN flushQueue' = 1 .. Len(flushQueue) + 1 /\ DOMAIN flushQueue = 1 .. Len(flushQueue)
          /\ Len(flushQueue) \in Nat
          /\ \A i \in 1 .. Len(flushQueue) : flushQueue'[i] = flushQueue[i]
          /\ flushQueue'[Len(flushQueue) + 1] = [by |-> by, content |-> mem]
      BY <1>1, <1>4
    <2>2. QED
      BY <1>1, <1>2, <2>1
  <1>5. CASE flushQueue # <<>> /\ flushQueue' = Without(Turn)
    BY <1>2, <1>5, QueueIsTyped DEF TypeInv
  <1>6. CASE flushQueue' = <<>>
    BY <1>6
  <1>7. QED
    BY <1>3, <1>4, <1>5, <1>6

LEMMA HeldContents ==
  /\ Empty \in Contents /\ mem \in Contents /\ disk \in Contents
  /\ \A r \in Request : snapshot[r] \in Contents
  /\ \A i \in DOMAIN flushQueue : flushQueue[i].content \in Contents
  BY DEF Contents

LEMMA StepContents ==
  ASSUME TypeInv, [Next]_vars
  PROVE  NothingElseIsNew /\ (Adds \/ MovesOnly)
  <1>0. snapshot \in [Request -> Content]
    BY DEF TypeInv, TypeOK
  <1>1. CASE UNCHANGED <<driver, storeVars, snapshot, undone>>
    <2>1. Contents' = Contents
      BY <1>1 DEF Contents, storeVars
    <2>2. QED
      BY <1>1, <2>1, HeldContents DEF NothingElseIsNew, MovesOnly, storeVars
  <1>2. ASSUME NEW r \in Request, BeginBatch(r) PROVE NothingElseIsNew /\ MovesOnly
    <2>1. /\ UNCHANGED <<driver, mem, auditHead, flushQueue, disk, undone>>
          /\ snapshot' = [snapshot EXCEPT ![r] = mem]
      BY <1>2 DEF BeginBatch
    <2>2. \A q \in Request : snapshot'[q] \in Contents
      BY <1>0, <2>1, HeldContents
    <2>3. QED
      BY <2>1, <2>2, HeldContents, ContentsAre DEF NothingElseIsNew, MovesOnly
  <1>3. ASSUME NEW r \in Request, Put(r) \/ AppendEvent(r) PROVE NothingElseIsNew /\ Adds
    <2>1. UNCHANGED <<driver, flushQueue, disk, snapshot, undone>>
      BY <1>3 DEF Put, AppendEvent, observed
    <2>2. QED
      BY <1>3, <2>1, HeldContents, ContentsAre DEF NothingElseIsNew, Adds
  <1>4. ASSUME NEW r \in Request, Flush(r) \/ EndBatch(r) PROVE NothingElseIsNew /\ MovesOnly
    <2>1. UNCHANGED <<driver, mem, auditHead, disk, snapshot, undone>>
      BY <1>4 DEF Flush, EndBatch, Enqueue, storeVars, observed
    <2>2. UNCHANGED flushQueue \/ Enqueue(r)
      BY <1>4 DEF Flush, EndBatch, storeVars
    <2>3. \A i \in DOMAIN flushQueue' : flushQueue'[i].content \in Contents
      BY <2>1, <2>2, QueueHolds DEF Enqueue
    <2>4. QED
      BY <2>1, <2>3, HeldContents, ContentsAre DEF NothingElseIsNew, MovesOnly
  <1>5. ASSUME NEW r \in Request, Rollback(r) PROVE NothingElseIsNew /\ MovesOnly
    <2>1. UNCHANGED <<driver, auditHead, flushQueue, disk, snapshot>> /\ mem' = snapshot[r]
      BY <1>5 DEF Rollback, Restored
    <2>2. (driver = "file" => undone') /\ (undone => undone')
      BY <1>5 DEF Rollback
    <2>3. QED
      BY <2>1, <2>2, HeldContents, ContentsAre DEF NothingElseIsNew, MovesOnly
  <1>6. CASE Write
    <2>1. /\ UNCHANGED <<driver, mem, auditHead, snapshot, undone>>
          /\ flushQueue # <<>> /\ flushQueue' = Without(Turn)
          /\ disk' = flushQueue[Turn].content
      BY <1>6 DEF Write, observed
    <2>2. disk' \in Contents
      BY <2>1, HeldContents, QueueIsTyped DEF TypeInv
    <2>3. \A i \in DOMAIN flushQueue' : flushQueue'[i].content \in Contents
      BY <2>1, QueueHolds
    <2>4. QED
      BY <2>1, <2>2, <2>3, HeldContents, ContentsAre DEF NothingElseIsNew, MovesOnly
  <1>7. CASE WriteFails \/ Close
    <2>1. UNCHANGED <<driver, mem, auditHead, disk, snapshot, undone>>
      BY <1>7 DEF WriteFails, Close, Enqueue, observed
    <2>2. \/ UNCHANGED flushQueue
          \/ flushQueue' = Append(flushQueue, [by |-> None, content |-> mem])
          \/ flushQueue # <<>> /\ flushQueue' = Without(Turn)
      BY <1>7 DEF WriteFails, Close, Enqueue
    <2>3. \A i \in DOMAIN flushQueue' : flushQueue'[i].content \in Contents
      BY <2>1, <2>2, QueueHolds
    <2>4. QED
      BY <2>1, <2>3, HeldContents, ContentsAre DEF NothingElseIsNew, MovesOnly
  <1>8. CASE Restart \/ RestartUnread
    <2>1. /\ UNCHANGED <<driver, disk, snapshot, undone>> /\ flushQueue' = <<>>
          /\ mem' \in {disk, Empty} /\ auditHead' = LastHash(mem'.audits)
      BY <1>8 DEF Restart, RestartUnread, Ends, LoadedHead, LastHash, Empty, Genesis
    <2>2. \A i \in DOMAIN flushQueue' : flushQueue'[i].content \in Contents
      BY <2>1
    <2>3. QED
      BY <2>1, <2>2, HeldContents, ContentsAre DEF NothingElseIsNew, MovesOnly
  <1>9. ASSUME NEW r \in Request,
               Read(r) \/ PutConflict(r) \/ PutUnchanged(r) \/ Throw(r) \/ Retry(r)
        PROVE  UNCHANGED <<driver, storeVars, snapshot, undone>>
    <2>1. CASE Read(r)
      BY <2>1 DEF Read, observed
    <2>2. CASE PutConflict(r)
      BY <2>2 DEF PutConflict, observed
    <2>3. CASE Throw(r)
      BY <2>3 DEF Throw, observed
    <2>4. CASE PutUnchanged(r)
      BY <2>4 DEF PutUnchanged
    <2>5. CASE Retry(r)
      BY <2>5 DEF Retry, observed
    <2>6. QED
      BY <1>9, <2>1, <2>2, <2>3, <2>4, <2>5
  <1>10. CASE UNCHANGED vars
    BY <1>1, <1>10 DEF vars, observed
  <1>11. CASE Next
    BY <1>1, <1>2, <1>3, <1>4, <1>5, <1>6, <1>7, <1>8, <1>9, <1>11 DEF Next, Serve
  <1>12. QED
    BY <1>10, <1>11

LEMMA EventsStep == TypeInv /\ EventChains /\ [Next]_vars => EventChains'
  <1> SUFFICES ASSUME TypeInv, EventChains, [Next]_vars PROVE EventChains'
    OBVIOUS
  <1>1. mem.events \in Seq(Entry) /\ Verifies(mem.events)
    BY HeldContents DEF TypeInv, TypeOK, Content, EventChains
  <1>2. Verifies(mem'.events)
    <2>1. CASE MovesOnly
      BY <2>1 DEF MovesOnly, EventChains
    <2>2. ASSUME NEW r \in Request, Put(r) PROVE Verifies(mem'.events)
      BY <1>1, <2>2, PutMemory DEF TypeInv
    <2>3. ASSUME NEW r \in Request, AppendEvent(r) PROVE Verifies(mem'.events)
      <3>1. Verifies(Linked(mem.events, LastHash(mem.events), Event(r)))
        BY <1>1, ItemsAreTyped, LinkedVerifies
      <3>2. QED
        BY <2>3, <3>1, EventMemory DEF TypeInv, Appended
    <2>4. QED
      BY <2>1, <2>2, <2>3, StepContents DEF Adds
  <1>3. QED
    BY <1>2, StepContents DEF EventChains, NothingElseIsNew

\* verifyChain finds the events of memory and of the file in order, whatever
\* batches failed, overlapped or were cut off by a crash: a batch that fails puts
\* back a chain that verified when it was copied.
THEOREM EventsAlwaysVerify == Spec => []EventsVerify
  <1>1. Init => EventChains
    BY StoreInit
  <1>2. EventChains => EventsVerify
    BY HeldContents DEF EventChains, EventsVerify
  <1>3. Spec => []EventChains
    BY <1>1, EventsStep, TypeInvHolds, PTL DEF Spec
  <1>4. QED
    BY <1>2, <1>3, PTL

LEMMA AuditsStep == TypeInv /\ AuditChains /\ [Next]_vars => AuditChains'
  <1> SUFFICES ASSUME TypeInv, AuditChains, [Next]_vars, ~undone'
               PROVE  /\ \A c \in Contents' : Verifies(c.audits)
                      /\ driver' = "file" => auditHead' = LastHash(mem'.audits)
    BY DEF AuditChains
  <1>1. /\ \A c \in Contents : Verifies(c.audits)
        /\ driver = "file" => auditHead = LastHash(mem.audits)
        /\ driver' = driver
    BY StepContents DEF AuditChains, NothingElseIsNew
  <1>2. mem.audits \in Seq(Entry) /\ Verifies(mem.audits)
    BY <1>1, HeldContents DEF TypeInv, TypeOK, Content
  <1>3. ASSUME NEW item \in Item, mem'.audits = Audited(item), KeepHead(item)
        PROVE  /\ Verifies(mem'.audits)
               /\ driver' = "file" => auditHead' = LastHash(mem'.audits)
    <2>1. PreviousAudit = LastHash(mem.audits)
      BY <1>1 DEF PreviousAudit
    <2>2. /\ Verifies(Audited(item))
          /\ LastHash(Audited(item)) = Link(LastHash(mem.audits), item)
      BY <1>2, <2>1, LinkedVerifies DEF Audited
    <2>3. QED
      BY <1>1, <1>3, <2>1, <2>2 DEF KeepHead
  <1>4. ASSUME NEW r \in Request, Put(r) \/ AppendEvent(r)
        PROVE  /\ Verifies(mem'.audits)
               /\ driver' = "file" => auditHead' = LastHash(mem'.audits)
    <2>1. CASE Put(r)
      <3>1. mem'.audits = Audited(Record(r)) /\ KeepHead(Record(r))
        BY <2>1, PutMemory DEF TypeInv, Put
      <3>2. QED
        BY <1>3, <3>1, ItemsAreTyped
    <2>2. CASE AppendEvent(r)
      <3>1. mem'.audits = Audited(Event(r)) /\ KeepHead(Event(r))
        BY <2>2, EventMemory DEF TypeInv, AppendEvent
      <3>2. QED
        BY <1>3, <3>1, ItemsAreTyped
    <2>3. QED
      BY <1>4, <2>1, <2>2
  <1>5. CASE MovesOnly
    BY <1>1, <1>5, StepContents DEF MovesOnly, NothingElseIsNew
  <1>6. CASE Adds
    BY <1>1, <1>4, <1>6, StepContents DEF Adds, NothingElseIsNew
  <1>7. QED
    BY <1>5, <1>6, StepContents

\* The audit trail of memory and of the file verifies as long as no batch of the
\* file provider has failed: until then the head kept apart from the records is
\* the hash of the last of them.
THEOREM AuditsVerifyUntilABatchFails == Spec => []AuditsVerifyUntilUndone
  <1>1. Init => AuditChains
    BY StoreInit
  <1>2. AuditChains => AuditsVerifyUntilUndone
    BY HeldContents DEF AuditChains, AuditsVerifyUntilUndone
  <1>3. Spec => []AuditChains
    BY <1>1, AuditsStep, TypeInvHolds, PTL DEF Spec
  <1>4. QED
    BY <1>2, <1>3, PTL

-------------------------------------------------------------------------------
(* Rows and their audit records: whoever wrote a row has left a record of it. *)

RowsAudited(content) ==
  \A k \in Key : LET by == content.rows[k].by IN
    by # None => Record(by) \in Items(content.audits)

RowsLeaveRecords == \A c \in Contents : RowsAudited(c)

-------------------------------------------------------------------------------
(* Where a request's writes are.  Claims are about requests that met no batch  *)
(* of another one.                                                             *)

\* What may get to memory or to the file without any request that writes.
Aside == {disk} \cup {flushQueue[i].content : i \in DOMAIN flushQueue} \cup {snapshot[q] : q \in Open}

Settled(content, r) == Whole(content, r) \/ Absent(content, r)
Unsaved == {"idle", "read", "put", "failed"}

\* A case is in memory alone while its batch is open, no other batch is, and
\* something is put off once it has a row; before and after, it is whole or
\* absent wherever one looks.
CaseHistory(r) ==
  /\ r \in Open => Open = {r}
  /\ driver = "file" /\ step[r] \in {"append", "appended", "end"} => dirty
  /\ step[r] \in {"saved", "append", "appended", "end"} => Saved(mem, r)
  /\ step[r] \in {"appended", "end"} => Told(mem, r)
  /\ step[r] \in Unsaved => Absent(mem, r)
  /\ step[r] \in Unsaved \cup InBatch => \A c \in Aside : Absent(c, r)
  /\ r \notin Open => Settled(mem, r) /\ \A c \in Aside : Settled(c, r)

\* From the payload of r on, every payload holds what r wrote.
Ordered(queue, r) ==
  \A i, j \in DOMAIN queue : i <= j /\ queue[i].by = r => Whole(queue[j].content, r)

\* Requests that wait for their client to send them, or to send them again.
Unsent == {"idle", "error", "lost", "again"}

\* Then the record of a put is in memory and in all that may replace it or be
\* written, or it is not in memory and will not come back to it.
Kept(r) ==
  Alone(r) /\ step[r] \in Unsent =>
    \/ /\ Saved(mem, r) /\ \A q \in Open : Saved(snapshot[q], r)
       /\ \A i \in DOMAIN flushQueue : Saved(flushQueue[i].content, r)
    \/ ~Saved(mem, r) /\ \A q \in Open : ~Saved(snapshot[q], r)

Excepted(r) == r \in unwritten \cup forgotten

\* Once answered, a request is in whatever may get to memory or to the file;
\* while it waits, in its own payload and all that are written after it.
Durable(r) ==
  /\ step[r] = "ok" /\ ~Excepted(r) => Whole(mem, r) /\ \A c \in Aside : Whole(c, r)
  /\ step[r] = "writing" \/ (Alone(r) /\ step[r] = "saved") =>
       Whole(mem, r) /\ \A q \in Open : Whole(snapshot[q], r)
  /\ step[r] = "writing" => Ordered(flushQueue, r)
  /\ Kept(r)

History(r) ==
  /\ r \in CaseSave => CaseHistory(r)
  /\ driver = "file" => Durable(r)
Histories == \A r \in Request \ overlapped : History(r)

LEMMA ItemsOfLinked ==
  ASSUME NEW chain \in Seq(Entry), NEW previous \in Seq(Item), NEW item \in Item
  PROVE  Items(Linked(chain, previous, item)) = Items(chain) \cup {item}
  <1> DEFINE e == [item |-> item, hash |-> Link(previous, item)]
             n == Len(chain)
  <1>1. e \in Entry /\ e.item = item
    BY LinkedIsTyped DEF Entry, Item
  <1> HIDE DEF e
  <1>2. /\ n \in Nat /\ DOMAIN chain = 1 .. n /\ DOMAIN Append(chain, e) = 1 .. n + 1
        /\ \A i \in 1 .. n : Append(chain, e)[i] = chain[i]
        /\ Append(chain, e)[n + 1] = e
    <2>1. /\ Append(chain, e) \in Seq(Entry) /\ Len(Append(chain, e)) = n + 1
          /\ \A i \in 1 .. n : Append(chain, e)[i] = chain[i]
          /\ Append(chain, e)[n + 1] = e
      BY <1>1, AppendProperties
    <2>2. QED
      BY <2>1
  <1>3. Linked(chain, previous, item) = Append(chain, e)
    BY DEF Linked, e
  <1> DEFINE longer == Append(chain, e)
  <1> HIDE DEF longer
  <1>4. Items(longer) = Items(chain) \cup {item}
    <2>1. \A i \in DOMAIN chain : i \in DOMAIN longer /\ longer[i] = chain[i]
      BY <1>2 DEF longer
    <2>2. n + 1 \in DOMAIN longer /\ longer[n + 1].item = item
      BY <1>1, <1>2 DEF longer
    <2>3. \A i \in DOMAIN longer : i \in DOMAIN chain \/ i = n + 1
      BY <1>2 DEF longer
    <2>4. QED
      BY <2>1, <2>2, <2>3 DEF Items
  <1>5. QED
    BY <1>3, <1>4 DEF longer

LEMMA AuditedItems ==
  ASSUME TypeOK, NEW item \in Item
  PROVE  Items(Audited(item)) = Items(mem.audits) \cup {item}
  <1>1. mem.audits \in Seq(Entry) /\ PreviousAudit \in Seq(Item)
    BY LastHashIsTyped DEF TypeOK, Content, PreviousAudit, Item
  <1>2. QED
    BY <1>1, ItemsOfLinked DEF Audited

\* What a put and an event add to memory.
LEMMA PutAdds ==
  ASSUME TypeOK, NEW q \in Request, Put(q)
  PROVE  /\ \A r \in Request : Told(mem', r) <=> Told(mem, r)
         /\ \A r \in Request \ {q} : Saved(mem', r) <=> Saved(mem, r)
         /\ Saved(mem', q)
  <1>1. mem'.events = mem.events /\ mem'.audits = Audited(Record(q))
    BY PutMemory
  <1>2. mem.audits \in Seq(Entry) /\ PreviousAudit \in Seq(Item) /\ Record(q) \in Item
    BY LastHashIsTyped, ItemsAreTyped DEF TypeOK, Content, PreviousAudit, Item
  <1>3. Items(mem'.audits) = Items(mem.audits) \cup {Record(q)}
    BY <1>1, <1>2, ItemsOfLinked DEF Audited
  <1>4. \A r \in Request \ {q} : Record(r) # Record(q)
    BY DEF Record
  <1>5. QED
    BY <1>1, <1>3, <1>4 DEF Saved, Told

LEMMA EventAdds ==
  ASSUME TypeOK, NEW q \in Request, AppendEvent(q)
  PROVE  /\ \A r \in Request : Saved(mem', r) <=> Saved(mem, r)
         /\ \A r \in Request \ {q} : Told(mem', r) <=> Told(mem, r)
         /\ Told(mem', q)
  <1>1. mem'.events = Appended(q) /\ mem'.audits = Audited(Event(q))
    BY EventMemory
  <1>2. /\ mem.audits \in Seq(Entry) /\ PreviousAudit \in Seq(Item) /\ Event(q) \in Item
        /\ mem.events \in Seq(Entry) /\ LastHash(mem.events) \in Seq(Item)
    BY LastHashIsTyped, ItemsAreTyped DEF TypeOK, Content, PreviousAudit, Item
  <1>3. /\ Items(mem'.audits) = Items(mem.audits) \cup {Event(q)}
        /\ Items(mem'.events) = Items(mem.events) \cup {Event(q)}
    BY <1>1, <1>2, ItemsOfLinked DEF Audited, Appended
  <1>4. /\ \A r \in Request : Record(r) # Event(q)
        /\ \A r \in Request \ {q} : Event(r) # Event(q)
    BY DEF Record, Event
  <1>5. QED
    BY <1>3, <1>4 DEF Saved, Told

LEMMA RowsInit == Init => RowsLeaveRecords
  BY DEF Init, RowsLeaveRecords, RowsAudited, Contents, Empty

LEMMA RowsStep == TypeInv /\ RowsLeaveRecords /\ [Next]_vars => RowsLeaveRecords'
  <1> SUFFICES ASSUME TypeInv, RowsLeaveRecords, [Next]_vars PROVE RowsLeaveRecords'
    OBVIOUS
  <1>1. TypeOK /\ mem \in Content /\ RowsAudited(mem)
    BY HeldContents DEF TypeInv, TypeOK, RowsLeaveRecords
  <1>2. ASSUME NEW r \in Request, Put(r) PROVE RowsAudited(mem')
    <2>1. \A k \in Key : mem'.rows[k].by = mem.rows[k].by \/ mem'.rows[k].by = r
      <3> DEFINE version == IF Alone(r) THEN NextVersion(r) ELSE seen[r] + 1
                 row == [version |-> version, by |-> r]
      <3>1. mem' = [mem EXCEPT !.rows[KeyOf[r]] = row, !.audits = Audited(Record(r))]
        BY <1>2 DEF Put
      <3>2. mem'.rows = [mem.rows EXCEPT ![KeyOf[r]] = row] /\ row.by = r
        BY <1>1, <3>1 DEF Content
      <3> HIDE DEF row
      <3>3. QED
        BY <1>1, <3>2 DEF Content
    <2>2. mem'.audits = Audited(Record(r))
      BY <1>1, <1>2, PutMemory
    <2>3. Items(mem'.audits) = Items(mem.audits) \cup {Record(r)}
      BY <1>1, <2>2, AuditedItems, ItemsAreTyped
    <2>4. QED
      BY <1>1, <2>1, <2>3 DEF RowsAudited
  <1>3. ASSUME NEW r \in Request, AppendEvent(r) PROVE RowsAudited(mem')
    <2>1. mem'.rows = mem.rows
      BY <1>1, <1>3 DEF AppendEvent, Content
    <2>2. mem'.audits = Audited(Event(r))
      BY <1>1, <1>3, EventMemory
    <2>3. Items(mem'.audits) = Items(mem.audits) \cup {Event(r)}
      BY <1>1, <2>2, AuditedItems, ItemsAreTyped
    <2>4. QED
      BY <1>1, <2>1, <2>3 DEF RowsAudited
  <1>4. RowsAudited(mem')
    <2>1. CASE MovesOnly
      BY <2>1 DEF MovesOnly, RowsLeaveRecords
    <2>2. QED
      BY <1>2, <1>3, <2>1, StepContents DEF Adds
  <1>5. QED
    BY <1>4, StepContents DEF RowsLeaveRecords, NothingElseIsNew

\* How a step that is not of r changes the queue of writes.
QueueMoves(r) ==
  \/ UNCHANGED flushQueue
  \/ flushQueue # <<>> /\ flushQueue' = Without(Turn)
  \/ \E b \in (Request \cup {None}) \ {r} :
       flushQueue' = Append(flushQueue, [by |-> b, content |-> mem])

LEMMA QueueKeepsOrder ==
  ASSUME TypeInv, NEW r \in Request, QueueMoves(r)
  PROVE  /\ \A i \in DOMAIN flushQueue' : flushQueue'[i].content \in Aside \cup {mem}
         /\ UNCHANGED flushQueue \/ (flushQueue # <<>> /\ flushQueue' = Without(Turn)) =>
              \A i \in DOMAIN flushQueue' : flushQueue'[i].content \in Aside
         /\ Whole(mem, r) /\ Ordered(flushQueue, r) => Ordered(flushQueue', r)
  <1>1. \A i \in DOMAIN flushQueue : flushQueue[i].content \in Aside
    BY DEF Aside
  <1>2. CASE UNCHANGED flushQueue
    BY <1>1, <1>2
  <1>3. CASE flushQueue # <<>> /\ flushQueue' = Without(Turn)
    <2>1. \A i \in DOMAIN flushQueue' :
            i + 1 \in DOMAIN flushQueue /\ i \in Nat /\ flushQueue'[i] = flushQueue[i + 1]
      BY <1>3, QueueIsTyped DEF TypeInv
    <2>2. \A i \in DOMAIN flushQueue' : flushQueue'[i].content \in Aside
      BY <1>1, <2>1
    <2>3. ASSUME Ordered(flushQueue, r), NEW i \in DOMAIN flushQueue', NEW j \in DOMAIN flushQueue',
                 i <= j, flushQueue'[i].by = r
          PROVE  Whole(flushQueue'[j].content, r)
      <3>1. /\ i + 1 \in DOMAIN flushQueue /\ j + 1 \in DOMAIN flushQueue /\ i + 1 <= j + 1
            /\ flushQueue'[i] = flushQueue[i + 1] /\ flushQueue'[j] = flushQueue[j + 1]
        BY <2>1, <2>3
      <3>2. QED
        BY <2>3, <3>1 DEF Ordered
    <2>4. QED
      BY <2>2, <2>3 DEF Ordered
  <1>4. ASSUME NEW b \in (Request \cup {None}) \ {r},
               flushQueue' = Append(flushQueue, [by |-> b, content |-> mem])
        PROVE  /\ \A i \in DOMAIN flushQueue' : flushQueue'[i].content \in Aside \cup {mem}
               /\ Whole(mem, r) /\ Ordered(flushQueue, r) => Ordered(flushQueue', r)
    <2> DEFINE n == Len(flushQueue)
               payload == [by |-> b, content |-> mem]
    <2>1. flushQueue \in Seq(Payload) /\ payload \in Payload /\ payload.by # r
          /\ payload.content = mem
      BY DEF TypeInv, TypeOK, Payload
    <2> HIDE DEF payload
    <2>2. /\ n \in Nat /\ DOMAIN flushQueue = 1 .. n /\ DOMAIN flushQueue' = 1 .. n + 1
          /\ \A i \in 1 .. n : flushQueue'[i] = flushQueue[i]
          /\ flushQueue'[n + 1] = payload
      BY <1>4, <2>1, AppendProperties DEF payload
    <2>3. \A i \in DOMAIN flushQueue' : flushQueue'[i].content \in Aside \cup {mem}
      BY <1>1, <2>1, <2>2
    <2>4. ASSUME Whole(mem, r), Ordered(flushQueue, r),
                 NEW i \in DOMAIN flushQueue', NEW j \in DOMAIN flushQueue',
                 i <= j, flushQueue'[i].by = r
          PROVE  Whole(flushQueue'[j].content, r)
      <3>1. i \in 1 .. n
        BY <2>1, <2>2, <2>4
      <3>2. CASE j = n + 1
        BY <2>1, <2>2, <2>4, <3>2
      <3>3. CASE j # n + 1
        <4>1. i \in DOMAIN flushQueue /\ j \in DOMAIN flushQueue
              /\ flushQueue'[i] = flushQueue[i] /\ flushQueue'[j] = flushQueue[j]
          BY <2>2, <3>1, <3>3
        <4>2. QED
          BY <2>4, <4>1 DEF Ordered
      <3>4. QED
        BY <3>2, <3>3
    <2>5. QED
      BY <2>3, <2>4 DEF Ordered
  <1>5. CASE ~(UNCHANGED flushQueue \/ (flushQueue # <<>> /\ flushQueue' = Without(Turn)))
    BY <1>4, <1>5 DEF QueueMoves
  <1>6. QED
    BY <1>2, <1>3, <1>5

\* Every payload was in the queue before, or is what memory holds.
LEMMA QueueComesFrom ==
  ASSUME TypeInv, NEW r \in Request, QueueMoves(r)
  PROVE  \A i \in DOMAIN flushQueue' :
           flushQueue'[i].content = mem
             \/ \E j \in DOMAIN flushQueue : flushQueue'[i].content = flushQueue[j].content
  <1>1. CASE UNCHANGED flushQueue
    BY <1>1
  <1>2. CASE flushQueue # <<>> /\ flushQueue' = Without(Turn)
    BY <1>2, QueueIsTyped DEF TypeInv
  <1>3. ASSUME NEW b \in (Request \cup {None}) \ {r},
               flushQueue' = Append(flushQueue, [by |-> b, content |-> mem]),
               NEW i \in DOMAIN flushQueue'
        PROVE  flushQueue'[i].content = mem
                 \/ \E j \in DOMAIN flushQueue : flushQueue'[i].content = flushQueue[j].content
    <2> DEFINE n == Len(flushQueue)
               payload == [by |-> b, content |-> mem]
    <2>1. flushQueue \in Seq(Payload) /\ payload \in Payload /\ payload.content = mem
      BY DEF TypeInv, TypeOK, Payload
    <2> HIDE DEF payload
    <2>2. /\ n \in Nat /\ DOMAIN flushQueue = 1 .. n /\ DOMAIN flushQueue' = 1 .. n + 1
          /\ \A k \in 1 .. n : flushQueue'[k] = flushQueue[k]
          /\ flushQueue'[n + 1] = payload
      BY <1>3, <2>1, AppendProperties DEF payload
    <2>3. CASE i = n + 1
      BY <2>1, <2>2, <2>3
    <2>4. CASE i # n + 1
      BY <1>3, <2>2, <2>4
    <2>5. QED
      BY <2>3, <2>4
  <1>4. QED
    BY <1>1, <1>2, <1>3 DEF QueueMoves

\* A request that waits behind its own payload, the last one and its only one.
LEMMA LastInLine ==
  ASSUME TypeInv, NEW r \in Request, step[r] # "writing", Enqueue(r), Whole(mem, r)
  PROVE  /\ Ordered(flushQueue', r)
         /\ \A i \in DOMAIN flushQueue' : flushQueue'[i].content \in Aside \cup {mem}
  <1> DEFINE n == Len(flushQueue)
             payload == [by |-> r, content |-> mem]
  <1>1. flushQueue \in Seq(Payload) /\ payload \in Payload /\ payload.content = mem
    BY DEF TypeInv, TypeOK, Payload
  <1>2. flushQueue' = Append(flushQueue, payload)
    BY DEF Enqueue
  <1> HIDE DEF payload
  <1>3. /\ n \in Nat /\ DOMAIN flushQueue = 1 .. n /\ DOMAIN flushQueue' = 1 .. n + 1
        /\ \A i \in 1 .. n : flushQueue'[i] = flushQueue[i]
        /\ flushQueue'[n + 1] = payload
    BY <1>1, <1>2, AppendProperties
  <1>4. r # None
    BY HostStoreAssumption
  <1>5. \A i \in DOMAIN flushQueue : flushQueue[i].by # r
    BY <1>4 DEF TypeInv, WritersWait
  <1>6. \A i \in DOMAIN flushQueue : flushQueue[i].content \in Aside
    BY DEF Aside
  <1>7. \A i \in DOMAIN flushQueue' : flushQueue'[i].content \in Aside \cup {mem}
    BY <1>1, <1>3, <1>6
  <1>8. ASSUME NEW i \in DOMAIN flushQueue', NEW j \in DOMAIN flushQueue',
               i <= j, flushQueue'[i].by = r
        PROVE  Whole(flushQueue'[j].content, r)
    <2>1. i = n + 1
      BY <1>3, <1>5, <1>8
    <2>2. j = n + 1
      BY <1>3, <1>8, <2>1
    <2>3. QED
      BY <1>1, <1>3, <2>2
  <1>9. QED
    BY <1>7, <1>8 DEF Ordered

LEMMA InOpen ==
  ASSUME NEW r \in Request
  PROVE  /\ r \in Open <=> r \in CaseSave /\ step[r] \in InBatch
         /\ (r \in Open)' <=> r \in CaseSave /\ step'[r] \in InBatch
  BY HostStoreAssumption DEF Open, InBatch

\* What the steps of others may do to r: memory is the same to r, or is put back
\* to what was copied before; a copy, a payload, the file hold what was in memory
\* or in one of them; and while the batch of r is open, only its own steps do that.
Unharmed(r) ==
  /\ step'[r] = step[r] /\ driver' = driver /\ (Excepted(r) => Excepted(r)')
  /\ \/ (Saved(mem', r) <=> Saved(mem, r)) /\ (Told(mem', r) <=> Told(mem, r))
     \/ r \notin Open /\ \E p \in Open : mem' = snapshot[p]
  /\ QueueMoves(r)
  /\ disk' \in Aside
  /\ \A p \in Open' : snapshot'[p] = mem \/ (p \in Open /\ snapshot'[p] = snapshot[p])
  /\ r \in Open => /\ Open' = Open /\ (dirty => dirty') /\ UNCHANGED snapshot
                   /\ UNCHANGED flushQueue \/ (flushQueue # <<>> /\ flushQueue' = Without(Turn))

LEMMA KeptByOthers ==
  ASSUME TypeInv, NEW r \in Request, Kept(r), Unharmed(r)
  PROVE  Kept(r)'
  <1> SUFFICES ASSUME Alone(r), step[r] \in Unsent
               PROVE  \/ /\ Saved(mem', r) /\ \A q \in Open' : Saved(snapshot'[q], r)
                         /\ \A i \in DOMAIN flushQueue' : Saved(flushQueue'[i].content, r)
                      \/ ~Saved(mem', r) /\ \A q \in Open' : ~Saved(snapshot'[q], r)
    BY DEF Kept, Unharmed, Alone, Saved
  <1>1. \/ Saved(mem', r) <=> Saved(mem, r)
        \/ \E p \in Open : mem' = snapshot[p]
    BY DEF Unharmed
  <1>2. \A p \in Open' : snapshot'[p] = mem \/ (p \in Open /\ snapshot'[p] = snapshot[p])
    BY DEF Unharmed
  <1>3. CASE /\ Saved(mem, r) /\ \A q \in Open : Saved(snapshot[q], r)
             /\ \A i \in DOMAIN flushQueue : Saved(flushQueue[i].content, r)
    <2>1. \A i \in DOMAIN flushQueue' :
            flushQueue'[i].content = mem
              \/ \E j \in DOMAIN flushQueue : flushQueue'[i].content = flushQueue[j].content
      BY QueueComesFrom DEF Unharmed
    <2>2. QED
      BY <1>1, <1>2, <1>3, <2>1
  <1>4. CASE ~Saved(mem, r) /\ \A q \in Open : ~Saved(snapshot[q], r)
    BY <1>1, <1>2, <1>4
  <1>5. QED
    BY <1>3, <1>4 DEF Kept

LEMMA Bystander ==
  ASSUME TypeInv, NEW r \in Request, History(r), Unharmed(r)
  PROVE  History(r)'
  <1>1. \A p \in Open : snapshot[p] \in Aside
    BY DEF Aside
  <1>2. Aside' \subseteq Aside \cup {mem}
    BY <1>1, QueueKeepsOrder DEF Aside, Unharmed, Excepted
  <1>3. r \in Open => Aside' \subseteq Aside
    BY QueueKeepsOrder DEF Aside, Unharmed, Excepted
  <1>4. (r \in Open)' <=> r \in Open
    BY InOpen DEF Unharmed, Excepted
  <1>5. CASE r \in Open
    <2>1. /\ Saved(mem', r) <=> Saved(mem, r)
          /\ Told(mem', r) <=> Told(mem, r)
          /\ step'[r] = step[r] /\ driver' = driver /\ Open' = Open /\ (dirty => dirty')
      BY <1>5 DEF Unharmed, Excepted
    <2>2. r \in CaseSave /\ step[r] \in InBatch
      BY <1>5, InOpen
    <2>3. CaseHistory(r)'
      BY <1>3, <1>5, <2>1, <2>2 DEF History, CaseHistory, Absent
    <2>4. step'[r] \notin {"ok", "writing"} /\ ~Alone(r)
      BY <2>1, <2>2 DEF InBatch, Alone
    <2>5. QED
      BY <2>3, <2>4 DEF History, Durable, Kept, Unsent, Excepted, Alone
  <1>6. CASE r \notin Open
    <2>1. step'[r] = step[r] /\ driver' = driver
      BY DEF Unharmed, Excepted
    <2>2. ASSUME r \in CaseSave PROVE CaseHistory(r)'
      <3>1. CaseHistory(r) /\ step[r] \notin InBatch
        BY <1>6, <2>2, InOpen DEF History
      <3>2. Settled(mem, r) /\ \A c \in Aside : Settled(c, r)
        BY <1>6, <3>1 DEF CaseHistory
      <3>3. step[r] \in Unsaved => Absent(mem, r) /\ \A c \in Aside : Absent(c, r)
        BY <3>1 DEF CaseHistory
      <3>4. Settled(mem', r) /\ (step[r] \in Unsaved => Absent(mem', r))
        <4>1. CASE (Saved(mem', r) <=> Saved(mem, r)) /\ (Told(mem', r) <=> Told(mem, r))
          BY <3>2, <3>3, <4>1 DEF Settled, Whole, Absent
        <4>2. CASE \E p \in Open : mem' = snapshot[p]
          BY <1>1, <3>2, <3>3, <4>2
        <4>3. QED
          BY <4>1, <4>2 DEF Unharmed, Excepted
      <3>5. /\ \A c \in Aside' : Settled(c, r)
            /\ step[r] \in Unsaved => \A c \in Aside' : Absent(c, r)
        BY <1>2, <3>2, <3>3
      <3>6. QED
        BY <1>4, <1>6, <2>1, <3>1, <3>4, <3>5 DEF CaseHistory, InBatch, Settled, Whole, Absent, Saved, Told
    <2>3. ASSUME driver = "file" PROVE Durable(r)'
      <3>1. Durable(r)
        BY <2>3 DEF History
      <3>2. ASSUME Whole(mem, r), \A q \in Open : Whole(snapshot[q], r)
            PROVE  Whole(mem', r) /\ \A q \in Open' : Whole(snapshot'[q], r)
        <4>1. CASE (Saved(mem', r) <=> Saved(mem, r)) /\ (Told(mem', r) <=> Told(mem, r))
          BY <3>2, <4>1 DEF Whole, Unharmed, Excepted
        <4>2. CASE \E p \in Open : mem' = snapshot[p]
          BY <3>2, <4>2 DEF Unharmed, Excepted
        <4>3. QED
          BY <4>1, <4>2 DEF Unharmed, Excepted
      <3>3. step[r] = "ok" /\ ~Excepted(r)' => Whole(mem', r) /\ \A c \in Aside' : Whole(c, r)
        BY <1>1, <1>2, <3>1, <3>2 DEF Durable, Unharmed
      <3>4. step[r] = "writing" => Ordered(flushQueue', r)
        BY <3>1, QueueKeepsOrder DEF Durable, Unharmed
      <3>5. step[r] = "writing" \/ (Alone(r) /\ step[r] = "saved") =>
              Whole(mem', r) /\ \A q \in Open' : Whole(snapshot'[q], r)
        BY <3>1, <3>2 DEF Durable
      <3>6. Kept(r)'
        BY <2>1, <3>1, KeptByOthers DEF Durable
      <3>7. QED
        BY <2>1, <3>3, <3>4, <3>5, <3>6
           DEF Durable, Kept, Unsent, Excepted, Alone, Whole, Saved, Told, Ordered
    <2>4. QED
      BY <2>1, <2>2, <2>3 DEF History
  <1>7. QED
    BY <1>5, <1>6

\* A step within the bounds of its request: nothing is copied, put back, queued or
\* written, and no batch begins or ends.
LEMMA QuietHarmsNobody ==
  ASSUME TypeInv, NEW q \in Request, NEW s \in Steps, Goto(q, s),
         q \in Open <=> q \in CaseSave /\ s \in InBatch,
         UNCHANGED <<driver, flushQueue, disk, snapshot, unwritten, forgotten>>, dirty => dirty',
         NEW r \in Request \ {q},
         Saved(mem', r) <=> Saved(mem, r), Told(mem', r) <=> Told(mem, r)
  PROVE  Unharmed(r)
  <1>1. step \in [Request -> Steps]
    BY DEF TypeInv, TypeOK
  <1>2. step'[q] = s /\ \A p \in Request \ {q} : step'[p] = step[p]
    BY <1>1 DEF Goto
  <1>3. Open' = Open
    <2>1. \A p \in Request : p \in Open' <=> p \in Open
      BY <1>2, InOpen
    <2>2. Open \subseteq Request /\ Open' \subseteq Request
      BY HostStoreAssumption DEF Open
    <2>3. QED
      BY <2>1, <2>2
  <1>4. disk' \in Aside
    BY DEF Aside
  <1>5. QED
    BY <1>2, <1>3, <1>4 DEF Unharmed, Excepted, QueueMoves

LEMMA HistoryOf ==
  ASSUME Histories, NEW r \in Request \ overlapped', overlapped \subseteq overlapped'
  PROVE  r \in Request /\ r \notin overlapped /\ History(r)
  BY DEF Histories

LEMMA ReadHistory ==
  ASSUME TypeInv, Histories, NEW q \in Request, Read(q), NEW r \in Request \ overlapped'
  PROVE  History(r)'
  <1>1. /\ q \in CaseSave /\ step[q] = "idle" /\ Goto(q, "read") /\ "read" \in Steps
        /\ q \notin Open
        /\ UNCHANGED <<driver, mem, dirty, flushQueue, disk, snapshot, overlapped, unwritten, forgotten>>
    BY InOpen DEF Read, storeVars, observed, Steps, InBatch
  <1>2. History(r) /\ r \in Request
    BY <1>1, HistoryOf
  <1>3. CASE r # q
    BY <1>1, <1>2, <1>3, QuietHarmsNobody, Bystander DEF InBatch, Saved, Told
  <1>4. CASE r = q
    <2>1. step'[r] = "read"
      BY <1>1, <1>4 DEF Goto, TypeInv, TypeOK
    <2>2. Open' = Open
      BY <1>1, Moves DEF AloneSteps, Alone, InBatch
    <2>3. Aside' = Aside
      BY <1>1, <2>2 DEF Aside
    <2>4. Absent(mem, r) /\ \A c \in Aside : Absent(c, r)
      BY <1>1, <1>2, <1>4 DEF History, CaseHistory, Unsaved
    <2>5. mem' = mem /\ r \notin Open'
      BY <1>1, <1>4, <2>2
    <2>6. CaseHistory(r)'
      BY <2>1, <2>3, <2>4, <2>5 DEF CaseHistory, Unsaved, InBatch, Settled, Absent, Whole, Saved, Told
    <2>7. Durable(r)'
      BY <1>1, <1>4, <2>1 DEF Durable, Kept, Unsent, Excepted, Alone
    <2>8. QED
      BY <2>6, <2>7 DEF History
  <1>5. QED
    BY <1>3, <1>4

LEMMA BeginBatchHistory ==
  ASSUME TypeInv, Histories, NEW q \in Request, BeginBatch(q), NEW r \in Request \ overlapped'
  PROVE  History(r)'
  <1>1. /\ ~Alone(q) /\ step[q] = "read" /\ Goto(q, "put") /\ "put" \in Steps
        /\ UNCHANGED <<driver, mem, dirty, flushQueue, disk, unwritten, forgotten>>
        /\ snapshot' = [snapshot EXCEPT ![q] = mem]
        /\ overlapped' = IF Open = {} THEN overlapped ELSE overlapped \cup Open \cup {q}
    BY DEF BeginBatch, TypeInv, AloneHaveNoBatch, AloneSteps, Steps
  <1>2. History(r) /\ r \in Request
    BY <1>1, HistoryOf
  <1>3. q \notin Open /\ Open' = Open \cup {q} /\ r \notin Open
        /\ step'[q] = "put" /\ \A p \in Request \ {q} : step'[p] = step[p]
    BY <1>1, Moves DEF AloneSteps, Alone, Open, InBatch
  <1>4. /\ snapshot'[q] = mem
        /\ \A p \in Open : snapshot'[p] = snapshot[p]
    BY <1>1, <1>3, OpenIsFinite DEF TypeInv, TypeOK
  <1>5. CASE r # q
    <2>1. disk' \in Aside
      BY <1>1 DEF Aside
    <2>2. Unharmed(r)
      BY <1>1, <1>3, <1>4, <1>5, <2>1 DEF Unharmed, Excepted, QueueMoves, Saved, Told
    <2>3. QED
      BY <1>2, <2>2, Bystander
  <1>6. CASE r = q
    <2>1. Open = {} /\ Open' = {r}
      BY <1>1, <1>3, <1>6
    <2>2. Aside' \subseteq Aside \cup {mem}
      BY <1>1, <1>4, <1>6, <2>1 DEF Aside
    <2>3. Absent(mem, r) /\ \A c \in Aside : Absent(c, r)
      BY <1>1, <1>2, <1>6 DEF History, CaseHistory, Unsaved, Alone
    <2>4. step'[r] = "put" /\ mem' = mem
      BY <1>1, <1>3, <1>6
    <2>5. CaseHistory(r)'
      BY <2>1, <2>2, <2>3, <2>4 DEF CaseHistory, Unsaved, InBatch, Absent, Saved, Told
    <2>6. Durable(r)'
      BY <2>4 DEF Durable, Kept, Unsent, Excepted
    <2>7. QED
      BY <2>5, <2>6 DEF History
  <1>7. QED
    BY <1>5, <1>6

LEMMA PutHistory ==
  ASSUME TypeInv, Histories, NEW q \in Request, Put(q), NEW r \in Request \ overlapped'
  PROVE  History(r)'
  <1>1. /\ IF Alone(q) THEN step[q] \in {"idle", "again"} ELSE step[q] = "put"
        /\ Goto(q, "saved") /\ "saved" \in Steps
        /\ UNCHANGED <<driver, dirty, flushQueue, disk, snapshot, unwritten, forgotten>>
        /\ overlapped' = IF Alone(q) /\ Open # {} THEN overlapped \cup {q} ELSE overlapped
    BY DEF Put, AtPut, Steps
  <1>2. History(r) /\ r \in Request
    BY <1>1, HistoryOf
  <1>3. /\ \A p \in Request : Told(mem', p) <=> Told(mem, p)
        /\ \A p \in Request \ {q} : Saved(mem', p) <=> Saved(mem, p)
        /\ Saved(mem', q)
    BY PutAdds DEF TypeInv
  <1>4. q \in Open <=> q \in CaseSave
    BY <1>1, InOpen DEF Alone, InBatch
  <1>5. CASE r # q
    BY <1>1, <1>2, <1>3, <1>4, <1>5, QuietHarmsNobody, Bystander DEF InBatch
  <1>6. CASE r = q
    <2>1. step'[r] = "saved"
      BY <1>1, <1>6 DEF Goto, TypeInv, TypeOK
    <2>2. Open' = Open
      BY <1>1, <1>4, Moves DEF AloneSteps, InBatch, Alone
    <2>3. Aside' = Aside
      BY <1>1, <2>2 DEF Aside
    <2>4. ASSUME r \in CaseSave PROVE CaseHistory(r)' /\ Durable(r)'
      <3>1. Open = {r} /\ \A c \in Aside : Absent(c, r)
        BY <1>1, <1>2, <1>4, <1>6, <2>4 DEF History, CaseHistory, Unsaved, Alone
      <3>2. CaseHistory(r)'
        BY <1>3, <1>6, <2>1, <2>2, <2>3, <3>1 DEF CaseHistory, Unsaved, InBatch, Absent, Saved, Told
      <3>3. QED
        BY <2>1, <2>4, <3>2 DEF Durable, Kept, Unsent, Excepted, Alone
    <2>5. ASSUME r \notin CaseSave PROVE Durable(r)'
      <3>1. Open' = {}
        BY <1>1, <1>6, <2>2, <2>5 DEF Alone
      <3>2. Whole(mem', r)
        BY <1>3, <1>6, <2>5 DEF Whole
      <3>3. QED
        BY <2>1, <3>1, <3>2 DEF Durable, Kept, Unsent, Excepted, Whole, Saved, Told
    <2>6. QED
      BY <2>4, <2>5 DEF History
  <1>7. QED
    BY <1>5, <1>6

LEMMA ThrowHistory ==
  ASSUME TypeInv, Histories, NEW q \in Request, Throw(q) \/ PutConflict(q),
         NEW r \in Request \ overlapped'
  PROVE  History(r)'
  <1>1. /\ step[q] \in {"put", "append", "end"} /\ ~Alone(q) /\ Goto(q, "throw")
        /\ "throw" \in Steps
        /\ UNCHANGED <<driver, mem, dirty, flushQueue, disk, snapshot, overlapped, unwritten, forgotten>>
    BY DEF Throw, PutConflict, Steps, TypeInv, AloneHaveNoBatch, AloneSteps, storeVars, observed
  <1>2. History(r) /\ r \in Request
    BY <1>1, HistoryOf
  <1>3. q \in Open /\ q \in CaseSave
    BY <1>1, InOpen DEF Alone, InBatch
  <1>4. CASE r # q
    BY <1>1, <1>2, <1>3, <1>4, QuietHarmsNobody, Bystander DEF InBatch, Saved, Told
  <1>5. CASE r = q
    <2>1. step'[r] = "throw"
      BY <1>1, <1>5 DEF Goto, TypeInv, TypeOK
    <2>2. Open' = Open
      BY <1>1, <1>3, Moves DEF AloneSteps, InBatch
    <2>3. Aside' = Aside
      BY <1>1, <2>2 DEF Aside
    <2>4. Open = {r} /\ \A c \in Aside : Absent(c, r)
      BY <1>1, <1>2, <1>3, <1>5 DEF History, CaseHistory, Unsaved, InBatch
    <2>5. CaseHistory(r)'
      BY <2>1, <2>2, <2>3, <2>4 DEF CaseHistory, Unsaved, InBatch, Absent, Saved, Told
    <2>6. Durable(r)'
      BY <2>1 DEF Durable, Kept, Unsent, Excepted
    <2>7. QED
      BY <2>5, <2>6 DEF History
  <1>6. QED
    BY <1>4, <1>5

LEMMA AppendEventHistory ==
  ASSUME TypeInv, Histories, NEW q \in Request, AppendEvent(q), NEW r \in Request \ overlapped'
  PROVE  History(r)'
  <1>1. /\ step[q] = "append" /\ ~Alone(q) /\ Goto(q, "appended") /\ "appended" \in Steps
        /\ UNCHANGED <<driver, dirty, flushQueue, disk, snapshot, overlapped, unwritten, forgotten>>
    BY DEF AppendEvent, Steps, TypeInv, AloneHaveNoBatch, AloneSteps, observed
  <1>2. History(r) /\ r \in Request
    BY <1>1, HistoryOf
  <1>3. /\ \A p \in Request : Saved(mem', p) <=> Saved(mem, p)
        /\ \A p \in Request \ {q} : Told(mem', p) <=> Told(mem, p)
        /\ Told(mem', q)
    BY EventAdds DEF TypeInv
  <1>4. q \in Open /\ q \in CaseSave
    BY <1>1, InOpen DEF Alone, InBatch
  <1>5. CASE r # q
    BY <1>1, <1>2, <1>3, <1>4, <1>5, QuietHarmsNobody, Bystander DEF InBatch
  <1>6. CASE r = q
    <2>1. step'[r] = "appended"
      BY <1>1, <1>6 DEF Goto, TypeInv, TypeOK
    <2>2. Open' = Open
      BY <1>1, <1>4, Moves DEF AloneSteps, InBatch
    <2>3. Aside' = Aside
      BY <1>1, <2>2 DEF Aside
    <2>4. /\ Open = {r} /\ Saved(mem, r) /\ (driver = "file" => dirty)
          /\ \A c \in Aside : Absent(c, r)
      BY <1>1, <1>2, <1>4, <1>6 DEF History, CaseHistory, Unsaved, InBatch
    <2>5. Saved(mem', r) /\ Told(mem', r) /\ driver' = driver /\ dirty' = dirty
      BY <1>1, <1>3, <1>6, <2>4
    <2>6. CaseHistory(r)'
      BY <2>1, <2>2, <2>3, <2>4, <2>5 DEF CaseHistory, Unsaved, InBatch, Absent, Saved, Told
    <2>7. Durable(r)'
      BY <1>1, <1>6, <2>1 DEF Durable, Kept, Unsent, Excepted
    <2>8. QED
      BY <2>6, <2>7 DEF History
  <1>7. QED
    BY <1>5, <1>6
\* A payload of q is taken while no batch is open.
LEMMA TakenAlone ==
  ASSUME TypeInv, NEW q \in Request, NEW s \in Steps, Goto(q, s), Open' = {}, Open \subseteq {q},
         flushQueue' = Append(flushQueue, [by |-> q, content |-> mem]), UNCHANGED <<driver, mem, disk, unwritten, forgotten>>,
         NEW r \in Request \ {q}
  PROVE  Unharmed(r)
  <1>1. step'[r] = step[r]
    BY DEF Goto, TypeInv, TypeOK
  <1>2. QueueMoves(r)
    BY DEF QueueMoves
  <1>3. disk' \in Aside
    BY DEF Aside
  <1>4. QED
    BY <1>1, <1>2, <1>3 DEF Unharmed, Excepted, Saved, Told

LEMMA FlushHistory ==
  ASSUME TypeInv, Histories, NEW q \in Request, Flush(q), NEW r \in Request \ overlapped'
  PROVE  History(r)'
  <1>1. /\ step[q] \in {"saved", "appended"} /\ (Alone(q) => step[q] = "saved")
        /\ Onward(q) = IF step[q] = "appended" THEN "end" ELSE IF Alone(q) THEN "ok" ELSE "append"
        /\ Onward(q) \in Steps
        /\ q \in Open <=> q \in CaseSave
        /\ UNCHANGED <<driver, mem, disk, snapshot, unwritten, forgotten>>
        /\ overlapped' = IF Alone(q) /\ PutOff(q) THEN overlapped \cup {q} ELSE overlapped
    BY InOpen DEF Flush, TypeInv, AloneHaveNoBatch, AloneSteps, Onward, Steps, InBatch, storeVars, Enqueue
  <1>2. History(r) /\ r \in Request
    BY <1>1, HistoryOf
  <1>3. CASE Goto(q, Onward(q)) /\ UNCHANGED flushQueue /\ (dirty => dirty')
             /\ (driver = "file" => dirty' = TRUE /\ PutOff(q))
    <2>1. q \in Open <=> q \in CaseSave /\ Onward(q) \in InBatch
      BY <1>1 DEF Alone, InBatch
    <2>2. CASE r # q
      BY <1>1, <1>2, <1>3, <2>1, <2>2, QuietHarmsNobody, Bystander DEF Saved, Told
    <2>3. CASE r = q /\ r \in CaseSave
      <3>1. step'[r] = Onward(r) /\ Open' = Open
        BY <1>1, <1>3, <2>1, <2>3, Moves DEF AloneSteps, Alone
      <3>2. Aside' = Aside
        BY <1>1, <1>3, <3>1 DEF Aside
      <3>3. /\ Open = {r} /\ Saved(mem, r) /\ (step[r] = "appended" => Told(mem, r))
            /\ \A c \in Aside : Absent(c, r)
        BY <1>1, <1>2, <2>3 DEF History, CaseHistory, InBatch
      <3>4. step'[r] = IF step[r] = "appended" THEN "end" ELSE "append"
        BY <1>1, <2>3, <3>1 DEF Alone
      <3>5. CaseHistory(r)'
        BY <1>1, <1>3, <3>1, <3>2, <3>3, <3>4
           DEF CaseHistory, Unsaved, InBatch, Absent, Saved, Told
      <3>6. Durable(r)'
        BY <2>3, <3>4 DEF Durable, Kept, Unsent, Excepted, Alone
      <3>7. QED
        BY <3>5, <3>6 DEF History
    <2>4. CASE r = q /\ r \notin CaseSave
      <3>1. driver # "file"
        BY <1>1, <1>3, <2>4 DEF Alone
      <3>2. QED
        BY <1>1, <2>4, <3>1 DEF History
    <2>5. QED
      BY <2>2, <2>3, <2>4
  <1>4. CASE driver = "file" /\ ~PutOff(q) /\ Enqueue(q)
             /\ Goto(q, IF Alone(q) THEN "writing" ELSE Onward(q))
    <2>1. Open = {}
      <3>1. Cardinality(Open) = 0
        BY <1>4, OpenIsFinite DEF TypeInv, DepthCounts, PutOff
      <3>2. QED
        BY <3>1, OpenIsFinite, FS_EmptySet
    <2>2. Alone(q) /\ Goto(q, "writing") /\ "writing" \in Steps
      BY <1>1, <1>4, <2>1 DEF Alone, Steps
    <2>3. Open' = {} /\ step'[q] = "writing"
      BY <2>1, <2>2, Moves DEF AloneSteps, InBatch, Alone
    <2>4. CASE r # q
      BY <1>1, <1>2, <1>4, <2>1, <2>2, <2>3, <2>4, TakenAlone, Bystander DEF Enqueue
    <2>5. CASE r = q
      <3>1. Whole(mem, r)
        BY <1>1, <1>2, <1>4, <2>2, <2>5 DEF History, Durable, Kept, Unsent, Excepted
      <3>2. Ordered(flushQueue', r)
        BY <1>1, <1>4, <2>5, <3>1, LastInLine
      <3>3. Durable(r)'
        BY <1>1, <2>3, <2>5, <3>1, <3>2 DEF Durable, Kept, Unsent, Excepted, Ordered, Whole, Saved, Told
      <3>4. QED
        BY <2>2, <2>5, <3>3 DEF History, Alone
    <2>6. QED
      BY <2>4, <2>5
  <1>5. QED
    <2>1. CASE driver = "memory"
      BY <1>3, <2>1 DEF Flush, storeVars
    <2>2. CASE driver # "memory" /\ PutOff(q)
      BY <1>3, <2>2 DEF Flush
    <2>3. CASE driver # "memory" /\ ~PutOff(q)
      <3>1. driver = "file"
        BY <2>3, HostStoreAssumption DEF TypeInv, TypeOK
      <3>2. QED
        BY <1>4, <2>3, <3>1 DEF Flush
    <2>4. QED
      BY <2>1, <2>2, <2>3

LEMMA EndBatchHistory ==
  ASSUME TypeInv, Histories, NEW q \in Request, EndBatch(q), NEW r \in Request \ overlapped'
  PROVE  History(r)'
  <1>1. /\ step[q] = "end" /\ q \in CaseSave /\ q \in Open
        /\ UNCHANGED <<driver, mem, disk, snapshot, overlapped, unwritten, forgotten>>
        /\ "ok" \in Steps /\ "writing" \in Steps
    BY InOpen DEF EndBatch, TypeInv, AloneHaveNoBatch, AloneSteps, Alone, InBatch, Steps, storeVars, Enqueue, observed
  <1>2. History(r) /\ r \in Request
    BY <1>1, HistoryOf
  <1>3. r # q => r \notin Open
    BY <1>1, <1>2, InOpen DEF History, CaseHistory
  <1>4. ASSUME NEW s \in {"ok", "writing"}, Goto(q, s)
        PROVE  /\ Open' = Open \ {q} /\ step'[q] = s
               /\ \A p \in Request \ {q} : step'[p] = step[p]
    BY <1>1, <1>4, Moves DEF AloneSteps, InBatch, Alone
  <1>5. r = q => /\ Open = {r} /\ Whole(mem, r) /\ \A c \in Aside : Absent(c, r)
                 /\ driver = "file" => dirty /\ batchDepth = 1
    <2> SUFFICES ASSUME r = q
                 PROVE  /\ Open = {r} /\ Whole(mem, r) /\ \A c \in Aside : Absent(c, r)
                        /\ driver = "file" => dirty /\ batchDepth = 1
      OBVIOUS
    <2>1. /\ Open = {r} /\ Whole(mem, r) /\ (driver = "file" => dirty)
          /\ \A c \in Aside : Absent(c, r)
      BY <1>1, <1>2 DEF History, CaseHistory, InBatch, Whole
    <2>2. Cardinality(Open) = 1
      BY <2>1, FS_Singleton
    <2>3. QED
      BY <2>1, <2>2 DEF TypeInv, DepthCounts
  <1>6. ASSUME NEW s \in {"ok", "writing"}, Goto(q, s), QueueMoves(r), r # q PROVE History(r)'
    <2>1. disk' \in Aside
      BY <1>1 DEF Aside
    <2>2. Unharmed(r)
      BY <1>1, <1>2, <1>3, <1>4, <1>6, <2>1 DEF Unharmed, Excepted, Saved, Told
    <2>3. QED
      BY <1>2, <2>2, Bystander
  <1>7. CASE driver = "memory"
    <2>1. Goto(q, "ok") /\ UNCHANGED flushQueue
      BY <1>7 DEF EndBatch, storeVars
    <2>2. CASE r # q
      BY <1>6, <2>1, <2>2 DEF QueueMoves
    <2>3. CASE r = q
      <3>1. Open' = {} /\ step'[r] = "ok"
        BY <1>4, <1>5, <2>1, <2>3
      <3>2. Aside' \subseteq Aside
        BY <1>1, <2>1, <3>1 DEF Aside
      <3>3. CaseHistory(r)'
        BY <1>1, <1>5, <2>3, <3>1, <3>2
           DEF CaseHistory, Unsaved, InBatch, Settled, Absent, Whole, Saved, Told
      <3>4. QED
        BY <1>1, <1>7, <3>3 DEF History
    <2>4. QED
      BY <2>2, <2>3
  <1>8. CASE driver = "file" /\ LastOut /\ dirty
    <2>1. Goto(q, "writing") /\ Enqueue(q)
      BY <1>8 DEF EndBatch
    <2>2. CASE r # q
      BY <1>1, <1>6, <2>1, <2>2 DEF QueueMoves, Enqueue
    <2>3. CASE r = q
      <3>1. Open' = {} /\ step'[r] = "writing"
        BY <1>4, <1>5, <2>1, <2>3
      <3>2. /\ Ordered(flushQueue', r)
            /\ \A i \in DOMAIN flushQueue' : flushQueue'[i].content \in Aside \cup {mem}
        BY <1>1, <1>5, <2>1, <2>3, LastInLine
      <3>3. Aside' \subseteq Aside \cup {mem}
        BY <1>1, <3>1, <3>2 DEF Aside
      <3>4. CaseHistory(r)'
        BY <1>1, <1>5, <2>3, <3>1, <3>3
           DEF CaseHistory, Unsaved, InBatch, Settled, Absent, Whole, Saved, Told
      <3>5. Durable(r)'
        BY <1>1, <1>5, <2>3, <3>1, <3>2 DEF Durable, Kept, Unsent, Excepted, Ordered, Whole, Saved, Told, Alone
      <3>6. QED
        BY <3>4, <3>5 DEF History
    <2>4. QED
      BY <2>2, <2>3
  <1>9. CASE driver = "file" /\ ~(LastOut /\ dirty)
    <2>1. Goto(q, "ok") /\ UNCHANGED flushQueue
      BY <1>9 DEF EndBatch
    <2>2. r # q
      BY <1>5, <1>9 DEF LastOut
    <2>3. QED
      BY <1>6, <2>1, <2>2 DEF QueueMoves
  <1>10. QED
    BY <1>7, <1>8, <1>9, HostStoreAssumption DEF TypeInv, TypeOK

LEMMA RollbackHistory ==
  ASSUME TypeInv, Histories, NEW q \in Request, Rollback(q), NEW r \in Request \ overlapped'
  PROVE  History(r)'
  <1>1. /\ step[q] = "throw" /\ q \in CaseSave /\ q \in Open /\ Goto(q, "failed")
        /\ mem' = snapshot[q] /\ "failed" \in Steps
        /\ UNCHANGED <<driver, flushQueue, disk, snapshot, overlapped, unwritten, forgotten>>
    BY InOpen DEF Rollback, Restored, TypeInv, AloneHaveNoBatch, AloneSteps, Alone, InBatch, Steps
  <1>2. History(r) /\ r \in Request
    BY <1>1, HistoryOf
  <1>3. Open' = Open \ {q} /\ step'[q] = "failed" /\ \A p \in Request \ {q} : step'[p] = step[p]
    BY <1>1, Moves DEF AloneSteps, InBatch, Alone
  <1>4. CASE r # q
    <2>1. r \notin Open
      BY <1>1, <1>2, <1>4, InOpen DEF History, CaseHistory
    <2>2. disk' \in Aside
      BY <1>1 DEF Aside
    <2>3. Unharmed(r)
      BY <1>1, <1>2, <1>3, <1>4, <2>1, <2>2 DEF Unharmed, Excepted, QueueMoves
    <2>4. QED
      BY <1>2, <2>3, Bystander
  <1>5. CASE r = q
    <2>1. Open = {r} /\ \A c \in Aside : Absent(c, r)
      BY <1>1, <1>2, <1>5 DEF History, CaseHistory, InBatch
    <2>2. Open' = {} /\ step'[r] = "failed"
      BY <1>3, <1>5, <2>1
    <2>3. Aside' \subseteq Aside /\ mem' \in Aside
      BY <1>1, <2>2 DEF Aside
    <2>4. Absent(mem', r) /\ \A c \in Aside' : Absent(c, r)
      BY <2>1, <2>3
    <2>5. CaseHistory(r)'
      BY <2>2, <2>4 DEF CaseHistory, Unsaved, InBatch, Settled, Absent, Whole, Saved, Told
    <2>6. Durable(r)'
      BY <2>2 DEF Durable, Kept, Unsent, Excepted
    <2>7. QED
      BY <2>5, <2>6 DEF History
  <1>6. QED
    BY <1>4, <1>5

LEMMA WriteHistory ==
  ASSUME TypeInv, Histories, Write \/ WriteFails, NEW r \in Request \ overlapped'
  PROVE  History(r)'
  <1> DEFINE first == flushQueue[Turn]
  <1>1. /\ flushQueue # <<>> /\ flushQueue' = Without(Turn)
        /\ UNCHANGED <<driver, mem, dirty, snapshot, overlapped, unwritten, forgotten>>
        /\ \E s \in {"ok", "error"} :
             /\ step' = [p \in Request |-> IF p = first.by THEN s ELSE step[p]]
             /\ s = "ok" => disk' = first.content
             /\ s = "error" => disk' = disk
    BY DEF Write, WriteFails, observed
  <1>2. History(r) /\ r \in Request
    BY <1>1, HistoryOf
  <1>3. /\ Turn \in DOMAIN flushQueue
        /\ \A i \in DOMAIN flushQueue' :
             i + 1 \in DOMAIN flushQueue /\ i \in Nat /\ flushQueue'[i] = flushQueue[i + 1]
    BY <1>1, QueueIsTyped DEF TypeInv
  <1>4. disk' \in Aside
    BY <1>1, <1>3 DEF Aside
  <1>5. \A p \in Request : p = first.by => step[p] = "writing"
    BY <1>3, HostStoreAssumption DEF TypeInv, WritersWait
  <1>6. Open' = Open
    <2>1. \A p \in Request : p \in Open' <=> p \in Open
      BY <1>1, <1>5, InOpen DEF InBatch
    <2>2. QED
      BY <2>1, HostStoreAssumption DEF Open
  <1>7. CASE r # first.by
    <2>1. step'[r] = step[r]
      BY <1>1, <1>2, <1>7
    <2>2. Unharmed(r)
      BY <1>1, <1>4, <1>6, <2>1 DEF Unharmed, Excepted, QueueMoves, Saved, Told
    <2>3. QED
      BY <1>2, <2>2, Bystander
  <1>8. CASE r = first.by
    <2>1. step[r] = "writing" /\ r \notin Open
      BY <1>2, <1>5, <1>8, InOpen DEF InBatch
    <2>2. step'[r] \in {"ok", "error"} /\ (step'[r] = "ok" => disk' = first.content)
      BY <1>1, <1>2, <1>8
    <2>3. \A i \in DOMAIN flushQueue' : flushQueue'[i].content \in Aside
      BY <1>3 DEF Aside
    <2>4. \A p \in Open' : snapshot'[p] = snapshot[p] /\ snapshot[p] \in Aside
      BY <1>1, <1>6 DEF Aside
    <2>5. Aside' \subseteq Aside
      BY <1>4, <2>3, <2>4 DEF Aside
    <2>6. ASSUME r \in CaseSave PROVE CaseHistory(r)'
      <3>1. Settled(mem, r) /\ \A c \in Aside : Settled(c, r)
        BY <1>2, <2>1, <2>6 DEF History, CaseHistory
      <3>2. QED
        BY <1>1, <1>6, <2>1, <2>2, <2>5, <3>1
           DEF CaseHistory, Unsaved, InBatch, Settled, Absent, Whole, Saved, Told
    <2>7. ASSUME driver = "file" PROVE Durable(r)'
      <3>1. Whole(mem, r) /\ (\A p \in Open : Whole(snapshot[p], r)) /\ Ordered(flushQueue, r)
        BY <1>2, <2>1, <2>7 DEF History, Durable, Kept, Unsent, Excepted
      <3>2. Turn = 1 /\ \A i \in DOMAIN flushQueue : i >= 1 => Whole(flushQueue[i].content, r)
        BY <1>3, <1>8, <3>1 DEF Ordered, Turn
      <3>3. step'[r] = "ok" => Whole(disk', r)
        BY <1>3, <2>2, <2>7, <3>2
      <3>4. \A i \in DOMAIN flushQueue' : Whole(flushQueue'[i].content, r)
        BY <1>3, <3>2
      <3>5. \A p \in Open' : Whole(snapshot'[p], r)
        BY <1>6, <2>4, <3>1
      <3>6. step'[r] = "ok" => \A c \in Aside' : Whole(c, r)
        BY <3>3, <3>4, <3>5 DEF Aside
      <3>7. Whole(mem', r)
        BY <1>1, <3>1
      <3>8. Kept(r)'
        BY <3>4, <3>5, <3>7 DEF Kept, Whole, Saved
      <3>9. QED
        BY <2>2, <3>6, <3>7, <3>8 DEF Durable, Kept, Unsent, Excepted, Alone, Whole, Saved, Told
    <2>8. QED
      BY <1>1, <2>6, <2>7 DEF History
  <1>9. QED
    BY <1>7, <1>8

LEMMA CloseHistory ==
  ASSUME TypeInv, Histories, Close, NEW r \in Request \ overlapped'
  PROVE  History(r)'
  <1>1. UNCHANGED <<driver, batchDepth, mem, disk, step, snapshot, overlapped, unwritten, forgotten>> /\ Open' = Open
    BY DEF Close, Enqueue, observed, Open
  <1>2. History(r) /\ r \in Request
    BY <1>1, HistoryOf
  <1>3. disk' \in Aside
    BY <1>1 DEF Aside
  <1>4. CASE batchDepth > 0
    <2>1. dirty' = TRUE /\ UNCHANGED flushQueue
      BY <1>4 DEF Close
    <2>2. Unharmed(r)
      BY <1>1, <1>3, <2>1 DEF Unharmed, Excepted, QueueMoves, Saved, Told
    <2>3. QED
      BY <1>2, <2>2, Bystander
  <1>5. CASE ~(batchDepth > 0)
    <2>1. r \notin Open
      BY <1>5, OpenIsFinite DEF Close, TypeInv, DepthCounts
    <2>2. flushQueue' = Append(flushQueue, [by |-> None, content |-> mem])
      BY <1>5 DEF Close, Enqueue
    <2>3. r # None
      BY <1>2, HostStoreAssumption
    <2>4. Unharmed(r)
      BY <1>1, <1>3, <2>1, <2>2, <2>3 DEF Unharmed, Excepted, QueueMoves, Saved, Told
    <2>5. QED
      BY <1>2, <2>4, Bystander
  <1>6. QED
    BY <1>4, <1>5

\* The file provider finds the row it is asked for.
LEMMA PutUnchangedHistory ==
  ASSUME TypeInv, RowsLeaveRecords, Histories, NEW q \in Request, PutUnchanged(q),
         NEW r \in Request \ overlapped'
  PROVE  History(r)'
  <1>1. /\ Alone(q) /\ step[q] \in {"idle", "again"} /\ Goto(q, "ok") /\ "ok" \in Steps
        /\ mem.rows[KeyOf[q]].by = q
        /\ UNCHANGED <<driver, mem, dirty, flushQueue, disk, snapshot, overlapped, forgotten>>
        /\ Excepted(r) => Excepted(r)'
        /\ q \notin Open
    BY HostStoreAssumption, InOpen
       DEF PutUnchanged, AtPut, Unchanged, Alone, Steps, storeVars, Excepted
  <1>2. History(r) /\ r \in Request
    BY <1>1, HistoryOf
  <1>3. Open' = Open /\ step'[q] = "ok" /\ \A p \in Request \ {q} : step'[p] = step[p]
    BY <1>1, Moves DEF AloneSteps, Alone
  <1>4. CASE r # q
    <2>1. disk' \in Aside
      BY <1>1 DEF Aside
    <2>2. Unharmed(r)
      BY <1>1, <1>2, <1>3, <1>4, <2>1 DEF Unharmed, QueueMoves, Saved, Told
    <2>3. QED
      BY <1>2, <2>2, Bystander
  <1>5. CASE r = q
    <2>1. Saved(mem, r)
      <3>1. RowsAudited(mem) /\ KeyOf[q] \in Key /\ q # None
        BY HostStoreAssumption, HeldContents DEF RowsLeaveRecords
      <3>2. QED
        BY <1>1, <1>5, <3>1 DEF RowsAudited, Saved
    <2>2. ASSUME driver = "file", ~Excepted(r)' PROVE Whole(mem, r) /\ \A c \in Aside : Whole(c, r)
      <3>1. /\ \A p \in Open : Saved(snapshot[p], r)
            /\ \A i \in DOMAIN flushQueue : Saved(flushQueue[i].content, r)
        BY <1>1, <1>2, <1>5, <2>1, <2>2 DEF History, Durable, Kept, Unsent, Alone, Saved, Excepted
      <3>2. Saved(disk, r)
        BY <1>5, <2>2 DEF PutUnchanged, Excepted, Saved
      <3>3. \A c \in Aside : Saved(c, r)
        BY <3>1, <3>2 DEF Aside
      <3>4. QED
        BY <1>1, <1>5, <2>1, <3>3 DEF Whole, Alone
    <2>3. Aside' = Aside
      BY <1>1, <1>3 DEF Aside
    <2>4. driver = "file" => Durable(r)'
      BY <1>1, <1>3, <1>5, <2>2, <2>3 DEF Durable, Kept, Unsent, Excepted, Alone, Whole, Saved, Told
    <2>5. QED
      BY <1>1, <1>5, <2>4 DEF History, Alone
  <1>6. QED
    BY <1>4, <1>5

LEMMA RetryHistory ==
  ASSUME TypeInv, Histories, NEW q \in Request, Retry(q), NEW r \in Request \ overlapped'
  PROVE  History(r)'
  <1>1. /\ Alone(q) /\ step[q] \in {"error", "lost"} /\ Goto(q, "again") /\ "again" \in Steps
        /\ UNCHANGED <<driver, mem, dirty, flushQueue, disk, snapshot, overlapped, unwritten, forgotten>>
        /\ q \notin Open
    BY HostStoreAssumption, InOpen DEF Retry, Alone, Steps, storeVars, observed
  <1>2. History(r) /\ r \in Request
    BY <1>1, HistoryOf
  <1>3. Open' = Open /\ step'[q] = "again" /\ \A p \in Request \ {q} : step'[p] = step[p]
    BY <1>1, Moves DEF AloneSteps, Alone, InBatch
  <1>4. CASE r # q
    BY <1>1, <1>2, <1>4, QuietHarmsNobody, Bystander DEF InBatch, Saved, Told
  <1>5. CASE r = q
    <2>1. driver = "file" => Kept(r)'
      BY <1>1, <1>2, <1>3, <1>5 DEF History, Durable, Kept, Unsent, Alone, Saved
    <2>2. QED
      BY <1>1, <1>3, <1>5, <2>1 DEF History, Durable, Kept, Unsent, Alone, Saved
  <1>6. QED
    BY <1>4, <1>5

\* What a new process starts from is the file, or nothing when it could not read
\* the file; then the successes of the old one are excepted.
LEMMA RestartHistory ==
  ASSUME TypeInv, Histories, Restart \/ RestartUnread, NEW r \in Request \ overlapped'
  PROVE  History(r)'
  <1>1. /\ flushQueue' = <<>>
        /\ UNCHANGED <<driver, disk, overlapped, unwritten>>
        /\ step' = [p \in Request |->
             IF step[p] \in {"idle", "ok", "failed", "error", "again"} THEN step[p] ELSE "lost"]
    BY DEF Restart, RestartUnread, Ends
  <1>2. History(r) /\ r \in Request
    BY <1>1, HistoryOf
  <1>3. Open' = {}
    BY <1>1, HostStoreAssumption DEF Open
  <1>4. Aside' = {disk} /\ disk \in Aside /\ r \notin Open'
    BY <1>1, <1>3 DEF Aside
  <1>5. /\ step'[r] \in {"idle", "ok", "failed", "error", "again", "lost"}
        /\ step'[r] # "lost" => step'[r] = step[r]
    BY <1>1, <1>2
  <1>6. \/ mem' = disk /\ forgotten' = forgotten
        \/ mem' = Empty /\ (step'[r] = "ok" => Excepted(r)')
    <2>1. CASE Restart
      BY <2>1 DEF Restart
    <2>2. CASE RestartUnread
      BY <1>2, <1>5, <2>2 DEF RestartUnread, Excepted
    <2>3. QED
      BY <2>1, <2>2
  <1>7. Absent(Empty, r)
    BY DEF Absent, Saved, Told, Items, Empty
  <1>8. ASSUME r \in CaseSave PROVE CaseHistory(r)'
    <2>1. CaseHistory(r)
      BY <1>2, <1>8 DEF History
    <2>2. Settled(disk, r)
      <3>1. CASE r \in Open
        BY <1>2, <1>4, <2>1, <3>1, InOpen DEF CaseHistory, Settled
      <3>2. CASE r \notin Open
        BY <1>4, <2>1, <3>2 DEF CaseHistory
      <3>3. QED
        BY <3>1, <3>2
    <2>3. step'[r] \in Unsaved => Absent(disk, r)
      BY <1>4, <1>5, <2>1 DEF CaseHistory, Unsaved
    <2>4. \A c \in Aside' : Settled(c, r) /\ (step'[r] \in Unsaved => Absent(c, r))
      BY <1>4, <2>2, <2>3
    <2>5. Settled(mem', r) /\ (step'[r] \in Unsaved => Absent(mem', r))
      BY <1>6, <1>7, <2>2, <2>3 DEF Settled
    <2>6. QED
      BY <1>1, <1>4, <1>5, <2>4, <2>5
         DEF CaseHistory, Unsaved, InBatch, Settled, Absent, Whole, Saved, Told
  <1>9. ASSUME driver = "file" PROVE Durable(r)'
    <2>1. ASSUME step'[r] = "ok", ~Excepted(r)'
          PROVE  Whole(mem', r) /\ \A c \in Aside' : Whole(c, r)
      <3>1. mem' = disk /\ step[r] = "ok" /\ ~Excepted(r)
        BY <1>1, <1>5, <1>6, <2>1 DEF Excepted
      <3>2. Whole(disk, r)
        BY <1>2, <1>4, <1>9, <3>1 DEF History, Durable
      <3>3. QED
        BY <1>4, <3>1, <3>2
    <2>2. step'[r] \notin {"writing", "saved"}
      BY <1>5
    <2>3. Kept(r)'
      BY <1>1, <1>3 DEF Kept
    <2>4. QED
      BY <2>1, <2>2, <2>3 DEF Durable, Kept, Unsent, Excepted, Alone, Whole, Saved, Told
  <1>10. QED
    BY <1>1, <1>8, <1>9 DEF History

LEMMA HistoriesInit == Init => Histories
  <1> SUFFICES ASSUME Init, NEW r \in Request PROVE History(r)
    BY DEF Histories
  <1>1. mem = Empty /\ disk = Empty /\ flushQueue = <<>> /\ step[r] = "idle"
    BY DEF Init
  <1>2. Open = {}
    BY HostStoreAssumption DEF Init, Open
  <1>3. Aside = {Empty}
    BY <1>1, <1>2 DEF Aside
  <1>4. Absent(Empty, r)
    BY DEF Absent, Saved, Told, Items, Empty
  <1>5. CaseHistory(r)
    BY <1>1, <1>2, <1>3, <1>4 DEF CaseHistory, InBatch, Settled
  <1>6. Durable(r)
    BY <1>1, <1>2, <1>4 DEF Durable, Kept, Absent, Saved
  <1>7. QED
    BY <1>5, <1>6 DEF History

LEMMA HistoriesStep == TypeInv /\ RowsLeaveRecords /\ Histories /\ [Next]_vars => Histories'
  <1> SUFFICES ASSUME TypeInv, RowsLeaveRecords, Histories, [Next]_vars, NEW r \in Request \ overlapped'
               PROVE  History(r)'
    BY DEF Histories
  <1>1. CASE UNCHANGED vars
    <2>1. History(r)
      BY <1>1 DEF Histories, vars, observed
    <2>2. UNCHANGED <<driver, mem, dirty, flushQueue, disk, step, snapshot, unwritten, forgotten,
                      Open, Aside>>
      BY <1>1 DEF vars, storeVars, observed, Open, Aside
    <2>3. QED
      BY <2>1, <2>2 DEF History, CaseHistory, Durable, Kept, Unsent, Excepted, Ordered, Settled, Absent, Whole, Saved, Told
  <1>2. ASSUME NEW q \in Request, Serve(q) \/ Throw(q) \/ Retry(q) PROVE History(r)'
    BY <1>2, ReadHistory, BeginBatchHistory, PutHistory, PutUnchangedHistory, RetryHistory,
       ThrowHistory, AppendEventHistory, FlushHistory, EndBatchHistory, RollbackHistory DEF Serve
  <1>3. CASE Write \/ WriteFails \/ Close \/ Restart \/ RestartUnread
    BY <1>3, WriteHistory, CloseHistory, RestartHistory
  <1>4. QED
    BY <1>1, <1>2, <1>3 DEF Next

LEMMA HistoriesHold == Spec => []Histories
  <1>1. Spec => []RowsLeaveRecords
    BY RowsInit, RowsStep, TypeInvHolds, PTL DEF Spec
  <1>2. QED
    BY <1>1, HistoriesInit, HistoriesStep, TypeInvHolds, PTL DEF Spec

\* A request that was answered with success is in the file, and stays there
\* through any crashes, failed writes, failed batches and files that cannot be
\* read, unless it met a batch of another request, was told "unchanged" of a
\* record whose write had failed, or had succeeded before a process that could
\* not read the file: whatever may replace the file holds it too.
THEOREM AcknowledgedAlwaysDurable == Spec => []AcknowledgedIsDurable
  <1>1. Histories => AcknowledgedIsDurable
    <2> SUFFICES ASSUME Histories, driver = "file",
                        NEW r \in Request \ (overlapped \cup unwritten \cup forgotten),
                        step[r] = "ok"
                 PROVE  Whole(disk, r)
      BY DEF AcknowledgedIsDurable
    <2>1. disk \in Aside
      BY DEF Aside
    <2>2. QED
      BY <2>1 DEF Histories, History, Durable, Kept, Unsent, Excepted
  <1>2. QED
    BY <1>1, HistoriesHold, PTL

\* A case that met no other batch is in the file as a whole or not at all, at
\* every moment, and in memory too once its batch is over: the work of a batch
\* that throws leaves no trace, and no write catches a batch half way.
THEOREM BatchesAlwaysWhole == Spec => []BatchesAreWhole
  <1>1. Histories => BatchesAreWhole
    <2> SUFFICES ASSUME Histories, NEW r \in CaseSave \ overlapped
                 PROVE  /\ Whole(disk, r) \/ Absent(disk, r)
                        /\ r \notin Open => Whole(mem, r) \/ Absent(mem, r)
                        /\ step[r] = "failed" => Absent(mem, r) /\ Absent(disk, r)
      BY DEF BatchesAreWhole
    <2>1. r \in Request /\ CaseHistory(r)
      BY HostStoreAssumption DEF Histories, History
    <2>2. disk \in Aside
      BY DEF Aside
    <2>3. r \in Open => step[r] \in InBatch
      BY <2>1, InOpen
    <2>4. step[r] = "failed" => Absent(mem, r) /\ Absent(disk, r)
      BY <2>1, <2>2 DEF CaseHistory, Unsaved
    <2>5. QED
      BY <2>1, <2>2, <2>3, <2>4 DEF CaseHistory, Settled
  <1>2. QED
    BY <1>1, HistoriesHold, PTL
===============================================================================
