--------------------------- MODULE ReviewDeskProofs ---------------------------
(***************************************************************************)
(* Proofs about ReviewDesk, for any callers, ids, versions and bounds: the *)
(* ledgers verify, every event tells of a save, and saves take turns.      *)
(***************************************************************************)
EXTENDS ReviewDesk, SequenceTheorems, TLAPS

(* Types *)

Pc == {"idle", "select", "upsert", "audit", "append", "commit", "broken"}

RowType == [version : Nat, status : Status \cup {None},
            assignee : Evaluator \cup {None}, decided : BOOLEAN]

AuditEntry == {"ENTITY", "EVENT"} \X Id \X Nat \X Caller \X Nat
AuditType  == [entry : AuditEntry, op : {"CREATE", "UPDATE"},
               previous : AuditEntry \cup {None}]
EventType  == [entry : EventEntry, previous : EventEntry \cup {None}]

CallType == [pc : Pc, id : Id \cup {None}, expected : Nat \cup {None}, next : RowType,
             op : {"CREATE", "UPDATE", None}, event : EventType \cup {None},
             audits : Seq(AuditType)]

\* Types of the tables of schema.ts, of the locks, and of the requests.
TypeOK ==
  /\ rows \in [Id -> RowType]
  /\ events \in Seq(EventType)
  /\ audits \in Seq(AuditType)
  /\ rowLock \in [Id -> Caller \cup {None}]
  /\ advisory \in Caller \cup {None}
  /\ call \in [Caller -> CallType]
  /\ served \in [Caller -> Nat]
  /\ late \in 0 .. MaxLate
  /\ broken \in 0 .. MaxBroken

-------------------------------------------------------------------------------
(* The inductive invariant *)

At(c, pc) == call[c].pc = pc
Kinds(c)  == IF c \in Observer THEN Case ELSE Review
PutOf(c)   == <<"ENTITY", call[c].id, call[c].next.version, c, served[c]>>
EventOf(c) == <<"EVENT", call[c].id, call[c].next.version, c, served[c]>>
Plain(c)   == <<call[c].id, call[c].next.version, c, served[c]>>

\* c has still to commit its put; or has committed it, and not yet its event.
Saving(c) ==
  \/ call[c].pc \in {"select", "upsert", "audit"}
  \/ At(c, "append") /\ c \in Observer
  \/ At(c, "commit") /\ (c \in Observer \/ call[c].event = None)
Saved(c) ==
  c \notin Observer /\ (At(c, "append") \/ (At(c, "commit") /\ call[c].event # None))

\* What c's transaction holds, by where c is.
Shape(c) ==
  /\ At(c, "idle") => call[c] = NoCall
  /\ ~At(c, "idle") => call[c].id \in Kinds(c) /\ call[c].next.version > 0
                       /\ (c \notin Observer => call[c].next.status \in Status)
  /\ call[c].pc \notin {"append", "commit"} => call[c].audits = <<>> /\ call[c].event = None
  /\ At(c, "append") => /\ call[c].event = None
                        /\ call[c].audits = <<>> <=> c \notin Observer
  /\ call[c].audits # <<>> =>
       IF Saved(c) THEN Len(call[c].audits) = 1 /\ call[c].audits[1].entry = EventOf(c)
       ELSE /\ call[c].audits[1].entry = PutOf(c) /\ call[c].audits[1].op = call[c].op
            /\ IF call[c].event = None THEN Len(call[c].audits) = 1
               ELSE Len(call[c].audits) = 2 /\ call[c].audits[2].entry = EventOf(c)
  /\ At(c, "commit") => call[c].audits # <<>> /\ (c \in Observer => call[c].event # None)
  /\ call[c].event # None => call[c].event.entry = Plain(c)
  /\ Saving(c) => (call[c].op = None <=> At(c, "select"))
  /\ At(c, "select") \/ At(c, "upsert") => call[c].event = None

\* Who has which lock.
HoldsRow(c) ==
  Saving(c) /\ ~At(c, "select") /\ (At(c, "upsert") => call[c].op = "UPDATE")
HoldsLedger(c) == At(c, "commit") \/ (At(c, "append") /\ c \in Observer)
Locks ==
  \A c \in Caller : /\ advisory = c <=> HoldsLedger(c)
                    /\ \A id \in Id : rowLock[id] = c <=> HoldsRow(c) /\ call[c].id = id

\* What c has linked its records to is the end of the committed ledger.
Linked(c) ==
  /\ \A i \in DOMAIN call[c].audits :
       call[c].audits[i].previous = IF i = 1 THEN LastOf(audits) ELSE call[c].audits[i - 1].entry
  /\ call[c].event # None => call[c].event.previous = LastOf(events)

\* The row c is to replace.
Decided(c) ==
  \E ask \in Asked : /\ MayAsk(c, rows[call[c].id], ask)
                     /\ call[c].next = Transitioned(c, rows[call[c].id], ask)
Based(c) ==
  /\ At(c, "select") /\ call[c].expected # None =>
       /\ call[c].expected = call[c].next.version - 1
       /\ c \notin Observer => call[c].expected <= rows[call[c].id].version
  /\ At(c, "select") /\ call[c].expected = None =>
       c \notin Observer /\ call[c].next.version = 1 /\ rows[call[c].id] = NoRow
  /\ Saving(c) /\ call[c].op = "UPDATE" =>
       rows[call[c].id] # NoRow /\ rows[call[c].id].version = call[c].next.version - 1
  /\ Saving(c) /\ call[c].op = "CREATE" /\ c \notin Observer => rows[call[c].id] = NoRow
  /\ Saving(c) /\ call[c].op = "CREATE" => call[c].next.version = 1
  /\ Saving(c) /\ c \notin Observer /\ rows[call[c].id] # NoRow
       /\ rows[call[c].id].version = call[c].next.version - 1 => c \in Evaluator /\ Decided(c)

RowsShape ==
  \A id \in Id : rows[id] # NoRow => /\ rows[id].version > 0
                                     /\ id \in Review => rows[id].status \in Status
\* A review that there is not yet is known to the call that creates it only.
OneCreator ==
  \A id \in Review : rows[id] = NoRow =>
    \A c, d \in Caller : call[c].id = id /\ call[d].id = id => c = d

\* Which request made which put, and whether its event has followed.
Numbered ==
  /\ Told \subseteq AuditedPuts
  /\ \A put \in AuditedPuts : put[5] <= served[put[4]]
  /\ \A put \in Told : put[5] < served[put[4]]
  /\ \A put \in AuditedPuts \ Told :
       put[2] \in Review /\ put = PutOf(put[4]) /\ (Saved(put[4]) \/ At(put[4], "broken"))
  /\ \A c \in Caller : Saved(c) => PutOf(c) \in AuditedPuts
  /\ \A i, j \in DOMAIN events : events[i].entry = events[j].entry => i = j

DeskInv ==
  /\ TypeOK
  /\ \A c \in Caller : Shape(c) /\ Linked(c) /\ Based(c)
  /\ Locks
  /\ RowsShape
  /\ OneCreator
  /\ Numbered
  /\ LedgersVerify

-------------------------------------------------------------------------------
(* Ledgers *)

LEMMA LastOfJoined ==
  ASSUME NEW E, NEW a \in Seq(E), NEW s \in Seq(E)
  PROVE  LastOf(a \o s) = IF s = <<>> THEN LastOf(a) ELSE s[Len(s)].entry
  <1>1. CASE s = <<>>
    <2>1. a \o s = a
      BY <1>1
    <2>2. QED
      BY <1>1, <2>1
  <1>2. CASE s # <<>>
    <2>1. /\ Len(s) \in Nat /\ Len(s) # 0 /\ Len(a) \in Nat /\ Len(a \o s) = Len(a) + Len(s)
      BY <1>2
    <2>2. (a \o s)[Len(a) + Len(s)] = s[Len(s)]
      BY <2>1
    <2>3. a \o s # <<>>
      BY <2>1
    <2>4. QED
      BY <1>2, <2>1, <2>2, <2>3 DEF LastOf
  <1>3. QED
    BY <1>1, <1>2

\* Records linked to the end of a ledger that verifies may be added to it.
LEMMA JoinedVerifies ==
  ASSUME NEW E, NEW a \in Seq(E), NEW s \in Seq(E), Verifies(a),
         \A i \in DOMAIN s : s[i].previous = IF i = 1 THEN LastOf(a) ELSE s[i - 1].entry
  PROVE  Verifies(a \o s)
  <1> DEFINE n == Len(a)
             t == a \o s
  <1>1. /\ n \in Nat /\ Len(s) \in Nat /\ DOMAIN a = 1 .. n /\ DOMAIN s = 1 .. Len(s)
        /\ DOMAIN t = 1 .. n + Len(s)
    OBVIOUS
  <1>2. \A i \in 1 .. n + Len(s) : t[i] = IF i <= n THEN a[i] ELSE s[i - n]
    BY <1>1
  <1> HIDE DEF t
  <1>3. ASSUME NEW i \in 1 .. n + Len(s)
        PROVE  t[i].previous = IF i = 1 THEN None ELSE t[i - 1].entry
    <2>1. CASE i <= n
      <3>1. t[i] = a[i] /\ (i # 1 => t[i - 1] = a[i - 1])
        BY <1>1, <1>2, <2>1
      <3>2. a[i].previous = IF i = 1 THEN None ELSE a[i - 1].entry
        <4>1. i \in DOMAIN a
          BY <1>1, <2>1
        <4>2. QED
          BY <4>1, Zenon DEF Verifies
      <3>3. QED
        BY <3>1, <3>2
    <2>2. CASE i = n + 1
      <3>1. t[i] = s[1] /\ 1 \in DOMAIN s
        BY <1>1, <1>2, <2>2
      <3>2. s[1].previous = LastOf(a)
        BY <3>1
      <3>3. CASE n = 0
        <4>1. a = <<>>
          BY <3>3
        <4>2. QED
          BY <2>2, <3>1, <3>2, <3>3, <4>1 DEF LastOf
      <3>4. CASE n # 0
        <4>1. a # <<>> /\ t[i - 1] = a[n] /\ i # 1
          BY <1>1, <1>2, <2>2, <3>4
        <4>2. QED
          BY <3>1, <3>2, <4>1 DEF LastOf
      <3>5. QED
        BY <3>3, <3>4
    <2>3. CASE i > n + 1
      <3>1. t[i] = s[i - n] /\ t[i - 1] = s[(i - n) - 1] /\ i # 1
        <4>1. /\ i - 1 \in 1 .. n + Len(s) /\ ~(i - 1 <= n) /\ ~(i <= n) /\ i # 1
              /\ (i - 1) - n = (i - n) - 1
          BY <1>1, <2>3
        <4>2. t[i - 1] = s[(i - 1) - n]
          BY <1>2, <4>1
        <4>3. QED
          BY <1>2, <4>1, <4>2
      <3>2. i - n \in DOMAIN s /\ i - n # 1
        BY <1>1, <2>3
      <3>3. s[i - n].previous = s[(i - n) - 1].entry
        BY <3>2, Zenon
      <3>4. QED
        BY <3>1, <3>3
    <2>4. i <= n \/ i = n + 1 \/ i > n + 1
      BY <1>1
    <2>5. QED
      BY <2>1, <2>2, <2>3, <2>4, Zenon
  <1>4. QED
    BY <1>1, <1>3 DEF Verifies, t

LEMMA InsertedAt ==
  ASSUME NEW E, NEW chain \in Seq(E), NEW item \in E, NEW i \in 1 .. Len(chain) + 1
  PROVE  LET longer == InsertAt(chain, i, item) IN
         /\ longer \in Seq(E) /\ DOMAIN longer = 1 .. Len(chain) + 1
         /\ \A j \in 1 .. Len(chain) + 1 :
              longer[j] = IF j < i THEN chain[j] ELSE IF j = i THEN item ELSE chain[j - 1]
  <1> DEFINE n == Len(chain)
             a == SubSeq(chain, 1, i - 1)
             b == SubSeq(chain, i, n)
  <1>1. n \in Nat /\ i \in Nat /\ i >= 1 /\ i <= n + 1
    OBVIOUS
  <1>2. a \in Seq(E) /\ Len(a) = i - 1 /\ \A j \in 1 .. i - 1 : a[j] = chain[j]
    BY <1>1, SubSeqProperties
  <1>3. b \in Seq(E) /\ Len(b) = n - i + 1 /\ \A j \in 1 .. n - i + 1 : b[j] = chain[i + j - 1]
    BY <1>1, SubSeqProperties
  <1>4. <<item>> \in Seq(E) /\ Len(<<item>>) = 1 /\ <<item>>[1] = item
    OBVIOUS
  <1>5. InsertAt(chain, i, item) = (a \o <<item>>) \o b
    BY DEF InsertAt
  <1> HIDE DEF a, b
  <1> DEFINE c == a \o <<item>>
  <1>6. c \in Seq(E) /\ Len(c) = i /\ \A j \in 1 .. i : c[j] = IF j < i THEN chain[j] ELSE item
    BY <1>1, <1>2, <1>4, ConcatProperties
  <1> HIDE DEF c
  <1>7. /\ c \o b \in Seq(E) /\ Len(c \o b) = n + 1
        /\ \A j \in 1 .. n + 1 : (c \o b)[j] = IF j <= i THEN c[j] ELSE b[j - i]
    <2>1. /\ c \o b \in Seq(E) /\ Len(c \o b) = i + (n - i + 1)
          /\ \A j \in 1 .. Len(c) + Len(b) : (c \o b)[j] = IF j <= Len(c) THEN c[j] ELSE b[j - Len(c)]
      BY <1>3, <1>6, ConcatProperties
    <2>2. i + (n - i + 1) = n + 1
      BY <1>1
    <2>3. QED
      BY <1>1, <1>3, <1>6, <2>1, <2>2
  <1>8. DOMAIN (c \o b) = 1 .. n + 1
    BY <1>7
  <1>9. \A j \in 1 .. n + 1 :
          (c \o b)[j] = IF j < i THEN chain[j] ELSE IF j = i THEN item ELSE chain[j - 1]
    BY <1>1, <1>3, <1>6, <1>7
  <1>10. QED
    BY <1>5, <1>7, <1>8, <1>9 DEF c

\* An item linked to the last one: in its place, the chain verifies as it did;
\* anywhere else it does not, no two items having the same entry.
LEMMA InsertedVerifies ==
  ASSUME NEW E, NEW chain \in Seq(E), NEW item \in E, NEW i \in 1 .. Len(chain) + 1,
         item.previous = LastOf(chain),
         \A j \in DOMAIN chain : chain[j].entry # None,
         \A j, k \in DOMAIN chain : chain[j].entry = chain[k].entry => j = k
  PROVE  Verifies(InsertAt(chain, i, item)) <=> Verifies(chain) /\ i = Len(chain) + 1
  <1> DEFINE n == Len(chain)
             longer == InsertAt(chain, i, item)
  <1>1. /\ n \in Nat /\ DOMAIN chain = 1 .. n /\ DOMAIN longer = 1 .. n + 1
        /\ \A j \in 1 .. n + 1 :
             longer[j] = IF j < i THEN chain[j] ELSE IF j = i THEN item ELSE chain[j - 1]
    BY InsertedAt
  <1> HIDE DEF longer
  <1>2. LastOf(chain) = IF n = 0 THEN None ELSE chain[n].entry
    BY DEF LastOf
  <1>3. CASE i = n + 1
    <2>1. /\ \A j \in 1 .. n : longer[j] = chain[j]
          /\ longer[n + 1] = item
      BY <1>1, <1>3
    <2>2. item.previous = IF n + 1 = 1 THEN None ELSE longer[n + 1 - 1].entry
      BY <1>1, <1>2, <2>1
    <2>3. Verifies(longer) => Verifies(chain)
      BY <1>1, <2>1 DEF Verifies
    <2>4. ASSUME Verifies(chain), NEW j \in 1 .. n + 1
          PROVE  longer[j].previous = IF j = 1 THEN None ELSE longer[j - 1].entry
      <3>1. CASE j = n + 1
        BY <2>1, <2>2, <3>1
      <3>2. CASE j # n + 1
        <4>1. j \in 1 .. n /\ longer[j] = chain[j] /\ (j # 1 => longer[j - 1] = chain[j - 1])
          BY <1>1, <2>1, <3>2
        <4>2. QED
          BY <1>1, <2>4, <4>1 DEF Verifies
      <3>3. QED
        BY <3>1, <3>2
    <2>5. QED
      BY <1>1, <1>3, <2>3, <2>4 DEF Verifies, longer
  <1>4. CASE i # n + 1
    <2>1. i \in 1 .. n /\ longer[i] = item /\ (i # 1 => longer[i - 1] = chain[i - 1])
      BY <1>1, <1>4
    <2>2. item.previous = chain[n].entry /\ n \in DOMAIN chain
      BY <1>1, <1>2, <2>1
    <2>3. i # 1 => chain[i - 1].entry # chain[n].entry
      BY <1>1, <2>1
    <2>4. item.previous # IF i = 1 THEN None ELSE longer[i - 1].entry
      BY <2>1, <2>2, <2>3
    <2>5. i \in DOMAIN longer
      BY <1>1
    <2>6. ~Verifies(longer)
      BY <2>1, <2>4, <2>5 DEF Verifies
    <2>7. QED
      BY <1>4, <2>6 DEF longer
  <1>5. QED
    BY <1>3, <1>4

Puts(chain) == {chain[i].entry : i \in {j \in DOMAIN chain : chain[j].entry[1] = "ENTITY"}}

LEMMA PutsOfJoined ==
  ASSUME NEW a \in Seq(AuditType), NEW s \in Seq(AuditType)
  PROVE  Puts(a \o s) = Puts(a) \cup Puts(s)
  <1> DEFINE n == Len(a)
             t == a \o s
  <1>1. /\ n \in Nat /\ Len(s) \in Nat /\ DOMAIN a = 1 .. n /\ DOMAIN s = 1 .. Len(s)
        /\ DOMAIN t = 1 .. n + Len(s)
    OBVIOUS
  <1>2. \A i \in 1 .. n + Len(s) : t[i] = IF i <= n THEN a[i] ELSE s[i - n]
    BY <1>1
  <1> HIDE DEF t
  <1>3. \A i \in DOMAIN a : i \in DOMAIN t /\ t[i] = a[i]
    BY <1>1, <1>2
  <1>4. \A i \in DOMAIN s : n + i \in DOMAIN t /\ t[n + i] = s[i]
    <2> SUFFICES ASSUME NEW i \in DOMAIN s PROVE n + i \in DOMAIN t /\ t[n + i] = s[i]
      OBVIOUS
    <2>1. n + i \in 1 .. n + Len(s) /\ ~(n + i <= n) /\ (n + i) - n = i
      BY <1>1
    <2>2. QED
      BY <1>1, <1>2, <2>1
  <1>5. \A i \in DOMAIN t : (i \in DOMAIN a /\ t[i] = a[i]) \/ (i - n \in DOMAIN s /\ t[i] = s[i - n])
    BY <1>1, <1>2
  <1>6. Puts(a) \subseteq Puts(t)
    BY <1>3 DEF Puts
  <1>7. Puts(s) \subseteq Puts(t)
    BY <1>4 DEF Puts
  <1>8. Puts(t) \subseteq Puts(a) \cup Puts(s)
    BY <1>5 DEF Puts
  <1>9. QED
    BY <1>6, <1>7, <1>8 DEF t

LEMMA TellsThePut ==
  ASSUME NEW a, NEW b, NEW c, NEW d
  PROVE  <<"ENTITY">> \o <<a, b, c, d>> = <<"ENTITY", a, b, c, d>>
  <1> DEFINE E == {"ENTITY", a, b, c, d}
             x == <<"ENTITY">>
             y == <<a, b, c, d>>
             z == <<"ENTITY", a, b, c, d>>
  <1>1. x \in Seq(E) /\ Len(x) = 1 /\ x[1] = "ENTITY"
    OBVIOUS
  <1>2. y \in Seq(E) /\ Len(y) = 4 /\ y[1] = a /\ y[2] = b /\ y[3] = c /\ y[4] = d
    OBVIOUS
  <1>3. /\ z \in Seq(E) /\ Len(z) = 5
        /\ z[1] = "ENTITY" /\ z[2] = a /\ z[3] = b /\ z[4] = c /\ z[5] = d
    OBVIOUS
  <1> HIDE DEF x, y, z, E
  <1>4. /\ x \o y \in Seq(E) /\ Len(x \o y) = 5
        /\ \A i \in 1 .. 5 : (x \o y)[i] = IF i <= 1 THEN x[i] ELSE y[i - 1]
    <2>1. /\ x \o y \in Seq(E) /\ Len(x \o y) = Len(x) + Len(y)
          /\ \A i \in 1 .. Len(x) + Len(y) :
               (x \o y)[i] = IF i <= Len(x) THEN x[i] ELSE y[i - Len(x)]
      BY <1>1, <1>2, ConcatProperties
    <2>2. Len(x) + Len(y) = 5
      BY <1>1, <1>2
    <2>3. QED
      BY <1>1, <2>1, <2>2
  <1>5. /\ (x \o y)[1] = z[1] /\ (x \o y)[2] = z[2] /\ (x \o y)[3] = z[3]
        /\ (x \o y)[4] = z[4] /\ (x \o y)[5] = z[5]
    BY <1>1, <1>2, <1>3, <1>4
  <1>6. \A i \in 1 .. Len(x \o y) : (x \o y)[i] = z[i]
    <2>1. \A i \in 1 .. 5 : i = 1 \/ i = 2 \/ i = 3 \/ i = 4 \/ i = 5
      OBVIOUS
    <2>2. Len(x \o y) = 5
      BY <1>4
    <2>3. QED
      BY <1>5, <2>1, <2>2, Zenon
  <1>7. x \o y = z
    BY <1>3, <1>4, <1>6, SeqEqual
  <1>8. QED
    BY <1>7 DEF x, y, z

\* What the events of a chain tell of.
Tells(chain) == {<<"ENTITY">> \o chain[i].entry : i \in DOMAIN chain}

LEMMA TellsOfInserted ==
  ASSUME NEW chain \in Seq(EventType), NEW item \in EventType, NEW i \in 1 .. Len(chain) + 1
  PROVE  Tells(InsertAt(chain, i, item)) = Tells(chain) \cup {<<"ENTITY">> \o item.entry}
  <1> DEFINE n == Len(chain)
             t == InsertAt(chain, i, item)
  <1>1. /\ n \in Nat /\ DOMAIN chain = 1 .. n /\ DOMAIN t = 1 .. n + 1
        /\ \A j \in 1 .. n + 1 :
             t[j] = IF j < i THEN chain[j] ELSE IF j = i THEN item ELSE chain[j - 1]
    BY InsertedAt
  <1> HIDE DEF t
  <1>2. i \in DOMAIN t /\ t[i] = item
    BY <1>1
  <1>3. \A j \in DOMAIN chain : \E k \in DOMAIN t : t[k] = chain[j]
    <2> SUFFICES ASSUME NEW j \in DOMAIN chain PROVE \E k \in DOMAIN t : t[k] = chain[j]
      OBVIOUS
    <2>1. CASE j < i
      BY <1>1, <2>1
    <2>2. CASE ~(j < i)
      <3>1. j + 1 \in 1 .. n + 1 /\ ~(j + 1 < i) /\ j + 1 # i /\ (j + 1) - 1 = j
        BY <1>1, <2>2
      <3>2. t[j + 1] = chain[j]
        BY <1>1, <3>1
      <3>3. QED
        BY <1>1, <3>1, <3>2
    <2>3. QED
      BY <2>1, <2>2
  <1>4. \A k \in DOMAIN t : t[k] = item \/ \E j \in DOMAIN chain : t[k] = chain[j]
    BY <1>1
  <1>5. Tells(chain) \subseteq Tells(t)
    BY <1>3 DEF Tells
  <1>6. Tells(t) \subseteq Tells(chain) \cup {<<"ENTITY">> \o item.entry}
    BY <1>4 DEF Tells
  <1>7. <<"ENTITY">> \o item.entry \in Tells(t)
    BY <1>2 DEF Tells
  <1>8. QED
    BY <1>5, <1>6, <1>7 DEF t

\* An item of a new entry leaves no two items with the same entry.
LEMMA EntriesStayApart ==
  ASSUME NEW chain \in Seq(EventType), NEW item \in EventType, NEW i \in 1 .. Len(chain) + 1,
         \A j, k \in DOMAIN chain : chain[j].entry = chain[k].entry => j = k,
         \A j \in DOMAIN chain : chain[j].entry # item.entry
  PROVE  LET longer == InsertAt(chain, i, item) IN
         \A j, k \in DOMAIN longer : longer[j].entry = longer[k].entry => j = k
  <1> DEFINE n == Len(chain)
             t == InsertAt(chain, i, item)
             old(j) == IF j < i THEN j ELSE j - 1
  <1>1. /\ n \in Nat /\ DOMAIN chain = 1 .. n /\ DOMAIN t = 1 .. n + 1
        /\ \A j \in 1 .. n + 1 :
             t[j] = IF j < i THEN chain[j] ELSE IF j = i THEN item ELSE chain[j - 1]
    BY InsertedAt
  <1> HIDE DEF t
  <1>2. ASSUME NEW j \in DOMAIN t, j # i
        PROVE  old(j) \in DOMAIN chain /\ t[j] = chain[old(j)]
    BY <1>1, <1>2
  <1>3. t[i] = item
    BY <1>1
  <1>4. ASSUME NEW j \in DOMAIN t, NEW k \in DOMAIN t, t[j].entry = t[k].entry PROVE j = k
    <2>1. CASE j = i \/ k = i
      BY <1>2, <1>3, <1>4, <2>1
    <2>2. CASE j # i /\ k # i
      <3>1. old(j) = old(k)
        BY <1>2, <1>4, <2>2
      <3>2. QED
        BY <1>1, <2>2, <3>1
    <2>3. QED
      BY <2>1, <2>2
  <1>5. QED
    BY <1>4 DEF t

-------------------------------------------------------------------------------
(* Steps that commit nothing *)

Committed == <<rows, events, audits, served, late>>

LEMMA Constants ==
  /\ None \notin Caller /\ None \notin Id /\ None \notin Nat /\ None \notin EventEntry
  /\ None \notin [entry : EventEntry, previous : EventEntry \cup {None}]
  /\ None # "CREATE" /\ None # "UPDATE"
  /\ \A c \in Observer : c \notin Owner /\ c \notin Evaluator /\ c \in Caller
  /\ \A c \in Evaluator : c \notin Owner /\ c \notin Observer /\ c \in Caller
  /\ \A c \in Owner : c \notin Evaluator /\ c \notin Observer /\ c \in Caller
  /\ \A c \in Caller : c \notin Observer => c \in Owner \cup Evaluator
  /\ \A id \in Review : id \notin Case /\ id \in Id
  /\ \A id \in Case : id \notin Review /\ id \in Id
  BY ReviewDeskAssumption DEF Caller, Id

LEMMA PutsAreTyped ==
  ASSUME TypeOK
  PROVE  /\ AuditedPuts = Puts(audits) /\ Told = Tells(events)
         /\ AuditedPuts \subseteq AuditEntry
         /\ \A i \in DOMAIN events : events[i] \in EventType
  <1>1. /\ \A i \in DOMAIN audits : audits[i] \in AuditType
        /\ \A i \in DOMAIN events : events[i] \in EventType
    BY DEF TypeOK
  <1>2. AuditedPuts \subseteq AuditEntry
    BY <1>1 DEF AuditedPuts, AuditType
  <1>3. QED
    BY <1>1, <1>2 DEF AuditedPuts, Puts, Told, Tells

\* c alone moves, and no committed state changes.
LEMMA QuietStep ==
  ASSUME DeskInv, NEW c \in Caller, UNCHANGED Committed,
         call' \in [Caller -> CallType], \A d \in Caller \ {c} : call'[d] = call[d],
         rowLock' \in [Id -> Caller \cup {None}], advisory' \in Caller \cup {None},
         broken' \in 0 .. MaxBroken,
         Shape(c)', Linked(c)', Based(c)', Locks',
         call'[c].id \in Review /\ rows[call'[c].id] = NoRow
           => call'[c].id = call[c].id \/ Unused(call'[c].id),
         ~At(c, "broken"),
         Saved(c) => /\ call'[c].id = call[c].id /\ call'[c].next = call[c].next
                     /\ Saved(c)' \/ At(c, "broken")',
         Saved(c)' => Saved(c)
  PROVE  DeskInv'
  <1>1. /\ rows' = rows /\ events' = events /\ audits' = audits /\ served' = served /\ late' = late
    BY DEF Committed
  <1>2. TypeOK'
    BY <1>1 DEF DeskInv, TypeOK
  <1>3. ASSUME NEW d \in Caller PROVE (Shape(d) /\ Linked(d) /\ Based(d))'
    <2>1. CASE d = c
      BY <2>1
    <2>2. CASE d # c
      <3>1. call'[d] = call[d]
        BY <2>2
      <3>2. Shape(d) /\ Linked(d) /\ Based(d)
        BY DEF DeskInv
      <3>3. Shape(d)'
        BY <1>1, <3>1, <3>2 DEF Shape, At, PutOf, EventOf, Plain, Saving, Saved
      <3>4. Linked(d)'
        BY <1>1, <3>1, <3>2 DEF Linked
      <3>5. Based(d)'
        BY <1>1, <3>1, <3>2 DEF Based, At, Saving, Decided
      <3>6. QED
        BY <3>3, <3>4, <3>5
    <2>3. QED
      BY <2>1, <2>2
  <1>4. RowsShape'
    BY <1>1 DEF DeskInv, RowsShape
  <1>5. OneCreator'
    <2> SUFFICES ASSUME NEW id \in Review, rows[id] = NoRow,
                        NEW d \in Caller, NEW e \in Caller, call'[d].id = id, call'[e].id = id
                 PROVE  d = e
      BY <1>1 DEF OneCreator
    <2>1. \A a, b \in Caller : call[a].id = id /\ call[b].id = id => a = b
      BY DEF DeskInv, OneCreator
    <2>2. CASE call'[c].id # id \/ call'[c].id = call[c].id
      BY <2>1, <2>2
    <2>3. CASE call'[c].id = id /\ Unused(id)
      BY <2>3 DEF Unused
    <2>4. QED
      BY <2>2, <2>3
  <1>6. Told' = Told /\ AuditedPuts' = AuditedPuts
    BY <1>1 DEF Told, AuditedPuts
  <1>7. Numbered'
    <2>1. \A d \in Caller \ {c} :
            PutOf(d)' = PutOf(d) /\ (Saved(d)' <=> Saved(d)) /\ (At(d, "broken")' <=> At(d, "broken"))
      BY <1>1 DEF PutOf, Saved, At
    <2>2. Saved(c) => PutOf(c)' = PutOf(c)
      BY <1>1 DEF PutOf
    <2>3. ASSUME NEW put \in AuditedPuts \ Told
          PROVE  /\ put[2] \in Review /\ put = PutOf(put[4])'
                 /\ Saved(put[4])' \/ At(put[4], "broken")'
      <3>1. put \in AuditEntry
        BY PutsAreTyped DEF DeskInv
      <3>2. put[4] \in Caller
        BY <3>1 DEF AuditEntry
      <3>3. put[2] \in Review /\ put = PutOf(put[4]) /\ (Saved(put[4]) \/ At(put[4], "broken"))
        BY DEF DeskInv, Numbered
      <3>4. QED
        BY <2>1, <2>2, <3>2, <3>3
    <2>4. \A d \in Caller : Saved(d)' => PutOf(d)' \in AuditedPuts
      BY <2>1, <2>2 DEF DeskInv, Numbered
    <2>5. QED
      BY <1>1, <1>6, <2>3, <2>4 DEF DeskInv, Numbered
  <1>8. LedgersVerify'
    BY <1>1 DEF DeskInv, LedgersVerify
  <1>9. QED
    BY <1>2, <1>3, <1>4, <1>5, <1>7, <1>8 DEF DeskInv

\* Locks that c alone takes or gives back.
LEMMA LocksMove ==
  ASSUME Locks, NEW c \in Caller,
         \A d \in Caller \ {c} : call'[d] = call[d],
         \A d \in Caller \ {c} : advisory' = d <=> advisory = d,
         \A d \in Caller \ {c}, id \in Id : rowLock'[id] = d <=> rowLock[id] = d,
         advisory' = c <=> HoldsLedger(c)',
         \A id \in Id : rowLock'[id] = c <=> HoldsRow(c)' /\ call'[c].id = id
  PROVE  Locks'
  <1> SUFFICES ASSUME NEW d \in Caller
               PROVE  /\ advisory' = d <=> HoldsLedger(d)'
                      /\ \A id \in Id : rowLock'[id] = d <=> HoldsRow(d)' /\ call'[d].id = id
    BY DEF Locks
  <1>1. CASE d = c
    BY <1>1
  <1>2. CASE d # c
    <2>1. /\ advisory = d <=> HoldsLedger(d)
          /\ \A id \in Id : rowLock[id] = d <=> HoldsRow(d) /\ call[d].id = id
      BY DEF Locks
    <2>2. (HoldsLedger(d)' <=> HoldsLedger(d)) /\ (HoldsRow(d)' <=> HoldsRow(d)) /\ call'[d] = call[d]
      BY <1>2 DEF HoldsLedger, HoldsRow, Saving, At
    <2>3. QED
      BY <1>2, <2>1, <2>2
  <1>3. QED
    BY <1>1, <1>2

-------------------------------------------------------------------------------
(* Requests *)

LEMMA NoCallIsTyped == NoCall \in CallType /\ NoRow \in RowType
  BY DEF NoCall, NoRow, CallType, RowType, Pc

\* What the routes and the observation workflow make sure of before they save.
Savable(c, id, expected, next) ==
  /\ id \in Kinds(c) /\ next \in RowType /\ next.version > 0
  /\ expected # None => expected = next.version - 1 /\ expected = rows[id].version
  /\ expected = None => c \notin Observer /\ next.version = 1 /\ rows[id] = NoRow
  /\ id \in Review /\ rows[id] = NoRow => Unused(id)
  /\ c \notin Observer => next.status \in Status
  /\ c \notin Observer /\ rows[id] # NoRow =>
       c \in Evaluator /\ \E ask \in Asked : MayAsk(c, rows[id], ask)
                                            /\ next = Transitioned(c, rows[id], ask)

LEMMA Sent ==
  ASSUME DeskInv, NEW c \in Caller, Idle(c), NEW id, NEW expected \in Nat \cup {None}, NEW next,
         Savable(c, id, expected, next), Send(c, id, expected, next)
  PROVE  DeskInv'
  <1> DEFINE k == [NoCall EXCEPT !.pc = "select", !.id = id, !.expected = expected, !.next = next]
  <1>1. id \in Id
    BY Constants DEF Kinds, Savable
  <1>2. /\ k \in CallType
        /\ k.pc = "select" /\ k.id = id /\ k.expected = expected /\ k.next = next
        /\ k.op = None /\ k.event = None /\ k.audits = <<>>
    BY <1>1, NoCallIsTyped DEF NoCall, CallType, Pc, Savable
  <1>3. call' = [call EXCEPT ![c] = k] /\ call \in [Caller -> CallType]
    BY DEF Send, DeskInv, TypeOK
  <1> HIDE DEF k
  <1>4. call'[c] = k /\ \A d \in Caller \ {c} : call'[d] = call[d]
    BY <1>3
  <1>5. /\ rows' = rows /\ events' = events /\ audits' = audits /\ served' = served /\ late' = late
        /\ rowLock' = rowLock /\ advisory' = advisory /\ broken' = broken
    BY DEF Send
  <1>6. call[c].pc = "idle"
    BY DEF Idle
  <1>7. Shape(c)'
    BY <1>2, <1>4 DEF Shape, At, Kinds, Saved, Saving, Savable
  <1>8. Linked(c)'
    BY <1>2, <1>4 DEF Linked
  <1>9. Based(c)'
    <2>1. /\ k.expected # None => k.expected = k.next.version - 1 /\ k.expected <= rows'[k.id].version
          /\ k.expected = None => c \notin Observer /\ k.next.version = 1 /\ rows'[k.id] = NoRow
      <3>1. rows[id] \in RowType
        BY <1>1 DEF DeskInv, TypeOK
      <3>2. QED
        BY <1>2, <1>5, <3>1 DEF Savable, RowType
    <2>2. c \notin Observer /\ rows'[k.id] # NoRow => c \in Evaluator /\ Decided(c)'
      BY <1>2, <1>4, <1>5 DEF Decided, Savable
    <2>3. QED
      BY <1>2, <1>4, <2>1, <2>2, Constants DEF Based, At
  <1>10. Locks'
    <2>1. Locks /\ ~HoldsLedger(c) /\ ~HoldsRow(c)
      BY <1>6 DEF DeskInv, HoldsLedger, HoldsRow, Saving, At
    <2>2. ~HoldsLedger(c)' /\ ~HoldsRow(c)'
      BY <1>2, <1>4 DEF HoldsLedger, HoldsRow, Saving, At
    <2>3. advisory # c /\ \A i \in Id : rowLock[i] # c
      BY <2>1 DEF Locks
    <2>4. QED
      BY <1>4, <1>5, <2>1, <2>2, <2>3, LocksMove
  <1>11. ~Saved(c) /\ ~Saved(c)' /\ ~At(c, "broken")
    BY <1>2, <1>4, <1>6 DEF Saved, At
  <1>12. /\ call' \in [Caller -> CallType] /\ rowLock' \in [Id -> Caller \cup {None}]
         /\ advisory' \in Caller \cup {None} /\ broken' \in 0 .. MaxBroken
    BY <1>2, <1>3, <1>5 DEF DeskInv, TypeOK
  <1>13. call'[c].id \in Review /\ rows[call'[c].id] = NoRow => Unused(call'[c].id)
    BY <1>2, <1>4 DEF Savable
  <1>14. UNCHANGED Committed
    BY <1>5 DEF Committed
  <1>15. QED
    BY <1>4, <1>7, <1>8, <1>9, <1>10, <1>11, <1>12, <1>13, <1>14, QuietStep

LEMMA RequestKeeps ==
  ASSUME DeskInv, NEW c \in Caller, RequestReview(c)
  PROVE  DeskInv'
  <1>1. PICK id \in Review : Unused(id) /\ Send(c, id, None, CreatedReview(None))
    BY DEF RequestReview
  <1>2. /\ CreatedReview(None) \in RowType /\ CreatedReview(None).version = 1
        /\ CreatedReview(None).status \in Status
    BY DEF CreatedReview, RowType, Status
  <1>3. c \notin Observer /\ id \in Kinds(c) /\ Idle(c) /\ rows[id] = NoRow
    BY <1>1, Constants DEF RequestReview, Kinds, Unused
  <1>4. Savable(c, id, None, CreatedReview(None))
    BY <1>1, <1>2, <1>3 DEF Savable
  <1>5. QED
    BY <1>1, <1>3, <1>4, Sent

LEMMA PostKeeps ==
  ASSUME DeskInv, NEW c \in Caller, PostReview(c)
  PROVE  DeskInv'
  <1>1. PICK id \in Review, assignee \in Evaluator \cup {None} :
          Unused(id) /\ Send(c, id, None, CreatedReview(assignee))
    BY DEF PostReview
  <1>2. /\ CreatedReview(assignee) \in RowType /\ CreatedReview(assignee).version = 1
        /\ CreatedReview(assignee).status \in Status
    BY DEF CreatedReview, RowType, Status
  <1>3. c \notin Observer /\ id \in Kinds(c) /\ Idle(c) /\ rows[id] = NoRow
    BY <1>1, Constants DEF PostReview, Kinds, Unused
  <1>4. Savable(c, id, None, CreatedReview(assignee))
    BY <1>1, <1>2, <1>3 DEF Savable
  <1>5. QED
    BY <1>1, <1>3, <1>4, Sent

LEMMA RowFields ==
  ASSUME NEW v \in Nat, NEW st \in Status \cup {None}, NEW as \in Evaluator \cup {None},
         NEW de \in BOOLEAN, NEW row,
         row = [version |-> v, status |-> st, assignee |-> as, decided |-> de]
  PROVE  row \in RowType /\ row.version = v /\ row.status = st
  BY DEF RowType

\* What the policy lets an evaluator ask for is a row, one version on.
LEMMA TransitionedIsTyped ==
  ASSUME NEW e \in Evaluator, NEW row \in RowType, NEW ask \in Asked,
         row.status \in Status, MayAsk(e, row, ask)
  PROVE  /\ Transitioned(e, row, ask) \in RowType
         /\ Transitioned(e, row, ask).version = row.version + 1
         /\ Transitioned(e, row, ask).status \in Status
  <1>1. ask.assignee \in Evaluator \cup {None} /\ ask.decides \in BOOLEAN
    BY ReviewDeskAssumption
  <1>2. ask.status \in Status
    BY DEF MayAsk, allowed, Status
  <1>3. row.decided \in BOOLEAN /\ row.assignee \in Evaluator \cup {None} /\ row.version \in Nat
    BY DEF RowType
  <1> DEFINE v == row.version + 1
             st == ask.status
             as == IF ask.assignee # None THEN ask.assignee
                   ELSE IF e \notin Admin /\ row.assignee = None THEN e ELSE row.assignee
  <1>4. v \in Nat /\ st \in Status \cup {None} /\ as \in Evaluator \cup {None}
    BY <1>1, <1>2, <1>3
  <1>5. \E de \in BOOLEAN :
          Transitioned(e, row, ask) = [version |-> v, status |-> st, assignee |-> as, decided |-> de]
    <2>1. CASE row.decided \/ ask.decides
      <3>1. Transitioned(e, row, ask) =
              [version |-> v, status |-> st, assignee |-> as, decided |-> TRUE]
        BY <1>1, <1>3, <2>1 DEF Transitioned
      <3>2. QED
        BY <3>1
    <2>2. CASE ~(row.decided \/ ask.decides)
      <3>1. Transitioned(e, row, ask) =
              [version |-> v, status |-> st, assignee |-> as, decided |-> FALSE]
        BY <1>1, <1>3, <2>2 DEF Transitioned
      <3>2. QED
        BY <3>1
    <2>3. QED
      BY <2>1, <2>2
  <1> HIDE DEF v, st, as
  <1>6. /\ Transitioned(e, row, ask) \in RowType
        /\ Transitioned(e, row, ask).version = v /\ Transitioned(e, row, ask).status = st
    <2>1. PICK de \in BOOLEAN :
            Transitioned(e, row, ask) =
              [version |-> v, status |-> st, assignee |-> as, decided |-> de]
      BY <1>5
    <2> DEFINE t == Transitioned(e, row, ask)
    <2>2. t = [version |-> v, status |-> st, assignee |-> as, decided |-> de]
      BY <2>1
    <2> HIDE DEF t
    <2>3. t \in RowType
      BY <1>4, <2>2 DEF RowType
    <2>4. t.version = v /\ t.status = st
      BY <2>2
    <2>5. QED
      BY <2>3, <2>4 DEF t
  <1>7. QED
    BY <1>2, <1>6 DEF v, st

LEMMA AskKeeps ==
  ASSUME DeskInv, NEW c \in Caller, AskTransition(c)
  PROVE  DeskInv'
  <1>1. PICK id \in Review, ask \in Asked :
          /\ rows[id] # NoRow /\ MayAsk(c, rows[id], ask)
          /\ Send(c, id, rows[id].version, Transitioned(c, rows[id], ask))
    BY DEF AskTransition
  <1>2. c \in Evaluator /\ c \notin Observer /\ id \in Kinds(c) /\ Idle(c) /\ id \in Id
    BY <1>1, Constants DEF AskTransition, Kinds
  <1>3. rows[id] \in RowType /\ rows[id].status \in Status /\ rows[id].version \in Nat
    BY <1>1, <1>2 DEF DeskInv, TypeOK, RowsShape, RowType
  <1> DEFINE next == Transitioned(c, rows[id], ask)
  <1>4. next \in RowType /\ next.version = rows[id].version + 1 /\ next.status \in Status
    BY <1>1, <1>2, <1>3, TransitionedIsTyped
  <1>5. \E a \in Asked : MayAsk(c, rows[id], a) /\ next = Transitioned(c, rows[id], a)
    BY <1>1
  <1>6. Send(c, id, rows[id].version, next)
    BY <1>1
  <1> HIDE DEF next
  <1>7. next.version > 0 /\ rows[id].version = next.version - 1
    BY <1>3, <1>4
  <1>8. rows[id].version # None
    BY <1>3, Constants
  <1>9. Savable(c, id, rows[id].version, next)
    BY <1>1, <1>2, <1>4, <1>5, <1>7, <1>8 DEF Savable
  <1>10. QED
    BY <1>2, <1>3, <1>6, <1>9, Sent

LEMMA ObserveKeeps ==
  ASSUME DeskInv, NEW c \in Caller, Observe(c)
  PROVE  DeskInv'
  <1>1. PICK id \in Case : Send(c, id, rows[id].version, Observed(rows[id]))
    BY DEF Observe
  <1>2. c \in Observer /\ id \in Kinds(c) /\ Idle(c) /\ id \in Id /\ id \notin Review
    BY <1>1, Constants DEF Observe, Kinds
  <1>3. rows[id] \in RowType /\ rows[id].version \in Nat
    BY <1>2 DEF DeskInv, TypeOK, RowType
  <1> DEFINE next == Observed(rows[id])
  <1>4. next \in RowType /\ next.version = rows[id].version + 1
    <2>1. rows[id].version + 1 \in Nat
      BY <1>3
    <2>2. QED
      BY <2>1, NoCallIsTyped DEF Observed, RowType
  <1>5. Send(c, id, rows[id].version, next)
    BY <1>1
  <1> HIDE DEF next
  <1>6. next.version > 0 /\ rows[id].version = next.version - 1 /\ rows[id].version # None
    BY <1>3, <1>4, Constants
  <1>7. Savable(c, id, rows[id].version, next)
    BY <1>2, <1>4, <1>6 DEF Savable
  <1>8. QED
    BY <1>2, <1>3, <1>5, <1>7, Sent

-------------------------------------------------------------------------------
(* Statements *)

\* A call that has begun, and what its place says of it.
LEMMA UnderWay ==
  ASSUME DeskInv, NEW c \in Caller, ~At(c, "idle")
  PROVE  /\ call[c] \in CallType /\ call[c].id \in Id /\ call[c].id \in Kinds(c)
         /\ call[c].next \in RowType /\ call[c].next.version \in Nat /\ call[c].next.version > 0
         /\ rows[call[c].id] \in RowType /\ rows[call[c].id].version \in Nat
         /\ served[c] \in Nat
         /\ Shape(c) /\ Linked(c) /\ Based(c)
  <1>1. Shape(c) /\ Linked(c) /\ Based(c)
    BY DEF DeskInv
  <1>2. call[c].id \in Kinds(c) /\ call[c].next.version > 0
    BY <1>1 DEF Shape
  <1>3. call[c].id \in Id
    BY <1>2, Constants DEF Kinds
  <1>4. call[c] \in CallType /\ rows[call[c].id] \in RowType /\ served[c] \in Nat
    BY <1>3 DEF DeskInv, TypeOK
  <1>5. QED
    BY <1>1, <1>2, <1>3, <1>4 DEF CallType, RowType

LEMMA CallMoves ==
  ASSUME DeskInv, NEW c \in Caller, NEW k \in CallType, call' = [call EXCEPT ![c] = k]
  PROVE  /\ call' \in [Caller -> CallType] /\ call'[c] = k
         /\ \A d \in Caller \ {c} : call'[d] = call[d]
  BY DEF DeskInv, TypeOK

LEMMA SelectKeeps ==
  ASSUME DeskInv, NEW c \in Caller, SelectForUpdate(c)
  PROVE  DeskInv'
  <1>1. At(c, "select") /\ ~At(c, "idle")
    BY DEF SelectForUpdate, At
  <1>2. /\ rows' = rows /\ events' = events /\ audits' = audits /\ served' = served /\ late' = late
        /\ advisory' = advisory /\ broken' = broken /\ UNCHANGED Committed
    BY DEF SelectForUpdate, Committed
  <1>3. ~Saved(c) /\ ~At(c, "broken") /\ Locks /\ ~HoldsRow(c) /\ ~HoldsLedger(c)
    BY <1>1 DEF Saved, At, DeskInv, HoldsRow, HoldsLedger
  <1>4. advisory # c /\ \A id \in Id : rowLock[id] # c
    BY <1>3 DEF Locks
  <1>5. rowLock \in [Id -> Caller \cup {None}] /\ advisory' \in Caller \cup {None}
        /\ broken' \in 0 .. MaxBroken
    BY <1>2 DEF DeskInv, TypeOK
  <1>6. CASE Conflicts(c)
    <2>1. call' = [call EXCEPT ![c] = NoCall] /\ rowLock' = rowLock
      BY <1>6 DEF SelectForUpdate, AfterConflict
    <2>2. /\ call' \in [Caller -> CallType] /\ call'[c] = NoCall
          /\ \A d \in Caller \ {c} : call'[d] = call[d]
      BY <2>1, NoCallIsTyped, CallMoves
    <2>3. /\ NoCall.pc = "idle" /\ NoCall.audits = <<>> /\ NoCall.event = None
          /\ NoCall.id = None
      BY DEF NoCall
    <2>4. Shape(c)' /\ Linked(c)' /\ Based(c)'
      BY <2>2, <2>3 DEF Shape, Linked, Based, Saving, Saved, At
    <2>5. ~HoldsRow(c)' /\ ~HoldsLedger(c)' /\ ~Saved(c)'
      BY <2>2, <2>3 DEF HoldsRow, HoldsLedger, Saving, Saved, At
    <2>6. Locks'
      BY <1>2, <1>3, <1>4, <2>1, <2>2, <2>5, LocksMove
    <2>7. call'[c].id \notin Review
      BY <2>2, <2>3, Constants
    <2>8. QED
      BY <1>2, <1>3, <1>5, <2>1, <2>2, <2>4, <2>5, <2>6, <2>7, QuietStep
  <1>7. CASE ~Conflicts(c)
    <2> DEFINE id == call[c].id
               op == IF rows[id] = NoRow THEN "CREATE" ELSE "UPDATE"
               k == [call[c] EXCEPT !.pc = "upsert", !.op = op]
    <2>1. /\ call[c] \in CallType /\ id \in Id /\ id \in Kinds(c) /\ call[c].next.version \in Nat
          /\ call[c].next.version > 0 /\ Shape(c) /\ Based(c) /\ rows[id].version \in Nat
      BY <1>1, UnderWay
    <2>2. /\ k \in CallType /\ k.pc = "upsert" /\ k.op = op /\ k.id = id /\ k.next = call[c].next
          /\ k.event = call[c].event /\ k.audits = call[c].audits
      BY <2>1 DEF CallType, Pc
    <2>3. call' = [call EXCEPT ![c] = k]
      BY <1>7, <2>1 DEF SelectForUpdate, DeskInv, TypeOK
    <2>4. rowLock' = IF rows[id] = NoRow THEN rowLock ELSE [rowLock EXCEPT ![id] = c]
      BY <1>7 DEF SelectForUpdate
    <2>5. rows[id] # NoRow => rowLock[id] \in {None, c}
      BY DEF SelectForUpdate, RowFree
    <2> HIDE DEF k
    <2>6. /\ call' \in [Caller -> CallType] /\ call'[c] = k
          /\ \A d \in Caller \ {c} : call'[d] = call[d]
      BY <2>2, <2>3, CallMoves
    <2>7. call[c].audits = <<>> /\ call[c].event = None
      BY <1>1, <2>1 DEF Shape, At
    <2>8. Shape(c)'
      <3>1. k.op # None
        BY <2>2, Constants
      <3>2. c \notin Observer => k.next.status \in Status
        BY <1>1, <2>1, <2>2 DEF Shape, At
      <3>3. k.id \in Kinds(c) /\ k.next.version > 0
        BY <2>1, <2>2
      <3>4. QED
        BY <2>2, <2>6, <2>7, <3>1, <3>2, <3>3 DEF Shape, At, Kinds, Saved, Saving
    <2>9. Linked(c)'
      BY <2>2, <2>6, <2>7 DEF Linked
    <2>10. Based(c)'
      <3>1. call[c].expected \in {None, rows[id].version}
        BY <1>7 DEF Conflicts
      <3>2. Saving(c)
        BY <1>1 DEF Saving, At
      <3>3. rows[id] = NoRow => call[c].next.version = 1
        <4>1. CASE call[c].expected = None
          BY <1>1, <2>1, <4>1 DEF Based
        <4>2. CASE call[c].expected # None
          <5>1. call[c].expected = rows[id].version /\ call[c].expected = call[c].next.version - 1
            BY <1>1, <2>1, <3>1, <4>2 DEF Based
          <5>2. NoRow.version = 0
            BY DEF NoRow
          <5>3. rows[id] = NoRow => rows[id].version = 0
            BY <5>2, Zenon
          <5>4. QED
            BY <2>1, <5>1, <5>3
        <4>3. QED
          BY <4>1, <4>2
      <3>4. rows[id] # NoRow => rows[id].version = call[c].next.version - 1
        BY <1>1, <2>1, <3>1 DEF Based
      <3>5. c \notin Observer /\ rows[id] # NoRow /\ rows[id].version = call[c].next.version - 1
              => c \in Evaluator /\ Decided(c)
        BY <2>1, <3>2 DEF Based
      <3>6. Decided(c)' <=> Decided(c)
        BY <1>2, <2>2, <2>6 DEF Decided
      <3>7. /\ ~At(c, "select")' /\ call'[c].op = op /\ call'[c].id = id
            /\ call'[c].next = call[c].next /\ rows' = rows
        BY <1>2, <2>2, <2>6 DEF At
      <3>8. QED
        BY <3>3, <3>4, <3>5, <3>6, <3>7 DEF Based
    <2>11. ~Saved(c)' /\ ~HoldsLedger(c)' /\ (HoldsRow(c)' <=> rows[id] # NoRow)
      BY <2>2, <2>6 DEF Saved, HoldsLedger, HoldsRow, Saving, At
    <2>12. rowLock' \in [Id -> Caller \cup {None}]
      BY <1>5, <2>1, <2>4
    <2>13. \A d \in Caller \ {c}, i \in Id : rowLock'[i] = d <=> rowLock[i] = d
      BY <1>5, <2>1, <2>4, <2>5, Constants
    <2>14. \A i \in Id : rowLock'[i] = c <=> HoldsRow(c)' /\ call'[c].id = i
      BY <1>4, <1>5, <2>1, <2>2, <2>4, <2>6, <2>11
    <2>15. Locks'
      BY <1>2, <1>3, <1>4, <2>6, <2>11, <2>13, <2>14, LocksMove
    <2>16. call'[c].id = call[c].id
      BY <2>2, <2>6
    <2>17. QED
      BY <1>2, <1>3, <1>5, <2>6, <2>8, <2>9, <2>10, <2>11, <2>12, <2>15, <2>16, QuietStep
  <1>8. QED
    BY <1>6, <1>7

LEMMA UpsertKeeps ==
  ASSUME DeskInv, NEW c \in Caller, Upsert(c)
  PROVE  DeskInv'
  <1> DEFINE id == call[c].id
             k == [call[c] EXCEPT !.pc = "audit"]
  <1>1. At(c, "upsert") /\ ~At(c, "idle")
    BY DEF Upsert, At
  <1>2. /\ rows' = rows /\ events' = events /\ audits' = audits /\ served' = served /\ late' = late
        /\ advisory' = advisory /\ broken' = broken /\ UNCHANGED Committed
    BY DEF Upsert, Committed
  <1>3. ~Saved(c) /\ ~At(c, "broken") /\ Locks /\ ~HoldsLedger(c) /\ Saving(c)
    BY <1>1 DEF Saved, At, DeskInv, HoldsLedger, Saving
  <1>4. advisory # c /\ \A i \in Id : rowLock[i] = c => i = id
    BY <1>3 DEF Locks
  <1>5. /\ rowLock \in [Id -> Caller \cup {None}] /\ advisory' \in Caller \cup {None}
        /\ broken' \in 0 .. MaxBroken
    BY <1>2 DEF DeskInv, TypeOK
  <1>6. call[c] \in CallType /\ id \in Id /\ id \in Kinds(c) /\ Shape(c) /\ Based(c)
    BY <1>1, UnderWay
  <1>7. /\ k \in CallType /\ k.pc = "audit" /\ k.op = call[c].op /\ k.id = id
        /\ k.next = call[c].next /\ k.event = call[c].event /\ k.audits = call[c].audits
    BY <1>6 DEF CallType, Pc
  <1>8. call' = [call EXCEPT ![c] = k] /\ rowLock' = [rowLock EXCEPT ![id] = c]
        /\ rowLock[id] \in {None, c}
    BY <1>6 DEF Upsert, RowFree, DeskInv, TypeOK
  <1> HIDE DEF k
  <1>9. /\ call' \in [Caller -> CallType] /\ call'[c] = k
        /\ \A d \in Caller \ {c} : call'[d] = call[d]
    BY <1>7, <1>8, CallMoves
  <1>10. call[c].audits = <<>> /\ call[c].event = None /\ call[c].op # None
    BY <1>1, <1>3, <1>6 DEF Shape, At
  <1>11. Shape(c)'
    <2>1. /\ k.id \in Kinds(c) /\ k.next.version > 0
          /\ c \notin Observer => k.next.status \in Status
      BY <1>1, <1>6, <1>7 DEF Shape, At
    <2>2. QED
      BY <1>7, <1>9, <1>10, <2>1 DEF Shape, At, Kinds, Saved, Saving
  <1>12. Linked(c)'
    BY <1>7, <1>9, <1>10 DEF Linked
  <1>13. Based(c)'
    <2>1. Decided(c)' <=> Decided(c)
      BY <1>2, <1>7, <1>9 DEF Decided
    <2>2. /\ ~At(c, "select")' /\ call'[c].op = call[c].op /\ call'[c].id = id
          /\ call'[c].next = call[c].next /\ rows' = rows
      BY <1>2, <1>7, <1>9 DEF At
    <2>3. QED
      BY <1>3, <1>6, <2>1, <2>2 DEF Based
  <1>14. ~Saved(c)' /\ ~HoldsLedger(c)' /\ HoldsRow(c)' /\ call'[c].id = call[c].id
    BY <1>7, <1>9 DEF Saved, HoldsLedger, HoldsRow, Saving, At
  <1>15. rowLock' \in [Id -> Caller \cup {None}]
    BY <1>5, <1>6, <1>8
  <1>16. Locks'
    <2>1. \A d \in Caller \ {c}, i \in Id : rowLock'[i] = d <=> rowLock[i] = d
      BY <1>5, <1>6, <1>8, Constants
    <2>2. \A i \in Id : rowLock'[i] = c <=> HoldsRow(c)' /\ call'[c].id = i
      BY <1>4, <1>5, <1>6, <1>8, <1>14
    <2>3. QED
      BY <1>2, <1>3, <1>4, <1>9, <1>14, <2>1, <2>2, LocksMove
  <1>17. QED
    BY <1>2, <1>3, <1>5, <1>9, <1>11, <1>12, <1>13, <1>14, <1>15, <1>16, QuietStep

\* What the ledger's next record links to, for a transaction that has written those.
LEMMA RecordIsTyped ==
  ASSUME DeskInv, NEW c \in Caller, ~At(c, "idle"), NEW model \in {"ENTITY", "EVENT"},
         NEW op \in {"CREATE", "UPDATE"}
  PROVE  /\ AuditRecord(c, model, op) \in AuditType
         /\ AuditRecord(c, model, op).entry =
              <<model, call[c].id, call[c].next.version, c, served[c]>>
         /\ AuditRecord(c, model, op).op = op
         /\ AuditRecord(c, model, op).previous =
              IF call[c].audits = <<>> THEN LastOf(audits)
              ELSE call[c].audits[Len(call[c].audits)].entry
  <1>1. /\ call[c] \in CallType /\ call[c].id \in Id /\ call[c].next.version \in Nat
        /\ served[c] \in Nat
    BY UnderWay
  <1>2. audits \in Seq(AuditType) /\ call[c].audits \in Seq(AuditType)
    BY <1>1 DEF DeskInv, TypeOK, CallType
  <1>3. PreviousAudit(c) = IF call[c].audits = <<>> THEN LastOf(audits)
                           ELSE call[c].audits[Len(call[c].audits)].entry
    BY <1>2, LastOfJoined DEF PreviousAudit
  <1>4. LastOf(audits) \in AuditEntry \cup {None}
    <2>1. audits # <<>> => audits[Len(audits)] \in AuditType
      BY <1>2
    <2>2. QED
      BY <2>1 DEF LastOf, AuditType
  <1>5. PreviousAudit(c) \in AuditEntry \cup {None}
    <2>1. call[c].audits # <<>> => call[c].audits[Len(call[c].audits)] \in AuditType
      BY <1>2
    <2>2. QED
      BY <1>3, <1>4, <2>1 DEF AuditType
  <1> DEFINE e == <<model, call[c].id, call[c].next.version, c, served[c]>>
  <1>6. e \in AuditEntry
    BY <1>1 DEF AuditEntry
  <1>7. AuditRecord(c, model, op) = [entry |-> e, op |-> op, previous |-> PreviousAudit(c)]
    BY DEF AuditRecord
  <1> HIDE DEF e
  <1>8. QED
    BY <1>3, <1>5, <1>6, <1>7 DEF AuditType, e

LEMMA AuditKeeps ==
  ASSUME DeskInv, NEW c \in Caller, AuditPut(c)
  PROVE  DeskInv'
  <1> DEFINE id == call[c].id
             record == AuditRecord(c, "ENTITY", call[c].op)
             pc == IF c \in Observer THEN "append" ELSE "commit"
             k == [call[c] EXCEPT !.pc = pc, !.audits = <<record>>]
  <1>1. At(c, "audit") /\ ~At(c, "idle")
    BY DEF AuditPut, At
  <1>2. /\ rows' = rows /\ events' = events /\ audits' = audits /\ served' = served /\ late' = late
        /\ rowLock' = rowLock /\ broken' = broken /\ UNCHANGED Committed
    BY DEF AuditPut, Committed
  <1>3. ~Saved(c) /\ ~At(c, "broken") /\ Locks /\ HoldsRow(c) /\ Saving(c)
    BY <1>1 DEF Saved, At, DeskInv, HoldsRow, Saving
  <1>4. /\ rowLock' \in [Id -> Caller \cup {None}] /\ broken' \in 0 .. MaxBroken
        /\ advisory' = c /\ advisory \in {None, c}
    BY <1>2 DEF DeskInv, TypeOK, AuditPut, LedgerFree
  <1>5. call[c] \in CallType /\ id \in Id /\ id \in Kinds(c) /\ Shape(c) /\ Based(c)
    BY <1>1, UnderWay
  <1>6. call[c].audits = <<>> /\ call[c].event = None /\ call[c].op \in {"CREATE", "UPDATE"}
    BY <1>1, <1>3, <1>5 DEF Shape, At, CallType
  <1>7. /\ record \in AuditType /\ record.entry = PutOf(c) /\ record.op = call[c].op
        /\ record.previous = LastOf(audits)
    BY <1>1, <1>6, RecordIsTyped DEF PutOf
  <1>8. call' = [call EXCEPT ![c] = k]
    <2>1. Append(call[c].audits, record) = <<record>>
      BY <1>6
    <2>2. QED
      BY <1>5, <2>1 DEF AuditPut, DeskInv, TypeOK
  <1> HIDE DEF record
  <1>9. <<record>> \in Seq(AuditType) /\ Len(<<record>>) = 1 /\ <<record>>[1] = record
        /\ <<record>> # <<>> /\ DOMAIN <<record>> = {1}
    BY <1>7
  <1>10. /\ k \in CallType /\ k.pc = pc /\ k.op = call[c].op /\ k.id = id
         /\ k.next = call[c].next /\ k.event = call[c].event /\ k.audits = <<record>>
    BY <1>5, <1>9 DEF CallType, Pc
  <1> HIDE DEF k
  <1>11. /\ call' \in [Caller -> CallType] /\ call'[c] = k
         /\ \A d \in Caller \ {c} : call'[d] = call[d]
    BY <1>8, <1>10, CallMoves
  <1>12. ~Saved(c)' /\ HoldsLedger(c)' /\ HoldsRow(c)' /\ call'[c].id = call[c].id /\ Saving(c)'
         /\ ~At(c, "select")' /\ ~At(c, "upsert")' /\ ~At(c, "idle")' /\ PutOf(c)' = PutOf(c)
    BY <1>2, <1>6, <1>10, <1>11 DEF Saved, HoldsLedger, HoldsRow, Saving, At, PutOf
  <1>13. Shape(c)'
    <2>1. /\ k.id \in Kinds(c) /\ k.next.version > 0
          /\ c \notin Observer => k.next.status \in Status
      BY <1>1, <1>5, <1>10 DEF Shape, At
    <2>2. k.op # None
      BY <1>6, <1>10, Constants
    <2>3. k.audits[1].entry = PutOf(c)' /\ k.audits[1].op = k.op /\ Len(k.audits) = 1
          /\ k.audits # <<>> /\ k.event = None
      BY <1>6, <1>7, <1>9, <1>10, <1>12
    <2>4. call'[c].pc = pc
      BY <1>10, <1>11
    <2>5. At(c, "append")' <=> c \in Observer
      BY <2>4 DEF At
    <2>6. At(c, "commit")' <=> c \notin Observer
      BY <2>4 DEF At
    <2>7. call'[c].pc \in {"append", "commit"}
      BY <2>4
    <2>8. QED
      BY <1>11, <1>12, <2>1, <2>2, <2>3, <2>5, <2>6, <2>7 DEF Shape, Kinds
  <1>14. Linked(c)'
    BY <1>2, <1>6, <1>7, <1>9, <1>10, <1>11 DEF Linked
  <1>15. Based(c)'
    <2>1. Decided(c)' <=> Decided(c)
      BY <1>2, <1>10, <1>11 DEF Decided
    <2>2. /\ call'[c].op = call[c].op /\ call'[c].id = id
          /\ call'[c].next = call[c].next /\ rows' = rows
      BY <1>2, <1>10, <1>11
    <2>3. QED
      BY <1>3, <1>5, <1>12, <2>1, <2>2 DEF Based
  <1>16. Locks'
    <2>1. \A d \in Caller \ {c} : advisory' = d <=> advisory = d
      BY <1>4, Constants
    <2>2. \A i \in Id : rowLock'[i] = c <=> HoldsRow(c)' /\ call'[c].id = i
      BY <1>2, <1>3, <1>12 DEF Locks
    <2>3. QED
      BY <1>2, <1>3, <1>4, <1>11, <1>12, <2>1, <2>2, LocksMove
  <1>17. QED
    BY <1>2, <1>3, <1>4, <1>11, <1>12, <1>13, <1>14, <1>15, <1>16, QuietStep

LEMMA AppendKeeps ==
  ASSUME DeskInv, NEW c \in Caller, AppendEvent(c)
  PROVE  DeskInv'
  <1> DEFINE id == call[c].id
             own == call[c].audits
             record == AuditRecord(c, "EVENT", "CREATE")
             event == EventRecord(c)
             longer == Append(own, record)
             k == [call[c] EXCEPT !.pc = "commit", !.event = event, !.audits = longer]
  <1>1. At(c, "append") /\ ~At(c, "idle") /\ ~At(c, "broken")
    BY DEF AppendEvent, At
  <1>2. /\ rows' = rows /\ events' = events /\ audits' = audits /\ served' = served /\ late' = late
        /\ rowLock' = rowLock /\ broken' = broken /\ UNCHANGED Committed
    BY DEF AppendEvent, Committed
  <1>3. /\ Locks /\ (Saved(c) <=> c \notin Observer) /\ (Saving(c) <=> c \in Observer)
        /\ (HoldsRow(c) <=> c \in Observer)
    BY <1>1 DEF Saved, At, DeskInv, HoldsRow, Saving
  <1>4. /\ rowLock' \in [Id -> Caller \cup {None}] /\ broken' \in 0 .. MaxBroken
        /\ advisory' = c /\ advisory \in {None, c}
    BY <1>2 DEF DeskInv, TypeOK, AppendEvent, LedgerFree
  <1>5. /\ call[c] \in CallType /\ id \in Id /\ id \in Kinds(c) /\ call[c].next.version \in Nat
        /\ served[c] \in Nat /\ Shape(c) /\ Based(c) /\ Linked(c)
    BY <1>1, UnderWay
  <1>6. /\ own \in Seq(AuditType) /\ call[c].event = None /\ (own = <<>> <=> c \notin Observer)
        /\ own # <<>> => /\ own[1].entry = PutOf(c) /\ own[1].op = call[c].op /\ Len(own) = 1
                         /\ own[1].previous = LastOf(audits)
    <2>1. own \in Seq(AuditType) /\ call[c].event = None /\ (own = <<>> <=> c \notin Observer)
      BY <1>1, <1>5 DEF Shape, CallType
    <2>2. own # <<>> => own[1].entry = PutOf(c) /\ own[1].op = call[c].op /\ Len(own) = 1
      BY <1>3, <1>5, <2>1 DEF Shape
    <2>3. own # <<>> => 1 \in DOMAIN own
      BY <2>1, <2>2
    <2>4. own # <<>> => own[1].previous = LastOf(audits)
      BY <1>5, <2>3 DEF Linked
    <2>5. QED
      BY <2>1, <2>2, <2>4
  <1>7. /\ record \in AuditType /\ record.entry = EventOf(c)
        /\ record.previous = IF own = <<>> THEN LastOf(audits) ELSE own[Len(own)].entry
    BY <1>1, RecordIsTyped DEF EventOf
  <1>8. event \in EventType /\ event.entry = Plain(c) /\ event.previous = LastOf(events)
        /\ event # None
    <2>1. Plain(c) \in EventEntry
      BY <1>5 DEF Plain, EventEntry
    <2>2. events # <<>> => events[Len(events)] \in EventType
      BY DEF DeskInv, TypeOK
    <2>3. LastOf(events) \in EventEntry \cup {None}
      BY <2>2 DEF LastOf, EventType
    <2>4. event = [entry |-> Plain(c), previous |-> LastOf(events)]
      BY DEF EventRecord, Plain
    <2> HIDE DEF event
    <2>5. event \in EventType
      BY <2>1, <2>3, <2>4 DEF EventType
    <2>6. QED
      BY <2>4, <2>5, Constants DEF EventType
  <1>9. call' = [call EXCEPT ![c] = k]
    BY <1>5 DEF AppendEvent, DeskInv, TypeOK
  <1> HIDE DEF record, event
  <1>10. /\ longer \in Seq(AuditType) /\ longer # <<>> /\ longer[Len(longer)] = record
         /\ Len(longer) = Len(own) + 1 /\ DOMAIN longer = 1 .. Len(own) + 1
         /\ \A i \in 1 .. Len(own) : longer[i] = own[i]
    <2>1. /\ longer \in Seq(AuditType) /\ longer # <<>> /\ Len(longer) = Len(own) + 1
          /\ \A i \in 1 .. Len(own) : longer[i] = own[i]
          /\ longer[Len(own) + 1] = record
      BY <1>6, <1>7, AppendProperties
    <2> HIDE DEF longer
    <2>2. DOMAIN longer = 1 .. Len(longer)
      BY <2>1
    <2>3. QED
      BY <2>1, <2>2
  <1> HIDE DEF longer
  <1>11. /\ k \in CallType /\ k.pc = "commit" /\ k.op = call[c].op /\ k.id = id
         /\ k.next = call[c].next /\ k.event = event /\ k.audits = longer
    BY <1>5, <1>8, <1>10 DEF CallType, Pc
  <1> HIDE DEF k
  <1>12. /\ call' \in [Caller -> CallType] /\ call'[c] = k
         /\ \A d \in Caller \ {c} : call'[d] = call[d]
    BY <1>9, <1>11, CallMoves
  <1>13. /\ (Saved(c)' <=> c \notin Observer) /\ (Saving(c)' <=> c \in Observer)
         /\ HoldsLedger(c)' /\ (HoldsRow(c)' <=> c \in Observer)
         /\ call'[c].id = call[c].id /\ call'[c].next = call[c].next
         /\ ~At(c, "select")' /\ ~At(c, "upsert")' /\ ~At(c, "idle")' /\ ~At(c, "append")'
         /\ At(c, "commit")' /\ call'[c].pc = "commit"
    BY <1>8, <1>11, <1>12 DEF Saved, HoldsLedger, HoldsRow, Saving, At
  <1>14. PutOf(c)' = PutOf(c) /\ EventOf(c)' = EventOf(c) /\ Plain(c)' = Plain(c)
    BY <1>2, <1>13 DEF PutOf, EventOf, Plain
  <1>15. Shape(c)'
    <2>1. /\ k.id \in Kinds(c) /\ k.next.version > 0
          /\ c \notin Observer => k.next.status \in Status
      BY <1>1, <1>5, <1>11 DEF Shape, At
    <2>2. c \in Observer => call[c].op # None
      BY <1>1, <1>3, <1>5 DEF Shape, At
    <2>3. IF c \notin Observer THEN Len(k.audits) = 1 /\ k.audits[1].entry = EventOf(c)
          ELSE /\ k.audits[1].entry = PutOf(c) /\ k.audits[1].op = k.op
               /\ Len(k.audits) = 2 /\ k.audits[2].entry = EventOf(c)
      <3>1. CASE c \notin Observer
        <4>1. Len(own) = 0
          BY <1>6, <3>1
        <4>2. QED
          BY <1>7, <1>10, <1>11, <3>1, <4>1
      <3>2. CASE c \in Observer
        <4>1. Len(own) = 1 /\ own[1].entry = PutOf(c) /\ own[1].op = call[c].op
          BY <1>6, <3>2
        <4>2. Len(longer) = 2 /\ longer[2] = record /\ longer[1] = own[1]
          BY <1>10, <4>1
        <4>3. QED
          BY <1>7, <1>11, <3>2, <4>1, <4>2
      <3>3. QED
        BY <3>1, <3>2
    <2>4. k.audits # <<>> /\ k.event # None /\ k.event.entry = Plain(c) /\ k.op = call[c].op
      BY <1>8, <1>10, <1>11
    <2>5. QED
      BY <1>12, <1>13, <1>14, <2>1, <2>2, <2>3, <2>4 DEF Shape, Kinds
  <1>16. Linked(c)'
    <2>1. ASSUME NEW i \in DOMAIN longer
          PROVE  longer[i].previous = IF i = 1 THEN LastOf(audits) ELSE longer[i - 1].entry
      <3>1. CASE own = <<>>
        <4>1. Len(own) = 0 /\ i = 1
          BY <1>10, <3>1
        <4>2. QED
          BY <1>7, <1>10, <3>1, <4>1
      <3>2. CASE own # <<>>
        <4>1. Len(own) = 1 /\ i \in {1, 2} /\ longer[1] = own[1] /\ longer[2] = record
          <5>1. Len(own) = 1
            BY <1>6, <3>2
          <5>2. i \in 1 .. 2 /\ 1 \in 1 .. Len(own) /\ Len(longer) = 2
            BY <1>10, <5>1
          <5>3. longer[1] = own[1] /\ longer[2] = record
            BY <1>10, <5>2
          <5>4. QED
            BY <5>1, <5>2, <5>3
        <4>2. own[1].previous = LastOf(audits) /\ record.previous = own[1].entry
          BY <1>6, <1>7, <3>2, <4>1
        <4>3. QED
          BY <4>1, <4>2
      <3>3. QED
        BY <3>1, <3>2
    <2>2. call'[c].audits = longer /\ call'[c].event = event /\ audits' = audits /\ events' = events
      BY <1>2, <1>11, <1>12
    <2>3. QED
      BY <1>8, <2>1, <2>2 DEF Linked
  <1>17. Based(c)'
    <2>1. Decided(c)' <=> Decided(c)
      BY <1>2, <1>13 DEF Decided
    <2>2. call'[c].op = call[c].op /\ rows' = rows
      BY <1>2, <1>11, <1>12
    <2>3. QED
      BY <1>3, <1>5, <1>13, <2>1, <2>2 DEF Based
  <1>18. Locks'
    <2>1. \A d \in Caller \ {c} : advisory' = d <=> advisory = d
      BY <1>4, Constants
    <2>2. \A i \in Id : rowLock'[i] = c <=> HoldsRow(c)' /\ call'[c].id = i
      BY <1>2, <1>3, <1>13 DEF Locks
    <2>3. QED
      BY <1>2, <1>3, <1>4, <1>12, <1>13, <2>1, <2>2, LocksMove
  <1>19. QED
    BY <1>1, <1>2, <1>3, <1>4, <1>12, <1>13, <1>15, <1>16, <1>17, <1>18, QuietStep

\* What c gives back by ending its transaction, and what the others keep.
LEMMA Released ==
  ASSUME DeskInv, NEW c \in Caller, Release(c)
  PROVE  /\ rowLock' \in [Id -> Caller \cup {None}] /\ advisory' \in Caller \cup {None}
         /\ \A d \in Caller \ {c} : advisory' = d <=> advisory = d
         /\ \A d \in Caller \ {c}, id \in Id : rowLock'[id] = d <=> rowLock[id] = d
         /\ advisory' # c /\ \A id \in Id : rowLock'[id] # c
  <1>1. rowLock \in [Id -> Caller \cup {None}] /\ advisory \in Caller \cup {None}
    BY DEF DeskInv, TypeOK
  <1>2. rowLock' = [id \in Id |-> IF rowLock[id] = c THEN None ELSE rowLock[id]]
        /\ advisory' = IF advisory = c THEN None ELSE advisory
    BY DEF Release, Freed
  <1>3. None # c /\ \A d \in Caller : None # d
    BY Constants
  <1>4. QED
    BY <1>1, <1>2, <1>3

LEMMA BreakKeeps ==
  ASSUME DeskInv, NEW c \in Caller, Break(c)
  PROVE  DeskInv'
  <1> DEFINE k == [call[c] EXCEPT !.pc = "broken", !.audits = <<>>, !.event = None]
  <1>1. ~At(c, "idle") /\ ~At(c, "broken")
    BY DEF Break, At
  <1>2. /\ rows' = rows /\ events' = events /\ audits' = audits /\ served' = served /\ late' = late
        /\ UNCHANGED Committed
    BY DEF Break, Committed
  <1>3. broken' \in 0 .. MaxBroken
    BY ReviewDeskAssumption DEF Break, DeskInv, TypeOK
  <1>4. /\ rowLock' \in [Id -> Caller \cup {None}] /\ advisory' \in Caller \cup {None}
        /\ \A d \in Caller \ {c} : advisory' = d <=> advisory = d
        /\ \A d \in Caller \ {c}, id \in Id : rowLock'[id] = d <=> rowLock[id] = d
        /\ advisory' # c /\ \A id \in Id : rowLock'[id] # c
    BY Released DEF Break
  <1>5. call[c] \in CallType /\ call[c].id \in Kinds(c) /\ Shape(c) /\ Based(c)
    BY <1>1, UnderWay
  <1>6. /\ k \in CallType /\ k.pc = "broken" /\ k.id = call[c].id /\ k.next = call[c].next
        /\ k.event = None /\ k.audits = <<>>
    <2>1. <<>> \in Seq(AuditType)
      OBVIOUS
    <2>2. QED
      BY <1>5, <2>1 DEF CallType, Pc
  <1>7. call' = [call EXCEPT ![c] = k]
    BY <1>5 DEF Break, DeskInv, TypeOK
  <1> HIDE DEF k
  <1>8. /\ call' \in [Caller -> CallType] /\ call'[c] = k
        /\ \A d \in Caller \ {c} : call'[d] = call[d]
    BY <1>6, <1>7, CallMoves
  <1>9. /\ ~Saved(c)' /\ ~Saving(c)' /\ ~HoldsRow(c)' /\ ~HoldsLedger(c)' /\ At(c, "broken")'
        /\ call'[c].id = call[c].id /\ call'[c].next = call[c].next
    BY <1>6, <1>8 DEF Saved, Saving, HoldsRow, HoldsLedger, At
  <1>10. Shape(c)'
    <2>1. /\ k.id \in Kinds(c) /\ k.next.version > 0
          /\ c \notin Observer => k.next.status \in Status
      BY <1>1, <1>5, <1>6 DEF Shape, At
    <2>2. QED
      BY <1>6, <1>8, <1>9, <2>1 DEF Shape, At, Kinds
  <1>11. Linked(c)'
    BY <1>6, <1>8 DEF Linked
  <1>12. Based(c)'
    BY <1>9 DEF Based, At
  <1>13. Locks'
    BY <1>4, <1>8, <1>9, LocksMove DEF DeskInv
  <1>14. QED
    BY <1>1, <1>2, <1>3, <1>4, <1>8, <1>9, <1>10, <1>11, <1>12, <1>13, QuietStep

-------------------------------------------------------------------------------
(* COMMIT *)

\* Who has the advisory lock is alone in having written records.
LEMMA OneWriter ==
  ASSUME DeskInv, NEW c \in Caller, HoldsLedger(c), NEW d \in Caller, d # c
  PROVE  call[d].audits = <<>> /\ call[d].event = None
  <1>1. ~HoldsLedger(d)
    <2>1. Locks
      BY DEF DeskInv
    <2>2. advisory = c
      BY <2>1 DEF Locks
    <2>3. QED
      BY <2>1, <2>2 DEF Locks
  <1>2. Shape(d)
    BY DEF DeskInv
  <1>3. QED
    BY <1>1, <1>2 DEF Shape, HoldsLedger, At

\* What a transaction commits.
LEMMA OwnRecords ==
  ASSUME DeskInv, NEW c \in Caller, At(c, "commit")
  PROVE  /\ call[c].audits \in Seq(AuditType) /\ call[c].audits # <<>>
         /\ HasPut(c) <=> Saving(c)
         /\ Puts(call[c].audits) = IF Saving(c) THEN {PutOf(c)} ELSE {}
         /\ Saving(c) => call[c].audits[1].entry = PutOf(c) /\ call[c].audits[1].op = call[c].op
         /\ \A i \in DOMAIN call[c].audits :
              call[c].audits[i].entry[1] = "ENTITY" => i = 1 /\ Saving(c)
         /\ call[c].event = None => Saving(c) /\ c \notin Observer
         /\ call[c].event # None => /\ call[c].event \in EventType /\ call[c].event.entry = Plain(c)
                                    /\ call[c].event.previous = LastOf(events)
                                    /\ Saving(c) <=> c \in Observer
         /\ Saved(c) <=> ~Saving(c)
  <1> DEFINE own == call[c].audits
  <1>1. Shape(c) /\ Linked(c) /\ call[c] \in CallType
    BY DEF DeskInv, TypeOK
  <1>2. own \in Seq(AuditType) /\ own # <<>> /\ Len(own) \in Nat /\ Len(own) # 0
        /\ DOMAIN own = 1 .. Len(own) /\ (c \in Observer => call[c].event # None)
    BY <1>1 DEF Shape, CallType
  <1>3. Saved(c) <=> ~Saving(c)
    BY DEF Saved, Saving, At
  <1>4. CASE Saving(c)
    <2>1. own[1].entry = PutOf(c) /\ own[1].op = call[c].op /\ PutOf(c)[1] = "ENTITY"
      BY <1>1, <1>2, <1>3, <1>4 DEF Shape, PutOf
    <2>2. \A i \in DOMAIN own : i = 1 \/ own[i].entry[1] = "EVENT"
      <3>1. CASE call[c].event = None
        <4>1. Len(own) = 1
          BY <1>1, <1>2, <1>3, <1>4, <3>1 DEF Shape
        <4>2. QED
          BY <1>2, <4>1
      <3>2. CASE call[c].event # None
        <4>1. Len(own) = 2 /\ own[2].entry = EventOf(c) /\ EventOf(c)[1] = "EVENT"
          BY <1>1, <1>2, <1>3, <1>4, <3>2 DEF Shape, EventOf
        <4>2. QED
          BY <1>2, <4>1
      <3>3. QED
        BY <3>1, <3>2
    <2>3. {j \in DOMAIN own : own[j].entry[1] = "ENTITY"} = {1}
      BY <1>2, <2>1, <2>2
    <2>4. HasPut(c) /\ Puts(own) = {PutOf(c)}
      BY <1>2, <2>1, <2>3 DEF HasPut, Puts
    <2>5. /\ call[c].event # None => /\ call[c].event \in EventType /\ call[c].event.entry = Plain(c)
                                     /\ call[c].event.previous = LastOf(events) /\ c \in Observer
          /\ call[c].event = None => c \notin Observer
      BY <1>1, <1>2, <1>4 DEF Shape, Linked, CallType, Saving, At
    <2>6. QED
      BY <1>2, <1>3, <1>4, <2>1, <2>3, <2>4, <2>5
  <1>5. CASE ~Saving(c)
    <2>1. Len(own) = 1 /\ own[1].entry = EventOf(c) /\ EventOf(c)[1] = "EVENT"
      BY <1>1, <1>2, <1>3, <1>5 DEF Shape, EventOf
    <2>2. {j \in DOMAIN own : own[j].entry[1] = "ENTITY"} = {}
      BY <1>2, <2>1
    <2>3. ~HasPut(c) /\ Puts(own) = {}
      BY <2>2 DEF HasPut, Puts
    <2>4. /\ call[c].event \in EventType /\ call[c].event.entry = Plain(c)
          /\ call[c].event.previous = LastOf(events) /\ c \notin Observer /\ call[c].event # None
      BY <1>1, <1>2, <1>3, <1>5 DEF Shape, Linked, CallType, Saved, At
    <2>5. QED
      BY <1>2, <1>3, <1>5, <2>2, <2>3, <2>4
  <1>6. QED
    BY <1>4, <1>5

\* The row c is about to write: it grows, but for a case that is created over.
LEMMA OwnRow ==
  ASSUME DeskInv, NEW c \in Caller, At(c, "commit"), Saving(c)
  PROVE  /\ rowLock[call[c].id] = c
         /\ call[c].next # NoRow /\ call[c].id \in Id
         /\ c \notin Observer => rows[call[c].id].version = call[c].next.version - 1
         /\ call[c].op = "UPDATE" => rows[call[c].id].version = call[c].next.version - 1
         /\ call[c].op \in {"CREATE", "UPDATE"}
  <1>1. ~At(c, "idle") /\ ~At(c, "select")
    BY DEF At
  <1>2. /\ call[c] \in CallType /\ call[c].id \in Id /\ call[c].next.version > 0
        /\ Shape(c) /\ Based(c) /\ call[c].next.version \in Nat
    BY <1>1, UnderWay
  <1>3. rowLock[call[c].id] = c
    BY <1>2 DEF DeskInv, Locks, HoldsRow, At
  <1>4. NoRow.version = 0
    BY DEF NoRow
  <1>5. call[c].next # NoRow
    BY <1>2, <1>4
  <1>6. call[c].op \in {"CREATE", "UPDATE"}
    BY <1>1, <1>2 DEF Shape, CallType
  <1>7. call[c].op = "CREATE" /\ c \notin Observer =>
          rows[call[c].id].version = call[c].next.version - 1
    <2>1. call[c].op = "CREATE" /\ c \notin Observer =>
            rows[call[c].id] = NoRow /\ call[c].next.version = 1
      BY <1>2 DEF Based
    <2>2. QED
      BY <1>4, <2>1
  <1>8. call[c].op = "UPDATE" => rows[call[c].id].version = call[c].next.version - 1
    BY <1>2 DEF Based
  <1>9. QED
    BY <1>2, <1>3, <1>5, <1>6, <1>7, <1>8

\* A save leaves every other call on its row with something to lose: no call
\* that still saves can find the version it wants there by chance.
LEMMA OthersStayBased ==
  ASSUME DeskInv, NEW c \in Caller, At(c, "commit"), Saving(c),
         rows' = [rows EXCEPT ![call[c].id] = call[c].next],
         NEW d \in Caller, d # c, call'[d] = call[d]
  PROVE  Based(d)'
  <1> DEFINE id == call[c].id
  <1>1. /\ ~At(c, "idle") /\ rowLock[id] = c /\ id \in Id /\ rows \in [Id -> RowType]
        /\ c \notin Observer => rows[id].version = call[c].next.version - 1
    BY OwnRow DEF At, DeskInv, TypeOK
  <1>2. (At(d, "select")' <=> At(d, "select")) /\ (Saving(d)' <=> Saving(d))
    BY DEF At, Saving
  <1>3. CASE At(d, "idle")
    BY <1>2, <1>3 DEF Based, At, Saving
  <1>4. CASE ~At(d, "idle") /\ call[d].id # id
    <2>1. call[d].id \in Id /\ Based(d)
      BY <1>4, UnderWay
    <2>2. rows'[call'[d].id] = rows[call[d].id]
      BY <1>1, <1>4, <2>1
    <2>3. Decided(d)' <=> Decided(d)
      BY <2>2 DEF Decided
    <2>4. QED
      BY <1>2, <2>1, <2>2, <2>3 DEF Based
  <1>5. CASE ~At(d, "idle") /\ call[d].id = id
    <2>1. /\ id \in Kinds(d) /\ Based(d) /\ Shape(d) /\ call[d].next.version \in Nat
          /\ call[d] \in CallType
      BY <1>5, UnderWay
    <2>2. id \in Kinds(c) /\ call[c].next.version \in Nat
      BY <1>1, UnderWay
    <2>3. d \in Observer <=> c \in Observer
      BY <2>1, <2>2, Constants DEF Kinds
    <2>4. rows'[id] = call[c].next /\ call'[d].id = id
      BY <1>1, <1>5
    <2>5. ~HoldsRow(d)
      <3>1. rowLock[id] = d <=> HoldsRow(d) /\ call[d].id = id
        BY <1>1 DEF DeskInv, Locks
      <3>2. QED
        BY <1>1, <1>5, <3>1
    <2>6. d \notin Observer => rows[id] # NoRow
      <3>1. d \notin Observer => id \in Review
        BY <2>1 DEF Kinds
      <3>2. QED
        BY <1>5, <3>1 DEF DeskInv, OneCreator
    <2>7. /\ At(d, "select") /\ call[d].expected # None => call[d].expected = call[d].next.version - 1
          /\ d \notin Observer /\ At(d, "select") =>
               call[d].expected = call[d].next.version - 1 /\ call[d].expected <= rows[id].version
      BY <1>5, <2>1, <2>6 DEF Based
    <2>8. At(d, "select") => call[d].op = None
      BY <2>1 DEF Shape, Saving, At
    <2>9. Saving(d) => At(d, "select") \/ (At(d, "upsert") /\ call[d].op = "CREATE")
      <3>1. Saving(d) /\ ~At(d, "select") => At(d, "upsert") /\ call[d].op # "UPDATE"
        BY <2>5 DEF HoldsRow
      <3>2. Saving(d) /\ ~At(d, "select") => call[d].op # None
        BY <2>1 DEF Shape
      <3>3. call[d].op \in {"CREATE", "UPDATE", None}
        BY <2>1 DEF CallType
      <3>4. QED
        BY <3>1, <3>2, <3>3
    <2>10. Saving(d) /\ d \notin Observer => At(d, "select")
      BY <1>5, <2>1, <2>6, <2>9 DEF Based
    <2>11. d \notin Observer /\ At(d, "select") =>
             /\ call[d].expected <= rows'[id].version /\ call[d].next.version - 1 < rows'[id].version
      <3>1. rows[id].version \in Nat
        BY <1>1 DEF RowType
      <3>2. d \notin Observer => rows'[id].version = rows[id].version + 1
        BY <1>1, <2>2, <2>3, <2>4, <3>1
      <3>3. QED
        BY <2>1, <2>7, <3>1, <3>2
    <2>12. d \notin Observer /\ At(d, "select") => call[d].next.version - 1 # rows'[id].version
      <3>1. rows'[id].version \in Nat
        BY <2>2, <2>4
      <3>2. QED
        BY <2>1, <2>11, <3>1
    <2>13. At(d, "select") => call[d].expected # None
      BY <1>5, <2>1, <2>6 DEF Based
    <2>14. Saving(d) /\ call[d].op = "CREATE" => call[d].next.version = 1
      BY <2>1 DEF Based
    <2>15. ~(Saving(d) /\ call[d].op = "UPDATE")
      BY <2>8, <2>9, Constants
    <2>16. ~(Saving(d) /\ call[d].op = "CREATE" /\ d \notin Observer)
      BY <2>8, <2>10, Constants
    <2>17. QED
      BY <1>2, <2>4, <2>7, <2>10, <2>11, <2>12, <2>13, <2>14, <2>15, <2>16 DEF Based
  <1>6. QED
    BY <1>3, <1>4, <1>5

\* What of the invariant a commit keeps for the rows, whoever commits.
LEMMA CommitRows ==
  ASSUME DeskInv, NEW c \in Caller, Commit(c)
  PROVE  /\ rows' = IF Saving(c) THEN [rows EXCEPT ![call[c].id] = call[c].next] ELSE rows
         /\ rows' \in [Id -> RowType] /\ RowsShape'
         /\ \A id \in Id : rows'[id] = NoRow => rows[id] = NoRow
  <1>1. At(c, "commit") /\ ~At(c, "idle")
    BY DEF Commit, At
  <1>2. rows' = IF Saving(c) THEN [rows EXCEPT ![call[c].id] = call[c].next] ELSE rows
    BY <1>1, OwnRecords DEF Commit
  <1>3. rows \in [Id -> RowType] /\ RowsShape
    BY DEF DeskInv, TypeOK
  <1>4. CASE ~Saving(c)
    BY <1>2, <1>3, <1>4 DEF RowsShape
  <1>5. CASE Saving(c)
    <2> DEFINE id == call[c].id
    <2>1. /\ id \in Id /\ id \in Kinds(c) /\ call[c].next \in RowType /\ Shape(c)
          /\ call[c].next.version > 0
      BY <1>1, UnderWay
    <2>2. call[c].next # NoRow
      BY <1>1, <1>5, OwnRow
    <2>3. id \in Review => call[c].next.status \in Status
      BY <1>1, <2>1, Constants DEF Shape, Kinds
    <2>4. rows' = [rows EXCEPT ![id] = call[c].next]
      BY <1>2, <1>5
    <2>5. rows'[id] = call[c].next /\ \A i \in Id \ {id} : rows'[i] = rows[i]
      BY <1>3, <2>1, <2>4
    <2>6. rows' \in [Id -> RowType]
      BY <1>3, <2>1, <2>4
    <2>7. RowsShape'
      BY <1>3, <2>1, <2>3, <2>5 DEF RowsShape
    <2>8. QED
      BY <1>2, <2>2, <2>5, <2>6, <2>7
  <1>6. QED
    BY <1>4, <1>5

LEMMA CommitAudits ==
  ASSUME DeskInv, NEW c \in Caller, Commit(c)
  PROVE  /\ audits' \in Seq(AuditType) /\ Verifies(audits')
         /\ AuditedPuts' = AuditedPuts \cup (IF Saving(c) THEN {PutOf(c)} ELSE {})
  <1> DEFINE own == call[c].audits
  <1>1. At(c, "commit")
    BY DEF Commit, At
  <1>2. own \in Seq(AuditType) /\ Puts(own) = IF Saving(c) THEN {PutOf(c)} ELSE {}
    BY <1>1, OwnRecords
  <1>3. audits \in Seq(AuditType) /\ Verifies(audits) /\ Linked(c)
    BY DEF DeskInv, TypeOK, LedgersVerify
  <1>4. audits' = audits \o own
    BY DEF Commit
  <1>5. Verifies(audits \o own)
    BY <1>2, <1>3, JoinedVerifies DEF Linked
  <1>6. AuditedPuts = Puts(audits) /\ AuditedPuts' = Puts(audits')
    BY DEF AuditedPuts, Puts
  <1>7. Puts(audits \o own) = Puts(audits) \cup Puts(own)
    BY <1>2, <1>3, PutsOfJoined
  <1>8. QED
    BY <1>2, <1>3, <1>4, <1>5, <1>6, <1>7

LEMMA CommitEvents ==
  ASSUME DeskInv, NEW c \in Caller, Commit(c)
  PROVE  /\ events' \in Seq(EventType) /\ late' \in 0 .. MaxLate
         /\ Verifies(events') <=> late' = 0
         /\ Told' = Told \cup (IF call[c].event = None THEN {} ELSE {PutOf(c)})
         /\ \A i, j \in DOMAIN events' : events'[i].entry = events'[j].entry => i = j
  <1> DEFINE event == call[c].event
  <1>1. At(c, "commit") /\ AddEvent(c)
    BY DEF Commit, At
  <1>2. /\ events \in Seq(EventType) /\ late \in 0 .. MaxLate /\ (Verifies(events) <=> late = 0)
        /\ Numbered
    BY DEF DeskInv, TypeOK, LedgersVerify
  <1>3. Told = Tells(events) /\ Told' = Tells(events')
    BY DEF Told, Tells
  <1>4. CASE event = None
    <2>1. events' = events /\ late' = late
      BY <1>1, <1>4 DEF AddEvent
    <2>2. QED
      BY <1>2, <1>3, <1>4, <2>1 DEF Numbered
  <1>5. CASE event # None
    <2>1. PICK i \in 1 .. Len(events) + 1 :
            /\ events' = InsertAt(events, i, event)
            /\ late' = IF i = Len(events) + 1 THEN late ELSE late + 1
            /\ late' <= MaxLate
      BY <1>1, <1>5 DEF AddEvent
    <2>2. event \in EventType /\ event.entry = Plain(c) /\ event.previous = LastOf(events)
      BY <1>1, <1>5, OwnRecords
    <2> HIDE DEF event
    <2>3. <<"ENTITY">> \o Plain(c) = PutOf(c)
      BY TellsThePut DEF Plain, PutOf
    <2>4. \A j \in DOMAIN events : events[j] \in EventType
      BY <1>2
    <2>5. \A j \in DOMAIN events : events[j].entry # None
      BY <2>4, Constants DEF EventType
    <2>6. \A j, k \in DOMAIN events : events[j].entry = events[k].entry => j = k
      BY <1>2 DEF Numbered
    <2>7. \A j \in DOMAIN events : events[j].entry # event.entry
      <3> SUFFICES ASSUME NEW j \in DOMAIN events, events[j].entry = event.entry PROVE FALSE
        OBVIOUS
      <3>1. PutOf(c) \in Told
        BY <1>3, <2>2, <2>3 DEF Tells
      <3>2. PutOf(c)[5] < served[PutOf(c)[4]]
        BY <1>2, <3>1 DEF Numbered
      <3>3. PutOf(c)[5] = served[c] /\ PutOf(c)[4] = c /\ served[c] \in Nat
        BY DEF PutOf, DeskInv, TypeOK
      <3>4. QED
        BY <3>2, <3>3
    <2>8. events' \in Seq(EventType)
      BY <1>2, <2>1, <2>2, InsertedAt
    <2>9. Verifies(events') <=> Verifies(events) /\ i = Len(events) + 1
      BY <1>2, <2>1, <2>2, <2>5, <2>6, InsertedVerifies
    <2>10. Told' = Told \cup {PutOf(c)}
      BY <1>2, <1>3, <2>1, <2>2, <2>3, TellsOfInserted
    <2>11. \A j, k \in DOMAIN events' : events'[j].entry = events'[k].entry => j = k
      BY <1>2, <2>1, <2>2, <2>6, <2>7, EntriesStayApart
    <2>12. late' \in 0 .. MaxLate /\ (late' = 0 <=> late = 0 /\ i = Len(events) + 1)
      BY <1>2, <2>1, ReviewDeskAssumption
    <2>13. QED
      BY <1>2, <1>5, <2>8, <2>9, <2>10, <2>11, <2>12 DEF event
  <1>6. QED
    BY <1>4, <1>5

\* The call goes on to its event, or is answered.
LEMMA CommitCall ==
  ASSUME DeskInv, NEW c \in Caller, Commit(c)
  PROVE  /\ call' \in [Caller -> CallType] /\ served' \in [Caller -> Nat]
         /\ \A d \in Caller \ {c} : call'[d] = call[d] /\ served'[d] = served[d]
         /\ Shape(c)' /\ Linked(c)' /\ Based(c)' /\ ~HoldsRow(c)' /\ ~HoldsLedger(c)'
         /\ IF call[c].event = None
            THEN /\ Saved(c)' /\ served'[c] = served[c] /\ PutOf(c)' = PutOf(c)
                 /\ call'[c].id = call[c].id
            ELSE ~Saved(c)' /\ served'[c] = served[c] + 1 /\ call'[c].id = None
  <1>1. At(c, "commit") /\ ~At(c, "idle")
    BY DEF Commit, At
  <1>2. served \in [Caller -> Nat] /\ call \in [Caller -> CallType] /\ call[c] \in CallType
    BY DEF DeskInv, TypeOK
  <1>3. CASE call[c].event = None
    <2> DEFINE k == [call[c] EXCEPT !.pc = "append", !.audits = <<>>]
    <2>1. c \notin Observer
      BY <1>1, <1>3, OwnRecords
    <2>2. Shape(c) /\ call[c].id \in Kinds(c) /\ call[c].next.version > 0
      BY <1>1, UnderWay
    <2>3. /\ k \in CallType /\ k.pc = "append" /\ k.id = call[c].id /\ k.next = call[c].next
          /\ k.event = None /\ k.audits = <<>>
      <3>1. <<>> \in Seq(AuditType)
        OBVIOUS
      <3>2. QED
        BY <1>2, <1>3, <3>1 DEF CallType, Pc
    <2>4. call' = [call EXCEPT ![c] = k] /\ served' = served
      BY <1>2, <1>3 DEF Commit
    <2> HIDE DEF k
    <2>5. /\ call' \in [Caller -> CallType] /\ call'[c] = k
          /\ \A d \in Caller \ {c} : call'[d] = call[d]
      BY <2>3, <2>4, CallMoves
    <2>6. /\ Saved(c)' /\ ~Saving(c)' /\ ~HoldsRow(c)' /\ ~HoldsLedger(c)' /\ ~At(c, "select")'
          /\ PutOf(c)' = PutOf(c)
      BY <2>1, <2>3, <2>4, <2>5 DEF Saved, Saving, HoldsRow, HoldsLedger, At, PutOf
    <2>7. Shape(c)'
      <3>1. k.id \in Kinds(c) /\ k.next.version > 0 /\ k.next.status \in Status
        BY <1>1, <2>1, <2>2, <2>3 DEF Shape
      <3>2. QED
        BY <2>1, <2>3, <2>5, <2>6, <3>1 DEF Shape, At, Kinds
    <2>8. Linked(c)'
      BY <2>3, <2>5 DEF Linked
    <2>9. Based(c)'
      BY <2>6 DEF Based
    <2>10. QED
      BY <1>2, <1>3, <2>3, <2>4, <2>5, <2>6, <2>7, <2>8, <2>9
  <1>4. CASE call[c].event # None
    <2>1. call' = [call EXCEPT ![c] = NoCall] /\ served' = [served EXCEPT ![c] = @ + 1]
      BY <1>4 DEF Commit
    <2>2. /\ call' \in [Caller -> CallType] /\ call'[c] = NoCall
          /\ \A d \in Caller \ {c} : call'[d] = call[d]
      BY <2>1, NoCallIsTyped, CallMoves
    <2>3. /\ NoCall.pc = "idle" /\ NoCall.audits = <<>> /\ NoCall.event = None
          /\ NoCall.id = None
      BY DEF NoCall
    <2>4. Shape(c)' /\ Linked(c)' /\ Based(c)'
      BY <2>2, <2>3 DEF Shape, Linked, Based, Saving, Saved, At
    <2>5. ~HoldsRow(c)' /\ ~HoldsLedger(c)' /\ ~Saved(c)'
      BY <2>2, <2>3 DEF HoldsRow, HoldsLedger, Saving, Saved, At
    <2>6. /\ served' \in [Caller -> Nat] /\ served'[c] = served[c] + 1
          /\ \A d \in Caller \ {c} : served'[d] = served[d]
      BY <1>2, <2>1
    <2>7. QED
      BY <1>4, <2>2, <2>3, <2>4, <2>5, <2>6
  <1>5. QED
    BY <1>3, <1>4

LEMMA CommitNumbers ==
  ASSUME DeskInv, NEW c \in Caller, Commit(c)
  PROVE  Numbered'
  <1> DEFINE put == PutOf(c)
             told == call[c].event # None
  <1>1. At(c, "commit") /\ ~At(c, "idle") /\ ~At(c, "broken")
    BY DEF Commit, At
  <1>2. /\ served \in [Caller -> Nat] /\ served' \in [Caller -> Nat]
        /\ \A d \in Caller \ {c} : call'[d] = call[d] /\ served'[d] = served[d]
        /\ served'[c] = IF told THEN served[c] + 1 ELSE served[c]
        /\ IF told THEN ~Saved(c)' ELSE Saved(c)' /\ put' = put
    BY CommitCall DEF DeskInv, TypeOK
  <1>3. AuditedPuts' = AuditedPuts \cup (IF Saving(c) THEN {put} ELSE {})
    BY CommitAudits
  <1>4. Told' = Told \cup (IF told THEN {put} ELSE {})
    BY CommitEvents
  <1>5. \A i, j \in DOMAIN events' : events'[i].entry = events'[j].entry => i = j
    BY CommitEvents
  <1>6. /\ ~told => Saving(c) /\ c \notin Observer
        /\ Saved(c) <=> ~Saving(c)
    BY <1>1, OwnRecords
  <1>7. Numbered /\ AuditedPuts \subseteq AuditEntry
    BY PutsAreTyped DEF DeskInv
  <1>8. /\ put[2] = call[c].id /\ put[4] = c /\ put[5] = served[c] /\ call[c].id \in Kinds(c)
    BY <1>1, UnderWay DEF PutOf
  <1>9. \A d \in Caller \ {c} :
          PutOf(d)' = PutOf(d) /\ (Saved(d)' <=> Saved(d)) /\ (At(d, "broken")' <=> At(d, "broken"))
    BY <1>2 DEF PutOf, Saved, At
  <1>10. put \in AuditedPuts'
    BY <1>3, <1>6, <1>7 DEF Numbered
  <1> HIDE DEF put, told
  <1>11. Told' \subseteq AuditedPuts'
    BY <1>3, <1>4, <1>7, <1>10 DEF Numbered
  <1>12. \A d \in Caller : served[d] <= served'[d] /\ served[d] \in Nat /\ served'[d] \in Nat
    BY <1>2
  <1>13. ASSUME NEW p \in AuditedPuts' PROVE p[5] <= served'[p[4]]
    <2>1. CASE p = put
      BY <1>8, <1>12, <2>1
    <2>2. CASE p \in AuditedPuts
      <3>1. p[4] \in Caller /\ p[5] \in Nat /\ p[5] <= served[p[4]]
        BY <1>7, <2>2 DEF Numbered, AuditEntry
      <3>2. QED
        BY <1>12, <3>1
    <2>3. QED
      BY <1>3, <2>1, <2>2
  <1>14. ASSUME NEW p \in Told' PROVE p[5] < served'[p[4]]
    <2>1. CASE p = put /\ told
      BY <1>2, <1>8, <1>12, <2>1
    <2>2. CASE p \in Told
      <3>1. p[4] \in Caller /\ p[5] \in Nat /\ p[5] < served[p[4]]
        BY <1>7, <2>2 DEF Numbered, AuditEntry
      <3>2. QED
        BY <1>12, <3>1
    <2>3. QED
      BY <1>4, <2>1, <2>2
  <1>15. ASSUME NEW p \in AuditedPuts' \ Told'
         PROVE  p[2] \in Review /\ p = PutOf(p[4])' /\ (Saved(p[4])' \/ At(p[4], "broken")')
    <2>1. CASE p = put
      <3>1. ~told
        BY <1>4, <1>15, <2>1
      <3>2. call[c].id \in Review
        BY <1>6, <1>8, <3>1 DEF Kinds, told
      <3>3. PutOf(c)' = put /\ Saved(c)'
        BY <1>2, <3>1 DEF put
      <3>4. QED
        BY <1>8, <2>1, <3>2, <3>3
    <2>2. CASE p # put
      <3>1. p \in AuditedPuts \ Told
        BY <1>3, <1>4, <1>15, <2>2
      <3>2. p[4] \in Caller
        BY <1>7, <3>1 DEF AuditEntry
      <3>3. p[2] \in Review /\ p = PutOf(p[4]) /\ (Saved(p[4]) \/ At(p[4], "broken"))
        BY <1>7, <3>1 DEF Numbered
      <3>4. p[4] # c
        BY <2>2, <3>3 DEF put
      <3>5. QED
        BY <1>9, <3>2, <3>3, <3>4
    <2>3. QED
      BY <2>1, <2>2
  <1>16. ASSUME NEW d \in Caller, Saved(d)' PROVE PutOf(d)' \in AuditedPuts'
    <2>1. CASE d = c
      BY <1>2, <1>10, <1>16, <2>1 DEF put
    <2>2. CASE d # c
      BY <1>3, <1>7, <1>9, <1>16, <2>2 DEF Numbered
    <2>3. QED
      BY <2>1, <2>2
  <1>17. QED
    BY <1>5, <1>11, <1>13, <1>14, <1>15, <1>16 DEF Numbered

LEMMA CommitKeeps ==
  ASSUME DeskInv, NEW c \in Caller, Commit(c)
  PROVE  DeskInv'
  <1>1. At(c, "commit") /\ Release(c) /\ broken' = broken
    BY DEF Commit, At
  <1>2. /\ call' \in [Caller -> CallType] /\ served' \in [Caller -> Nat]
        /\ \A d \in Caller \ {c} : call'[d] = call[d] /\ served'[d] = served[d]
        /\ Shape(c)' /\ Linked(c)' /\ Based(c)' /\ ~HoldsRow(c)' /\ ~HoldsLedger(c)'
        /\ call'[c].id \in {call[c].id, None}
    BY CommitCall
  <1>3. /\ rows' = IF Saving(c) THEN [rows EXCEPT ![call[c].id] = call[c].next] ELSE rows
        /\ rows' \in [Id -> RowType] /\ RowsShape'
        /\ \A id \in Id : rows'[id] = NoRow => rows[id] = NoRow
    BY CommitRows
  <1>4. /\ rowLock' \in [Id -> Caller \cup {None}] /\ advisory' \in Caller \cup {None}
        /\ \A d \in Caller \ {c} : advisory' = d <=> advisory = d
        /\ \A d \in Caller \ {c}, id \in Id : rowLock'[id] = d <=> rowLock[id] = d
        /\ advisory' # c /\ \A id \in Id : rowLock'[id] # c
    BY <1>1, Released
  <1>5. TypeOK'
    BY <1>1, <1>2, <1>3, <1>4, CommitAudits, CommitEvents DEF DeskInv, TypeOK
  <1>6. ASSUME NEW d \in Caller PROVE (Shape(d) /\ Linked(d) /\ Based(d))'
    <2>1. CASE d = c
      BY <1>2, <2>1
    <2>2. CASE d # c
      <3>1. call'[d] = call[d] /\ served'[d] = served[d]
        BY <1>2, <2>2
      <3>2. Shape(d) /\ Based(d)
        BY DEF DeskInv
      <3>3. Shape(d)'
        BY <3>1, <3>2 DEF Shape, At, PutOf, EventOf, Plain, Saving, Saved
      <3>4. call[d].audits = <<>> /\ call[d].event = None
        BY <1>1, <2>2, OneWriter DEF HoldsLedger
      <3>5. Linked(d)'
        BY <3>1, <3>4 DEF Linked
      <3>6. Based(d)'
        <4>1. CASE Saving(c)
          BY <1>1, <1>3, <2>2, <3>1, <4>1, OthersStayBased
        <4>2. CASE ~Saving(c)
          <5>1. rows' = rows
            BY <1>3, <4>2
          <5>2. QED
            BY <3>1, <3>2, <5>1 DEF Based, At, Saving, Decided
        <4>3. QED
          BY <4>1, <4>2
      <3>7. QED
        BY <3>3, <3>5, <3>6
    <2>3. QED
      BY <2>1, <2>2
  <1>7. Locks'
    BY <1>2, <1>4, LocksMove DEF DeskInv
  <1>8. OneCreator'
    <2> SUFFICES ASSUME NEW id \in Review, rows'[id] = NoRow,
                        NEW d \in Caller, NEW e \in Caller, call'[d].id = id, call'[e].id = id
                 PROVE  d = e
      BY DEF OneCreator
    <2>1. id \in Id /\ id # None
      BY Constants
    <2>2. \A x \in Caller : call'[x].id = id => call[x].id = id
      BY <1>2, <2>1
    <2>3. QED
      BY <1>3, <2>1, <2>2 DEF DeskInv, OneCreator
  <1>9. Numbered'
    BY CommitNumbers
  <1>10. LedgersVerify'
    BY CommitAudits, CommitEvents DEF LedgersVerify
  <1>11. QED
    BY <1>3, <1>5, <1>6, <1>7, <1>8, <1>9, <1>10 DEF DeskInv

-------------------------------------------------------------------------------
(* The invariant *)

LEMMA DeskInit == Init => DeskInv
  <1> SUFFICES ASSUME Init PROVE DeskInv
    OBVIOUS
  <1>1. /\ rows = [id \in Id |-> NoRow] /\ events = <<>> /\ audits = <<>>
        /\ rowLock = [id \in Id |-> None] /\ advisory = None
        /\ call = [c \in Caller |-> NoCall] /\ served = [c \in Caller |-> 0]
        /\ late = 0 /\ broken = 0
    BY DEF Init
  <1>2. TypeOK
    <2>1. events \in Seq(EventType) /\ audits \in Seq(AuditType)
      BY <1>1
    <2>2. late \in 0 .. MaxLate /\ broken \in 0 .. MaxBroken
      BY <1>1, ReviewDeskAssumption
    <2>3. QED
      BY <1>1, <2>1, <2>2, NoCallIsTyped DEF TypeOK
  <1>3. ASSUME NEW c \in Caller
        PROVE  /\ call[c] = NoCall /\ At(c, "idle") /\ ~Saving(c) /\ ~Saved(c)
               /\ ~HoldsRow(c) /\ ~HoldsLedger(c)
               /\ call[c].audits = <<>> /\ call[c].event = None /\ call[c].id = None
    <2>1. call[c] = NoCall /\ NoCall.pc = "idle" /\ NoCall.audits = <<>> /\ NoCall.event = None
          /\ NoCall.id = None
      BY <1>1 DEF NoCall
    <2>2. QED
      BY <2>1 DEF At, Saving, Saved, HoldsRow, HoldsLedger
  <1>4. \A c \in Caller : Shape(c) /\ Linked(c) /\ Based(c)
    BY <1>3 DEF Shape, Linked, Based, At
  <1>5. Locks
    <2>1. \A c \in Caller : c # None
      BY Constants
    <2>2. QED
      BY <1>1, <1>3, <2>1 DEF Locks
  <1>6. RowsShape
    BY <1>1 DEF RowsShape
  <1>7. OneCreator
    BY <1>3, Constants DEF OneCreator
  <1>8. Numbered
    <2>1. AuditedPuts = {} /\ Told = {}
      BY <1>1 DEF AuditedPuts, Told
    <2>2. QED
      BY <1>1, <1>3, <2>1 DEF Numbered
  <1>9. LedgersVerify
    BY <1>1 DEF LedgersVerify, Verifies
  <1>10. QED
    BY <1>2, <1>4, <1>5, <1>6, <1>7, <1>8, <1>9 DEF DeskInv

LEMMA DeskNext == DeskInv /\ [Next]_vars => DeskInv'
  <1> SUFFICES ASSUME DeskInv, [Next]_vars PROVE DeskInv'
    OBVIOUS
  <1>1. CASE UNCHANGED vars
    <2>1. /\ rows' = rows /\ events' = events /\ audits' = audits /\ rowLock' = rowLock
          /\ advisory' = advisory /\ call' = call /\ served' = served /\ late' = late
          /\ broken' = broken
      BY <1>1 DEF vars
    <2>2. TypeOK' /\ RowsShape' /\ OneCreator' /\ LedgersVerify'
      BY <2>1 DEF DeskInv, TypeOK, RowsShape, OneCreator, LedgersVerify
    <2>3. ASSUME NEW c \in Caller PROVE (Shape(c) /\ Linked(c) /\ Based(c))'
      <3>1. Shape(c) /\ Linked(c) /\ Based(c)
        BY DEF DeskInv
      <3>2. Shape(c)'
        BY <2>1, <3>1 DEF Shape, At, PutOf, EventOf, Plain, Saving, Saved
      <3>3. Linked(c)'
        BY <2>1, <3>1 DEF Linked
      <3>4. Based(c)'
        BY <2>1, <3>1 DEF Based, At, Saving, Decided
      <3>5. QED
        BY <3>2, <3>3, <3>4
    <2>4. Locks'
      BY <2>1 DEF DeskInv, Locks, HoldsRow, HoldsLedger, Saving, At
    <2>5. Numbered'
      <3>1. Told' = Told /\ AuditedPuts' = AuditedPuts
        BY <2>1 DEF Told, AuditedPuts
      <3>2. \A c : PutOf(c)' = PutOf(c) /\ (Saved(c)' <=> Saved(c))
                  /\ (At(c, "broken")' <=> At(c, "broken"))
        BY <2>1 DEF PutOf, Saved, At
      <3>3. QED
        BY <2>1, <3>1, <3>2 DEF DeskInv, Numbered
    <2>6. QED
      BY <2>2, <2>3, <2>4, <2>5 DEF DeskInv
  <1>2. ASSUME NEW c \in Caller,
               \/ RequestReview(c) \/ PostReview(c) \/ AskTransition(c) \/ Observe(c)
               \/ Statement(c) \/ Break(c)
        PROVE  DeskInv'
    <2>1. CASE RequestReview(c)
      BY <2>1, RequestKeeps
    <2>2. CASE PostReview(c)
      BY <2>2, PostKeeps
    <2>3. CASE AskTransition(c)
      BY <2>3, AskKeeps
    <2>4. CASE Observe(c)
      BY <2>4, ObserveKeeps
    <2>5. CASE SelectForUpdate(c)
      BY <2>5, SelectKeeps
    <2>6. CASE Upsert(c)
      BY <2>6, UpsertKeeps
    <2>7. CASE AuditPut(c)
      BY <2>7, AuditKeeps
    <2>8. CASE AppendEvent(c)
      BY <2>8, AppendKeeps
    <2>9. CASE Commit(c)
      BY <2>9, CommitKeeps
    <2>10. CASE Break(c)
      BY <2>10, BreakKeeps
    <2>11. QED
      BY <1>2, <2>1, <2>2, <2>3, <2>4, <2>5, <2>6, <2>7, <2>8, <2>9, <2>10 DEF Statement
  <1>3. QED
    BY <1>1, <1>2 DEF Next

LEMMA DeskInvariant == Spec => []DeskInv
  BY DeskInit, DeskNext, PTL DEF Spec

-------------------------------------------------------------------------------
(* Theorems *)

\* The rows, the ledgers, the locks and the requests keep their types.
THEOREM DeskTypeCorrect == Spec => []TypeOK
  <1>1. DeskInv => TypeOK
    BY DEF DeskInv
  <1>2. QED
    BY <1>1, DeskInvariant, PTL

\* A row lock and the advisory lock have at most one holder each, who has them
\* exactly from the statement that takes them to the end of its transaction.
THEOREM LocksAreHeldToTheEnd == Spec => []Locks
  <1>1. DeskInv => Locks
    BY DEF DeskInv
  <1>2. QED
    BY <1>1, DeskInvariant, PTL

\* writeAudit and EventStore.append under pg_advisory_xact_lock: the audit ledger
\* verifies in every committed state, and the event ledger does exactly as long as
\* every event was dated after those before it.
THEOREM LedgersAlwaysVerify == Spec => []LedgersVerify
  <1>1. DeskInv => LedgersVerify
    BY DEF DeskInv
  <1>2. QED
    BY <1>1, DeskInvariant, PTL

\* Every event tells of a saved version and is there once; a saved version has
\* its event, or it is a review's whose caller is between the two transactions.
THEOREM EventsAlwaysTellSaves == Spec => []EventsTellSaves
  <1>1. ASSUME DeskInv PROVE EventsTellSaves
    <2>1. Numbered /\ AuditedPuts \subseteq AuditEntry
      BY <1>1, PutsAreTyped DEF DeskInv
    <2>2. ASSUME NEW put \in AuditedPuts \ Told PROVE put[2] \in Review /\ StillToTell(put[4], put)
      BY <2>1 DEF Numbered, StillToTell, PutOf, Saved, At
    <2>3. QED
      BY <2>1, <2>2 DEF Numbered, EventsTellSaves
  <1>2. QED
    BY <1>1, DeskInvariant, PTL

\* What a commit replaces.
LEMMA CommitTakesItsTurn ==
  ASSUME DeskInv, NEW c \in Caller, Commit(c)
  PROVE  /\ \A id \in Review : rows[id] \notin {NoRow, rows'[id]} =>
              \E e \in Evaluator, ask \in Asked :
                MayAsk(e, rows[id], ask) /\ rows'[id] = Transitioned(e, rows[id], ask)
         /\ \A new \in NewAudits :
              new.entry[1] = "ENTITY" /\ (new.op = "UPDATE" \/ new.entry[2] \in Review)
                => rows[new.entry[2]].version = new.entry[3] - 1
  <1> DEFINE own == call[c].audits
             id == call[c].id
  <1>1. At(c, "commit") /\ ~At(c, "idle") /\ audits' = audits \o own
    BY DEF Commit, At
  <1>2. /\ own \in Seq(AuditType) /\ audits \in Seq(AuditType) /\ rows \in [Id -> RowType]
        /\ Saving(c) => own[1].entry = PutOf(c) /\ own[1].op = call[c].op
        /\ \A i \in DOMAIN own : own[i].entry[1] = "ENTITY" => i = 1 /\ Saving(c)
    BY <1>1, OwnRecords DEF DeskInv, TypeOK
  <1>3. id \in Id /\ id \in Kinds(c) /\ Based(c) /\ (id \in Review => c \notin Observer)
    BY <1>1, UnderWay, Constants DEF Kinds
  <1>4. Saving(c) => /\ c \notin Observer => rows[id].version = call[c].next.version - 1
                     /\ call[c].op = "UPDATE" => rows[id].version = call[c].next.version - 1
    BY <1>1, OwnRow
  <1>5. rows' = IF Saving(c) THEN [rows EXCEPT ![id] = call[c].next] ELSE rows
    BY CommitRows
  <1>6. ASSUME NEW r \in Review, rows[r] \notin {NoRow, rows'[r]}
        PROVE  \E e \in Evaluator, ask \in Asked :
                 MayAsk(e, rows[r], ask) /\ rows'[r] = Transitioned(e, rows[r], ask)
    <2>1. Saving(c) /\ r = id /\ rows'[r] = call[c].next
      BY <1>2, <1>3, <1>5, <1>6, Constants
    <2>2. c \in Evaluator /\ Decided(c)
      BY <1>3, <1>4, <1>6, <2>1 DEF Based
    <2>3. QED
      BY <2>1, <2>2 DEF Decided
  <1>7. ASSUME NEW new \in NewAudits, new.entry[1] = "ENTITY",
               new.op = "UPDATE" \/ new.entry[2] \in Review
        PROVE  rows[new.entry[2]].version = new.entry[3] - 1
    <2>1. PICK i \in Len(audits) + 1 .. Len(audits') : new = audits'[i]
      BY DEF NewAudits
    <2>2. i - Len(audits) \in DOMAIN own /\ new = own[i - Len(audits)]
      BY <1>1, <1>2, <2>1
    <2>3. Saving(c) /\ new = own[1]
      BY <1>2, <1>7, <2>2
    <2>4. new.entry = PutOf(c) /\ new.op = call[c].op
      BY <1>2, <2>3
    <2>5. new.entry[2] = id /\ new.entry[3] = call[c].next.version
      BY <2>4 DEF PutOf
    <2>6. QED
      BY <1>3, <1>4, <1>7, <2>3, <2>4, <2>5
  <1>8. QED
    BY <1>6, <1>7

\* A review is only ever replaced by a transition that the state machine and the
\* route allow from the very row it replaces, and a save that found a row
\* replaces the version before its own.
THEOREM SavesAlwaysTakeTurns == Spec => SavesTakeTurns
  <1> DEFINE A == /\ \A id \in Review : rows[id] \notin {NoRow, rows'[id]} =>
                       \E e \in Evaluator, ask \in Asked :
                         MayAsk(e, rows[id], ask) /\ rows'[id] = Transitioned(e, rows[id], ask)
                  /\ \A new \in NewAudits :
                       new.entry[1] = "ENTITY" /\ (new.op = "UPDATE" \/ new.entry[2] \in Review)
                         => rows[new.entry[2]].version = new.entry[3] - 1
  <1>1. DeskInv /\ [Next]_vars => [A]_<<rows, audits>>
    <2> SUFFICES ASSUME DeskInv, [Next]_vars, ~UNCHANGED <<rows, audits>> PROVE A
      OBVIOUS
    <2>1. PICK c \in Caller : Commit(c)
      BY DEF Next, vars, RequestReview, PostReview, AskTransition, Observe, Send, Statement,
         SelectForUpdate, Upsert, AuditPut, AppendEvent, Break
    <2>2. QED
      BY <2>1, CommitTakesItsTurn
  <1>2. SavesTakeTurns <=> [][A]_<<rows, audits>>
    BY DEF SavesTakeTurns
  <1> HIDE DEF A
  <1>3. QED
    BY <1>1, <1>2, DeskInvariant, PTL DEF Spec
===============================================================================
