----------------------------- MODULE SessionsProofs -----------------------------
(***************************************************************************)
(* Proofs about Sessions, for any hosts, users, rids, administrators and   *)
(* requests, and any number of failures: ended sessions serve nobody, a    *)
(* rid is bound once, and sessions from before a binding end.              *)
(***************************************************************************)
EXTENDS Sessions, TLAPS

AdminPc  == {"idle", "bind", "revokeAll", "lookup", "record"}
ClientPc == {"idle", "insert", "issued", "refresh", "revokeAll", "touch", "read", "accepted",
             "logout", "done", "refused", "cut"}

CallRecord ==
  [pc : AdminPc \cup ClientPc, host : Host \cup {Absent}, user : User \cup {Absent},
   rid : Rid \cup {None}, session : Client \cup {Absent}, token : Client \cup {Absent},
   arrived : BOOLEAN]

TypeOK ==
  /\ users \in [User -> Rid \cup {None, Absent}]
  /\ sessions \in [Client -> SessionRecord \cup {Absent}]
  /\ bindings \in [User -> Rid \cup {Absent}]
  /\ known \in [Host -> [User -> Rid \cup {None, Absent}]]
  /\ call \in [Caller -> CallRecord]

\* Where an administrator's and a client's request may be, and what it holds then.
AdminShape(k) ==
  /\ k.pc \in AdminPc
  /\ k.pc # "idle" => k.host \in Host /\ k.user \in User /\ k.rid \in Rid

ClientShape(k) ==
  /\ k.pc \in ClientPc
  /\ k.pc # "idle" => k.host \in Host /\ k.user \in User
  /\ k.pc = "insert" => k.session = Absent
  /\ k.session = Absent <=> k.token = Absent
  /\ k.pc \in {"refresh", "touch", "read", "logout"} => k.session # Absent

\* A request with tokens shows those of a stored session of its user, which some
\* earlier request was given.
ShowsStored(k) ==
  k.session # Absent =>
    /\ k.session \in Stored /\ sessions[k.session].user = k.user
    /\ call[k.token].pc = "issued"

Shapes ==
  /\ \A c \in Admin : AdminShape(call[c])
  /\ \A c \in Client : ClientShape(call[c]) /\ ShowsStored(call[c])
  /\ \A s \in Stored : call[s].pc = "issued" /\ call[s].session = Absent

TypeInv == TypeOK /\ Shapes

-------------------------------------------------------------------------------
(* One request moves *)

LEMMA Actors ==
  /\ Absent \notin Client /\ Absent \notin Rid /\ None \notin Rid /\ None # Absent
  /\ Absent \notin SessionRecord
  /\ \A c \in Client : c \notin Admin /\ c \in Caller
  /\ \A c \in Admin : c \notin Client /\ c \in Caller
  BY SessionsAssumption DEF Caller

LEMMA NoCallShape ==
  NoCall \in CallRecord /\ NoCall.pc = "idle" /\ AdminShape(NoCall)
  BY DEF NoCall, Call, CallRecord, AdminShape, AdminPc

LEMMA GoneTo ==
  ASSUME TypeOK, NEW c \in Caller, NEW pc \in AdminPc \cup ClientPc, Goto(c, pc)
  PROVE  /\ call' \in [Caller -> CallRecord]
         /\ call'[c] = [call[c] EXCEPT !.pc = pc]
         /\ \A d \in Caller \ {c} : call'[d] = call[d]
  <1> DEFINE k == [call[c] EXCEPT !.pc = pc]
  <1>1. call \in [Caller -> CallRecord]
    BY DEF TypeOK
  <1>2. k \in CallRecord
    BY <1>1 DEF CallRecord
  <1>3. call' = [call EXCEPT ![c] = k]
    BY DEF Goto
  <1> HIDE DEF k
  <1>4. call' \in [Caller -> CallRecord] /\ call'[c] = k /\ \A d \in Caller \ {c} : call'[d] = call[d]
    BY <1>1, <1>2, <1>3
  <1>5. QED
    BY <1>4 DEF k

LEMMA Answered ==
  ASSUME TypeOK, NEW c \in Caller, NEW pc \in AdminPc \cup ClientPc, Answer(c, pc)
  PROVE  /\ call' \in [Caller -> CallRecord]
         /\ call'[c] = IF c \in Admin THEN NoCall ELSE [call[c] EXCEPT !.pc = pc]
         /\ \A d \in Caller \ {c} : call'[d] = call[d]
  <1> DEFINE k == IF c \in Admin THEN NoCall ELSE [call[c] EXCEPT !.pc = pc]
  <1>1. call \in [Caller -> CallRecord]
    BY DEF TypeOK
  <1>2. [call[c] EXCEPT !.pc = pc] \in CallRecord
    BY <1>1 DEF CallRecord
  <1>3. k \in CallRecord
    BY <1>2, NoCallShape
  <1>4. call' = [call EXCEPT ![c] = k]
    BY DEF Answer
  <1>5. QED
    BY <1>1, <1>3, <1>4

\* What sessions do: those stored remain, with their user, and stay revoked.
SessionsGrow ==
  \A s \in Stored : /\ s \in Stored' /\ sessions'[s].user = sessions[s].user
                    /\ sessions[s].revoked => sessions'[s].revoked
                    /\ sessions'[s].unbound = sessions[s].unbound

\* A step of one client, or of one administrator, that stores no new session.
LEMMA ClientMoves ==
  ASSUME TypeInv, SessionsGrow, Stored' = Stored, NEW c \in Client,
         call' \in [Caller -> CallRecord],
         \A d \in Caller \ {c} : call'[d] = call[d],
         call[c].pc # "issued", ClientShape(call[c])', ShowsStored(call[c])'
  PROVE  Shapes'
  <1>1. call \in [Caller -> CallRecord]
    BY DEF TypeInv, TypeOK
  <1>2. \A t \in Client : call[t].pc = "issued" => call'[t] = call[t]
    BY Actors
  <1>3. \A d \in Admin : AdminShape(call[d])'
    BY Actors DEF TypeInv, Shapes, AdminShape
  <1>4. ASSUME NEW d \in Client PROVE ClientShape(call[d])' /\ ShowsStored(call[d])'
    <2>1. CASE d = c
      BY <2>1
    <2>2. CASE d # c
      <3>1. ClientShape(call[d]) /\ ShowsStored(call[d]) /\ call'[d] = call[d]
        BY <2>2, Actors DEF TypeInv, Shapes
      <3>2. ClientShape(call[d])'
        BY <3>1 DEF ClientShape
      <3>3. call[d].token \in Client \cup {Absent} /\ call[d].session \in Client \cup {Absent}
        BY <1>1, Actors DEF CallRecord
      <3>4. ASSUME call'[d].session # Absent
            PROVE  /\ call'[d].session \in Stored' /\ sessions'[call'[d].session].user = call'[d].user
                   /\ call'[call'[d].token].pc = "issued"
        <4>1. call[d].token \in Client
          BY <3>1, <3>3, <3>4 DEF ClientShape
        <4>2. QED
          BY <1>2, <3>1, <3>4, <4>1 DEF ShowsStored, SessionsGrow
      <3>5. QED
        BY <3>2, <3>4 DEF ShowsStored
    <2>3. QED
      BY <2>1, <2>2
  <1>5. \A s \in Stored' : call'[s].pc = "issued" /\ call'[s].session = Absent
    BY <1>2 DEF TypeInv, Shapes, Stored
  <1>6. QED
    BY <1>3, <1>4, <1>5 DEF Shapes

LEMMA AdminMoves ==
  ASSUME TypeInv, SessionsGrow, Stored' = Stored, NEW c \in Admin,
         \A d \in Caller \ {c} : call'[d] = call[d],
         AdminShape(call[c])'
  PROVE  Shapes'
  <1>1. \A t \in Client : call'[t] = call[t]
    BY Actors
  <1>2. \A d \in Admin : AdminShape(call[d])'
    <2> SUFFICES ASSUME NEW d \in Admin PROVE AdminShape(call[d])'
      OBVIOUS
    <2>1. CASE d = c
      BY <2>1
    <2>2. CASE d # c
      BY <2>2, Actors DEF TypeInv, Shapes, AdminShape
    <2>3. QED
      BY <2>1, <2>2
  <1>3. ASSUME NEW d \in Client PROVE ClientShape(call[d])' /\ ShowsStored(call[d])'
    <2>1. ClientShape(call[d]) /\ ShowsStored(call[d]) /\ call'[d] = call[d]
      BY <1>1 DEF TypeInv, Shapes
    <2>2. call[d].token \in Client \cup {Absent}
      BY Actors DEF TypeInv, TypeOK, CallRecord
    <2>3. ClientShape(call[d])'
      BY <2>1 DEF ClientShape
    <2>4. ASSUME call'[d].session # Absent
          PROVE  /\ call'[d].session \in Stored' /\ sessions'[call'[d].session].user = call'[d].user
                 /\ call'[call'[d].token].pc = "issued"
      <3>1. call[d].token \in Client
        BY <2>1, <2>2, <2>4 DEF ClientShape
      <3>2. QED
        BY <1>1, <2>1, <2>4, <3>1 DEF ShowsStored, SessionsGrow
    <2>5. QED
      BY <2>3, <2>4 DEF ShowsStored
  <1>4. \A s \in Stored' : call'[s].pc = "issued" /\ call'[s].session = Absent
    BY <1>1 DEF TypeInv, Shapes, Stored
  <1>5. QED
    BY <1>2, <1>3, <1>4 DEF Shapes

-------------------------------------------------------------------------------
(* Every step keeps the types *)

LEMMA SessionsStay ==
  ASSUME UNCHANGED sessions
  PROVE  SessionsGrow /\ Stored' = Stored
  BY DEF SessionsGrow, Stored

\* A request that begins, and what it holds.
LEMMA Begun ==
  ASSUME TypeOK, NEW c \in Caller, NEW k \in CallRecord, call' = [call EXCEPT ![c] = k]
  PROVE  /\ call' \in [Caller -> CallRecord] /\ call'[c] = k
         /\ \A d \in Caller \ {c} : call'[d] = call[d]
  BY DEF TypeOK

LEMMA CreateUserType == ASSUME TypeInv, NEW c \in Caller, CreateUser(c) PROVE TypeInv'
  <1>1. PICK h \in Host, u \in User, rid \in Rid \cup {None} :
          /\ users' = [users EXCEPT ![u] = rid]
          /\ Learns(h, u, rid)
          /\ call' = IF rid = None THEN call
                     ELSE [call EXCEPT ![c] = Call("lookup", h, u, rid)]
    BY DEF CreateUser
  <1>2. c \in Admin /\ UNCHANGED <<sessions, bindings>>
    BY DEF CreateUser
  <1>3. /\ users' \in [User -> Rid \cup {None, Absent}]
        /\ known' \in [Host -> [User -> Rid \cup {None, Absent}]]
    BY <1>1 DEF TypeInv, TypeOK, Learns
  <1>4. CASE rid = None
    <2>1. UNCHANGED call
      BY <1>1, <1>4
    <2>2. Shapes'
      BY <1>2, <2>1 DEF TypeInv, Shapes, Stored, ShowsStored, AdminShape, ClientShape
    <2>3. QED
      BY <1>2, <1>3, <2>1, <2>2 DEF TypeInv, TypeOK
  <1>5. CASE rid # None
    <2> DEFINE k == Call("lookup", h, u, rid)
    <2>2. k \in CallRecord /\ AdminShape(k)
      BY <1>5 DEF Call, CallRecord, AdminShape, AdminPc
    <2>3. call' = [call EXCEPT ![c] = k]
      BY <1>1, <1>5
    <2>4. /\ call' \in [Caller -> CallRecord] /\ call'[c] = k
          /\ \A d \in Caller \ {c} : call'[d] = call[d]
      BY <2>2, <2>3, Begun DEF TypeInv
    <2>5. Shapes'
      <3>1. AdminShape(call[c])'
        BY <2>2, <2>4 DEF AdminShape
      <3>2. QED
        BY <1>2, <2>4, <3>1, SessionsStay, AdminMoves
    <2>6. QED
      BY <1>2, <1>3, <2>4, <2>5 DEF TypeInv, TypeOK
  <1>6. QED
    BY <1>4, <1>5

LEMMA BindRidType == ASSUME TypeInv, NEW c \in Caller, BindRid(c) PROVE TypeInv'
  <1>1. PICK h \in Host, u \in User, rid \in Rid :
          call' = [call EXCEPT ![c] =
                     Call(IF known[h][u] = rid THEN "lookup" ELSE "bind", h, u, rid)]
    BY DEF BindRid
  <1>2. c \in Admin /\ UNCHANGED <<users, sessions, bindings, known>>
    BY DEF BindRid
  <1> DEFINE k == Call(IF known[h][u] = rid THEN "lookup" ELSE "bind", h, u, rid)
  <1>4. k \in CallRecord /\ AdminShape(k)
    BY DEF Call, CallRecord, AdminShape, AdminPc
  <1>5. /\ call' \in [Caller -> CallRecord] /\ call'[c] = k
        /\ \A d \in Caller \ {c} : call'[d] = call[d]
    BY <1>1, <1>4, Begun DEF TypeInv
  <1>6. AdminShape(call[c])'
    BY <1>4, <1>5 DEF AdminShape
  <1>7. Shapes'
    BY <1>2, <1>5, <1>6, SessionsStay, AdminMoves
  <1>8. QED
    BY <1>2, <1>5, <1>7 DEF TypeInv, TypeOK

\* Who is at a step, and what it holds.
LEMMA Holders ==
  ASSUME TypeInv, NEW c \in Caller
  PROVE  /\ call[c].pc \in {"bind", "lookup", "record"} => c \in Admin
         /\ call[c].pc \in {"insert", "refresh", "touch", "read", "logout"} => c \in Client
         /\ c \in Admin \/ c \in Client
         /\ call[c].pc # "idle" => call[c].host \in Host /\ call[c].user \in User
         /\ c \in Admin /\ call[c].pc # "idle" => call[c].rid \in Rid
  BY Actors DEF TypeInv, Shapes, AdminShape, ClientShape, AdminPc, ClientPc, Caller

LEMMA UpdateUserType == ASSUME TypeInv, NEW c \in Caller, UpdateUser(c) PROVE TypeInv'
  <1>1. /\ c \in Admin /\ UNCHANGED <<sessions, bindings>>
        /\ call[c].host \in Host /\ call[c].user \in User /\ call[c].rid \in Rid
        /\ call[c].pc = "bind"
    BY Holders DEF UpdateUser, At
  <1>2. CASE MayBindTo(call[c].user)
    <2>1. /\ users' = [users EXCEPT ![call[c].user] = call[c].rid]
          /\ Learns(call[c].host, call[c].user, call[c].rid)
          /\ Goto(c, "revokeAll")
      BY <1>2 DEF UpdateUser, AfterBinding
    <2>2. /\ users' \in [User -> Rid \cup {None, Absent}]
          /\ known' \in [Host -> [User -> Rid \cup {None, Absent}]]
      BY <1>1, <2>1 DEF TypeInv, TypeOK, Learns
    <2>3. /\ call' \in [Caller -> CallRecord] /\ call'[c] = [call[c] EXCEPT !.pc = "revokeAll"]
          /\ \A d \in Caller \ {c} : call'[d] = call[d]
      BY <2>1, GoneTo DEF TypeInv, AdminPc
    <2>4. AdminShape(call[c])'
      BY <1>1, <2>3 DEF AdminShape, AdminPc, TypeInv, TypeOK, CallRecord
    <2>5. Shapes'
      BY <1>1, <2>3, <2>4, SessionsStay, AdminMoves
    <2>6. QED
      BY <1>1, <2>2, <2>3, <2>5 DEF TypeInv, TypeOK
  <1>3. CASE ~MayBindTo(call[c].user)
    <2>1. Answer(c, "refused") /\ UNCHANGED <<users, known>>
      BY <1>3 DEF UpdateUser
    <2>2. /\ call' \in [Caller -> CallRecord] /\ call'[c] = NoCall
          /\ \A d \in Caller \ {c} : call'[d] = call[d]
      BY <1>1, <2>1, Answered DEF TypeInv, ClientPc
    <2>3. AdminShape(call[c])'
      BY <2>2, NoCallShape DEF AdminShape
    <2>4. Shapes'
      BY <1>1, <2>2, <2>3, SessionsStay, AdminMoves
    <2>5. QED
      BY <1>1, <2>1, <2>2, <2>4 DEF TypeInv, TypeOK
  <1>4. QED
    BY <1>2, <1>3

\* An administrator's request, and a client's, goes on.
LEMMA AdminSteps ==
  ASSUME TypeInv, SessionsGrow, Stored' = Stored, NEW c \in Admin, call[c].pc # "idle",
         NEW pc \in AdminPc \cup ClientPc,
         \/ pc \in AdminPc /\ Goto(c, pc)
         \/ Answer(c, pc)
  PROVE  call' \in [Caller -> CallRecord] /\ Shapes'
  <1>1. c \in Caller /\ call[c] \in CallRecord /\ AdminShape(call[c])
    BY Actors DEF TypeInv, TypeOK, Shapes
  <1>2. /\ call' \in [Caller -> CallRecord] /\ \A d \in Caller \ {c} : call'[d] = call[d]
        /\ \/ pc \in AdminPc /\ call'[c] = [call[c] EXCEPT !.pc = pc]
           \/ call'[c] = NoCall
    BY <1>1, GoneTo, Answered DEF TypeInv
  <1>3. AdminShape(call[c])'
    <2>1. CASE call'[c] = NoCall
      BY <2>1, NoCallShape DEF AdminShape
    <2>2. CASE pc \in AdminPc /\ call'[c] = [call[c] EXCEPT !.pc = pc]
      BY <1>1, <2>2 DEF AdminShape, CallRecord
    <2>3. QED
      BY <1>2, <2>1, <2>2
  <1>4. QED
    BY <1>2, <1>3, AdminMoves

LEMMA ClientSteps ==
  ASSUME TypeInv, SessionsGrow, Stored' = Stored, NEW c \in Client,
         call[c].pc \notin {"idle", "issued"}, NEW pc \in ClientPc \ {"insert"},
         pc \in {"refresh", "touch", "read", "logout"} => call[c].session # Absent,
         Goto(c, pc) \/ Answer(c, pc)
  PROVE  /\ call' \in [Caller -> CallRecord] /\ Shapes'
         /\ call'[c] = [call[c] EXCEPT !.pc = pc]
         /\ \A d \in Caller \ {c} : call'[d] = call[d]
  <1>1. c \in Caller /\ c \notin Admin /\ call[c] \in CallRecord /\ ClientShape(call[c])
        /\ ShowsStored(call[c])
    BY Actors DEF TypeInv, TypeOK, Shapes
  <1>2. /\ call' \in [Caller -> CallRecord] /\ \A d \in Caller \ {c} : call'[d] = call[d]
        /\ call'[c] = [call[c] EXCEPT !.pc = pc]
    BY <1>1, GoneTo, Answered DEF TypeInv
  <1>3. /\ call'[c].pc = pc /\ call'[c].session = call[c].session
        /\ call'[c].token = call[c].token /\ call'[c].user = call[c].user
        /\ call'[c].host = call[c].host
    BY <1>1, <1>2 DEF CallRecord
  <1>4. ClientShape(call[c])'
    BY <1>1, <1>3 DEF ClientShape
  <1>5. ShowsStored(call[c])'
    <2> SUFFICES ASSUME call'[c].session # Absent
                 PROVE  /\ call'[c].session \in Stored'
                        /\ sessions'[call'[c].session].user = call'[c].user
                        /\ call'[call'[c].token].pc = "issued"
      BY DEF ShowsStored
    <2>1. call[c].token \in Client
      BY <1>1, <1>3 DEF ClientShape, CallRecord
    <2>2. call[c].token # c
      BY <1>1, <1>3 DEF ShowsStored
    <2>3. QED
      BY <1>1, <1>2, <1>3, <2>1, <2>2, Actors DEF ShowsStored, SessionsGrow
  <1>6. QED
    BY <1>2, <1>4, <1>5, ClientMoves

\* All sessions of a user are revoked; one is, or gets another token.
LEMMA Revoked ==
  ASSUME TypeOK, NEW u,
         sessions' = [s \in Client |-> IF s \in OfUser(u)
                        THEN [sessions[s] EXCEPT !.revoked = TRUE] ELSE sessions[s]]
  PROVE  /\ sessions' \in [Client -> SessionRecord \cup {Absent}]
         /\ SessionsGrow /\ Stored' = Stored
         /\ \A s \in Stored : /\ sessions'[s].token = sessions[s].token
                              /\ sessions[s].user = u => sessions'[s].revoked
  <1>1. ASSUME NEW s \in Stored
        PROVE  /\ sessions[s] \in SessionRecord
               /\ [sessions[s] EXCEPT !.revoked = TRUE] \in SessionRecord
    BY DEF TypeOK, Stored, SessionRecord
  <1>2. sessions' \in [Client -> SessionRecord \cup {Absent}]
    BY <1>1 DEF TypeOK, OfUser
  <1>3. Stored' = Stored
    BY <1>1, Actors DEF Stored, OfUser
  <1>4. ASSUME NEW s \in Stored
        PROVE  /\ sessions'[s].user = sessions[s].user /\ sessions'[s].unbound = sessions[s].unbound
               /\ sessions'[s].token = sessions[s].token
               /\ sessions[s].revoked => sessions'[s].revoked
               /\ sessions[s].user = u => sessions'[s].revoked
    <2>1. sessions[s] \in SessionRecord /\ s \in Client
      BY <1>1 DEF Stored
    <2>2. CASE s \in OfUser(u)
      <3>1. sessions'[s] = [sessions[s] EXCEPT !.revoked = TRUE]
        BY <2>1, <2>2
      <3>2. QED
        BY <2>1, <3>1 DEF SessionRecord
    <2>3. CASE s \notin OfUser(u)
      BY <2>1, <2>3 DEF OfUser
    <2>4. QED
      BY <2>2, <2>3
  <1>5. QED
    BY <1>2, <1>3, <1>4 DEF SessionsGrow

LEMMA Changed ==
  ASSUME TypeOK, NEW s \in Stored, NEW k \in SessionRecord,
         k.user = sessions[s].user, k.unbound = sessions[s].unbound,
         sessions[s].revoked => k.revoked, sessions' = [sessions EXCEPT ![s] = k]
  PROVE  /\ sessions' \in [Client -> SessionRecord \cup {Absent}]
         /\ SessionsGrow /\ Stored' = Stored
         /\ sessions'[s] = k /\ \A q \in Stored \ {s} : sessions'[q] = sessions[q]
  <1>1. s \in Client
    BY DEF Stored
  <1>2. sessions'[s] = k /\ \A q \in Client \ {s} : sessions'[q] = sessions[q]
    BY <1>1 DEF TypeOK
  <1>3. sessions' \in [Client -> SessionRecord \cup {Absent}]
    BY DEF TypeOK
  <1>4. Stored' = Stored
    BY <1>2, Actors DEF Stored
  <1>5. SessionsGrow
    BY <1>2, <1>4 DEF SessionsGrow, Stored
  <1>6. QED
    BY <1>2, <1>3, <1>4, <1>5 DEF Stored

LEMMA Exchanged ==
  ASSUME TypeOK, NEW s \in Stored, NEW t \in Client, sessions' = [sessions EXCEPT ![s].token = t]
  PROVE  /\ sessions' \in [Client -> SessionRecord \cup {Absent}]
         /\ SessionsGrow /\ Stored' = Stored
         /\ sessions'[s].token = t /\ sessions'[s].revoked = sessions[s].revoked
         /\ \A q \in Stored \ {s} : sessions'[q] = sessions[q]
  <1> DEFINE k == [sessions[s] EXCEPT !.token = t]
  <1>1. sessions[s] \in SessionRecord
    BY DEF TypeOK, Stored
  <1>2. /\ k \in SessionRecord /\ k.user = sessions[s].user /\ k.unbound = sessions[s].unbound
        /\ k.revoked = sessions[s].revoked /\ k.token = t /\ (sessions[s].revoked => k.revoked)
    BY <1>1 DEF SessionRecord
  <1>3. sessions' = [sessions EXCEPT ![s] = k]
    OBVIOUS
  <1> HIDE DEF k
  <1>4. /\ sessions' \in [Client -> SessionRecord \cup {Absent}]
        /\ SessionsGrow /\ Stored' = Stored
        /\ sessions'[s] = k /\ \A q \in Stored \ {s} : sessions'[q] = sessions[q]
    BY <1>2, <1>3, Changed
  <1>5. QED
    BY <1>2, <1>4

LEMMA Ended ==
  ASSUME TypeOK, NEW s \in Stored, sessions' = [sessions EXCEPT ![s].revoked = TRUE]
  PROVE  /\ sessions' \in [Client -> SessionRecord \cup {Absent}]
         /\ SessionsGrow /\ Stored' = Stored
         /\ \A q \in Stored : sessions'[q].token = sessions[q].token
  <1> DEFINE k == [sessions[s] EXCEPT !.revoked = TRUE]
  <1>1. sessions[s] \in SessionRecord
    BY DEF TypeOK, Stored
  <1>2. /\ k \in SessionRecord /\ k.user = sessions[s].user /\ k.unbound = sessions[s].unbound
        /\ (sessions[s].revoked => k.revoked) /\ k.token = sessions[s].token
    BY <1>1 DEF SessionRecord
  <1>3. sessions' = [sessions EXCEPT ![s] = k]
    OBVIOUS
  <1> HIDE DEF k
  <1>4. /\ sessions' \in [Client -> SessionRecord \cup {Absent}]
        /\ SessionsGrow /\ Stored' = Stored
        /\ sessions'[s] = k /\ \A q \in Stored \ {s} : sessions'[q] = sessions[q]
    BY <1>2, <1>3, Changed
  <1>5. QED
    BY <1>2, <1>4

LEMMA RevokeAllType == ASSUME TypeInv, NEW c \in Caller, RevokeAll(c) PROVE TypeInv'
  <1>1. /\ call[c].pc = "revokeAll" /\ UNCHANGED <<users, bindings, known>>
        /\ sessions' \in [Client -> SessionRecord \cup {Absent}] /\ SessionsGrow /\ Stored' = Stored
    BY Revoked DEF RevokeAll, At, TypeInv
  <1>2. call' \in [Caller -> CallRecord] /\ Shapes'
    <2>1. CASE c \in Admin
      BY <1>1, <2>1, AdminSteps DEF RevokeAll, AdminPc
    <2>2. CASE c \notin Admin
      BY <1>1, <2>2, ClientSteps DEF RevokeAll, ClientPc, Caller
    <2>3. QED
      BY <2>1, <2>2
  <1>3. QED
    BY <1>1, <1>2 DEF TypeInv, TypeOK

LEMMA BindingType ==
  ASSUME TypeInv, NEW c \in Caller, LookUpBinding(c) \/ RecordBinding(c) PROVE TypeInv'
  <1>1. /\ call[c].pc \in {"lookup", "record"} /\ c \in Admin
        /\ UNCHANGED <<users, sessions, known>> /\ SessionsGrow /\ Stored' = Stored
    BY Holders, SessionsStay DEF LookUpBinding, RecordBinding, At
  <1>2. Goto(c, "record") \/ Answer(c, "done")
    BY DEF LookUpBinding, RecordBinding
  <1>3. call' \in [Caller -> CallRecord] /\ Shapes'
    <2>1. "record" \in AdminPc /\ "done" \in ClientPc
      BY DEF AdminPc, ClientPc
    <2>2. QED
      BY <1>1, <1>2, <2>1, AdminSteps
  <1>4. bindings' \in [User -> Rid \cup {Absent}]
    <2>1. call[c].user \in User /\ call[c].rid \in Rid
      BY <1>1, Holders
    <2>2. QED
      BY <2>1 DEF LookUpBinding, RecordBinding, TypeInv, TypeOK
  <1>5. QED
    BY <1>1, <1>3, <1>4 DEF TypeInv, TypeOK

LEMMA LoginType == ASSUME TypeInv, NEW c \in Caller, Login(c) PROVE TypeInv'
  <1>1. /\ c \in Client /\ call[c].pc = "idle" /\ UNCHANGED <<users, sessions, bindings>>
        /\ SessionsGrow /\ Stored' = Stored
    BY SessionsStay DEF Login, Idle
  <1>2. PICK h \in Host, u \in User :
          Learns(h, u, users[u]) /\ call' = [call EXCEPT ![c] = Call("insert", h, u, None)]
    BY DEF Login
  <1>3. known' \in [Host -> [User -> Rid \cup {None, Absent}]]
    BY <1>2 DEF TypeInv, TypeOK, Learns
  <1> DEFINE k == Call("insert", h, u, None)
  <1>4. k \in CallRecord /\ ClientShape(k) /\ k.session = Absent
    BY DEF Call, CallRecord, ClientShape, ClientPc
  <1>5. /\ call' \in [Caller -> CallRecord] /\ call'[c] = k
        /\ \A d \in Caller \ {c} : call'[d] = call[d]
    BY <1>2, <1>4, Begun DEF TypeInv
  <1>6. ClientShape(call[c])' /\ ShowsStored(call[c])'
    BY <1>4, <1>5 DEF ClientShape, ShowsStored
  <1>7. Shapes'
    BY <1>1, <1>5, <1>6, ClientMoves
  <1>8. QED
    BY <1>1, <1>3, <1>5, <1>7 DEF TypeInv, TypeOK

LEMMA InsertSessionFacts ==
  ASSUME TypeInv, NEW c \in Caller, InsertSession(c)
  PROVE  /\ c \in Client /\ c \notin Stored /\ call[c].session = Absent
         /\ call[c].pc = "insert" /\ call[c].user \in User
         /\ sessions' \in [Client -> SessionRecord \cup {Absent}]
         /\ Stored' = Stored \cup {c} /\ \A s \in Stored : sessions'[s] = sessions[s]
         /\ sessions'[c] = Session(call[c].user, c)
         /\ call' \in [Caller -> CallRecord] /\ call'[c] = [call[c] EXCEPT !.pc = "issued"]
         /\ \A d \in Caller \ {c} : call'[d] = call[d]
  <1>1. c \in Client /\ call[c].pc = "insert" /\ call[c].user \in User /\ ClientShape(call[c])
    BY Holders DEF InsertSession, At, TypeInv, Shapes
  <1>2. c \notin Stored /\ call[c].session = Absent
    BY <1>1 DEF TypeInv, Shapes, ClientShape
  <1>3. Session(call[c].user, c) \in SessionRecord
    BY <1>1 DEF Session, SessionRecord
  <1>4. sessions' = [sessions EXCEPT ![c] = Session(call[c].user, c)]
    BY DEF InsertSession
  <1>5. /\ sessions' \in [Client -> SessionRecord \cup {Absent}]
        /\ sessions'[c] = Session(call[c].user, c)
        /\ \A s \in Client \ {c} : sessions'[s] = sessions[s]
    BY <1>1, <1>3, <1>4 DEF TypeInv, TypeOK
  <1>6. Stored' = Stored \cup {c} /\ \A s \in Stored : sessions'[s] = sessions[s]
    BY <1>1, <1>2, <1>3, <1>5, Actors DEF Stored
  <1>7. /\ call' \in [Caller -> CallRecord] /\ call'[c] = [call[c] EXCEPT !.pc = "issued"]
        /\ \A d \in Caller \ {c} : call'[d] = call[d]
    <2>1. Answer(c, "issued") /\ "issued" \in ClientPc /\ c \notin Admin
      BY <1>1, Actors DEF InsertSession, ClientPc
    <2>2. QED
      BY <2>1, Answered DEF TypeInv
  <1>8. QED
    BY <1>1, <1>2, <1>5, <1>6, <1>7

LEMMA InsertSessionType == ASSUME TypeInv, NEW c \in Caller, InsertSession(c) PROVE TypeInv'
  <1>1. /\ c \in Client /\ c \notin Stored /\ call[c].session = Absent
        /\ call[c].pc = "insert" /\ call[c].user \in User
        /\ sessions' \in [Client -> SessionRecord \cup {Absent}]
        /\ Stored' = Stored \cup {c} /\ \A s \in Stored : sessions'[s] = sessions[s]
        /\ call' \in [Caller -> CallRecord] /\ call'[c] = [call[c] EXCEPT !.pc = "issued"]
        /\ \A d \in Caller \ {c} : call'[d] = call[d]
    BY InsertSessionFacts
  <1>2. /\ call'[c].pc = "issued" /\ call'[c].session = Absent
        /\ call'[c].token = call[c].token /\ call'[c].user = call[c].user
        /\ call'[c].host = call[c].host
    BY <1>1 DEF TypeInv, TypeOK, CallRecord
  <1>3. \A d \in Admin : AdminShape(call[d])'
    BY <1>1, Actors DEF TypeInv, Shapes, AdminShape
  <1>4. ASSUME NEW d \in Client PROVE ClientShape(call[d])' /\ ShowsStored(call[d])'
    <2>1. CASE d = c
      <3>1. ClientShape(call[c]) /\ call[c].session = Absent
        BY <1>1 DEF TypeInv, Shapes
      <3>2. QED
        BY <1>1, <1>2, <2>1, <3>1 DEF ClientShape, ShowsStored, ClientPc
    <2>2. CASE d # c
      <3>1. ClientShape(call[d]) /\ ShowsStored(call[d]) /\ call'[d] = call[d] /\ call[d] \in CallRecord
        BY <1>1, <2>2, Actors DEF TypeInv, TypeOK, Shapes
      <3>2. ClientShape(call[d])'
        BY <3>1 DEF ClientShape
      <3>3. ASSUME call'[d].session # Absent
            PROVE  /\ call'[d].session \in Stored' /\ sessions'[call'[d].session].user = call'[d].user
                   /\ call'[call'[d].token].pc = "issued"
        <4>1. call[d].token \in Client
          BY <3>1, <3>3 DEF ClientShape, CallRecord
        <4>2. QED
          BY <1>1, <1>2, <3>1, <3>3, <4>1, Actors DEF ShowsStored
      <3>4. QED
        BY <3>2, <3>3 DEF ShowsStored
    <2>3. QED
      BY <2>1, <2>2
  <1>5. \A s \in Stored' : call'[s].pc = "issued" /\ call'[s].session = Absent
    <2>1. ASSUME NEW s \in Stored PROVE call'[s].pc = "issued" /\ call'[s].session = Absent
      <3>1. s \in Caller \ {c}
        BY <1>1, Actors DEF Stored
      <3>2. call[s].pc = "issued" /\ call[s].session = Absent
        BY DEF TypeInv, Shapes
      <3>3. QED
        BY <1>1, <3>1, <3>2
    <2>2. QED
      BY <1>1, <1>2, <2>1
  <1>6. UNCHANGED <<users, bindings, known>>
    BY DEF InsertSession
  <1>7. QED
    BY <1>1, <1>3, <1>4, <1>5, <1>6 DEF TypeInv, TypeOK, Shapes

LEMMA ArriveType ==
  ASSUME TypeInv, NEW c \in Caller, NEW pc \in {"refresh", "touch", "logout"}, Arrive(c, pc)
  PROVE  TypeInv'
  <1>1. /\ c \in Client /\ call[c].pc = "idle" /\ UNCHANGED <<users, sessions, bindings, known>>
        /\ SessionsGrow /\ Stored' = Stored
    BY SessionsStay DEF Arrive, Idle
  <1> DEFINE k(h, s, t) == [pc |-> pc, host |-> h, user |-> sessions[s].user, rid |-> None,
                            session |-> s, token |-> t, arrived |-> Live(s)]
  <1>2. PICK h \in Host, t \in Client, s \in Stored :
          Holds(c, s, t) /\ call' = [call EXCEPT ![c] = k(h, s, t)]
    BY DEF Arrive
  <1>3. sessions[s] \in SessionRecord /\ s \in Client
    BY DEF TypeInv, TypeOK, Stored
  <1>4. sessions[s].user \in User /\ Live(s) \in BOOLEAN
    BY <1>3 DEF SessionRecord, Live
  <1>5. k(h, s, t) \in CallRecord /\ ClientShape(k(h, s, t))
    BY <1>3, <1>4, Actors DEF CallRecord, ClientShape, ClientPc
  <1>6. /\ call' \in [Caller -> CallRecord] /\ call'[c] = k(h, s, t)
        /\ \A d \in Caller \ {c} : call'[d] = call[d]
    BY <1>2, <1>5, Begun DEF TypeInv
  <1>7. ClientShape(call[c])'
    BY <1>5, <1>6 DEF ClientShape
  <1>8. ShowsStored(call[c])'
    <2>1. call[t].pc = "issued" /\ t # c
      BY <1>1, <1>2 DEF Holds
    <2>2. call'[t].pc = "issued"
      BY <1>6, <2>1, Actors
    <2>3. QED
      BY <1>1, <1>6, <2>2 DEF ShowsStored
  <1>9. Shapes'
    BY <1>1, <1>6, <1>7, <1>8, ClientMoves
  <1>10. QED
    BY <1>1, <1>6, <1>9 DEF TypeInv, TypeOK

\* What a refresh does: the session's token is exchanged, or nothing happens.
LEMMA RefreshFacts ==
  ASSUME TypeInv, NEW c \in Caller, Refresh(c)
  PROVE  /\ c \in Client /\ call[c].pc = "refresh" /\ call[c].session \in Stored
         /\ UNCHANGED <<users, bindings, known>>
         /\ \/ /\ Exchangeable(call[c].session, call[c].token)
               /\ sessions' = [sessions EXCEPT ![call[c].session].token = c]
               /\ Goto(c, "revokeAll") \/ Answer(c, "issued")
            \/ Answer(c, "refused") /\ UNCHANGED sessions
  <1>1. c \in Client /\ call[c].pc = "refresh"
    BY Holders DEF Refresh, At
  <1>2. call[c].session \in Stored
    BY <1>1 DEF TypeInv, Shapes, ClientShape, ShowsStored
  <1>3. QED
    BY <1>1, <1>2 DEF Refresh

LEMMA RefreshType == ASSUME TypeInv, NEW c \in Caller, Refresh(c) PROVE TypeInv'
  <1>1. /\ c \in Client /\ call[c].pc = "refresh" /\ call[c].session \in Stored
        /\ UNCHANGED <<users, bindings, known>>
    BY RefreshFacts
  <1>2. "revokeAll" \in ClientPc /\ "issued" \in ClientPc /\ "refused" \in ClientPc
    BY DEF ClientPc
  <1>3. CASE /\ sessions' = [sessions EXCEPT ![call[c].session].token = c]
             /\ Goto(c, "revokeAll") \/ Answer(c, "issued")
    <2>1. sessions' \in [Client -> SessionRecord \cup {Absent}] /\ SessionsGrow /\ Stored' = Stored
      BY <1>1, <1>3, Exchanged DEF TypeInv
    <2>2. call' \in [Caller -> CallRecord] /\ Shapes'
      BY <1>1, <1>2, <1>3, <2>1, ClientSteps
    <2>3. QED
      BY <1>1, <2>1, <2>2 DEF TypeInv, TypeOK
  <1>4. CASE Answer(c, "refused") /\ UNCHANGED sessions
    <2>1. call' \in [Caller -> CallRecord] /\ Shapes'
      BY <1>1, <1>2, <1>4, ClientSteps, SessionsStay
    <2>2. QED
      BY <1>1, <1>4, <2>1 DEF TypeInv, TypeOK
  <1>5. QED
    BY <1>3, <1>4, RefreshFacts

LEMMA TouchType == ASSUME TypeInv, NEW c \in Caller, Touch(c) PROVE TypeInv'
  <1>1. /\ c \in Client /\ call[c].pc = "touch" /\ UNCHANGED <<users, sessions, bindings, known>>
    BY Holders DEF Touch, At
  <1>2. call[c].session # Absent
    BY <1>1 DEF TypeInv, Shapes, ClientShape
  <1>3. Goto(c, "read") \/ Answer(c, "refused")
    BY DEF Touch
  <1>4. call' \in [Caller -> CallRecord] /\ Shapes'
    <2>1. "read" \in ClientPc /\ "refused" \in ClientPc
      BY DEF ClientPc
    <2>2. QED
      BY <1>1, <1>2, <1>3, <2>1, ClientSteps, SessionsStay
  <1>5. QED
    BY <1>1, <1>4 DEF TypeInv, TypeOK

LEMMA ReadUserType == ASSUME TypeInv, NEW c \in Caller, ReadUser(c) PROVE TypeInv'
  <1>1. /\ c \in Client /\ call[c].pc = "read" /\ UNCHANGED <<users, sessions, bindings>>
        /\ call[c].host \in Host /\ call[c].user \in User
    BY Holders DEF ReadUser, At
  <1>2. call' \in [Caller -> CallRecord] /\ Shapes'
    <2>1. "accepted" \in ClientPc
      BY DEF ClientPc
    <2>2. QED
      BY <1>1, <2>1, ClientSteps, SessionsStay DEF ReadUser
  <1>3. known' \in [Host -> [User -> Rid \cup {None, Absent}]]
    BY <1>1 DEF ReadUser, Learns, TypeInv, TypeOK
  <1>4. QED
    BY <1>1, <1>2, <1>3 DEF TypeInv, TypeOK

LEMMA LogoutType == ASSUME TypeInv, NEW c \in Caller, Logout(c) PROVE TypeInv'
  <1>1. /\ c \in Client /\ call[c].pc = "logout" /\ UNCHANGED <<users, bindings, known>>
    BY Holders DEF Logout, At
  <1>2. call[c].session \in Stored
    BY <1>1 DEF TypeInv, Shapes, ClientShape, ShowsStored
  <1>3. sessions' \in [Client -> SessionRecord \cup {Absent}] /\ SessionsGrow /\ Stored' = Stored
    <2>1. sessions' = [sessions EXCEPT ![call[c].session].revoked = TRUE]
      BY DEF Logout
    <2>2. QED
      BY <1>1, <1>2, <2>1, Ended DEF TypeInv
  <1>4. call' \in [Caller -> CallRecord] /\ Shapes'
    <2>1. "done" \in ClientPc
      BY DEF ClientPc
    <2>2. QED
      BY <1>1, <1>3, <2>1, ClientSteps DEF Logout
  <1>5. QED
    BY <1>1, <1>3, <1>4 DEF TypeInv, TypeOK

\* Requests that are cut off.
LEMMA CutOffCalls ==
  ASSUME TypeInv, NEW cs \in SUBSET Caller, \A c \in cs : Underway(c), CutOff(cs)
  PROVE  /\ call' \in [Caller -> CallRecord]
         /\ \A c \in Caller \ cs : call'[c] = call[c]
         /\ \A c \in Admin \cap cs : call'[c] = NoCall
         /\ \A c \in Client \cap cs : /\ call'[c] = [call[c] EXCEPT !.pc = "cut"]
                                    /\ call[c].pc \notin {"idle", "issued"}
  <1>1. call' = [c \in Caller |-> IF c \notin cs THEN call[c]
                                 ELSE IF c \in Admin THEN NoCall ELSE [call[c] EXCEPT !.pc = "cut"]]
    BY DEF CutOff
  <1>2. \A c \in Caller : call[c] \in CallRecord /\ [call[c] EXCEPT !.pc = "cut"] \in CallRecord
    BY DEF TypeInv, TypeOK, CallRecord, ClientPc
  <1>3. call' \in [Caller -> CallRecord]
    BY <1>1, <1>2, NoCallShape
  <1>4. \A c \in cs : call[c].pc \notin {"idle", "issued"}
    BY DEF Underway
  <1>5. QED
    BY <1>1, <1>3, <1>4, Actors

LEMMA CutOffShapes ==
  ASSUME TypeInv, NEW cs \in SUBSET Caller, \A c \in cs : Underway(c), CutOff(cs),
         UNCHANGED sessions
  PROVE  call' \in [Caller -> CallRecord] /\ Shapes'
  <1>1. /\ call' \in [Caller -> CallRecord]
        /\ \A c \in Caller \ cs : call'[c] = call[c]
        /\ \A c \in Admin \cap cs : call'[c] = NoCall
        /\ \A c \in Client \cap cs : /\ call'[c] = [call[c] EXCEPT !.pc = "cut"]
                                   /\ call[c].pc \notin {"idle", "issued"}
    BY CutOffCalls
  <1>2. ASSUME NEW c \in Admin PROVE AdminShape(call[c])'
    <2>1. CASE c \in cs
      BY <1>1, <2>1, NoCallShape DEF AdminShape
    <2>2. CASE c \notin cs
      BY <1>1, <2>2, Actors DEF TypeInv, Shapes, AdminShape
    <2>3. QED
      BY <2>1, <2>2
  <1>3. \A t \in Client : call[t].pc = "issued" => call'[t] = call[t]
    BY <1>1, Actors
  <1>4. ASSUME NEW d \in Client PROVE ClientShape(call[d])' /\ ShowsStored(call[d])'
    <2>1. ClientShape(call[d]) /\ ShowsStored(call[d]) /\ call[d] \in CallRecord /\ d \in Caller
      BY Actors DEF TypeInv, TypeOK, Shapes
    <2>2. \/ call'[d] = call[d]
          \/ call'[d] = [call[d] EXCEPT !.pc = "cut"] /\ call[d].pc # "idle"
      BY <1>1, <2>1
    <2>3. /\ call'[d].session = call[d].session /\ call'[d].token = call[d].token
          /\ call'[d].user = call[d].user /\ call'[d].host = call[d].host
          /\ call'[d].pc = call[d].pc \/ (call'[d].pc = "cut" /\ call[d].pc # "idle")
      BY <2>1, <2>2 DEF CallRecord
    <2>4. ClientShape(call[d])'
      BY <2>1, <2>3 DEF ClientShape, ClientPc
    <2>5. ASSUME call'[d].session # Absent
          PROVE  /\ call'[d].session \in Stored' /\ sessions'[call'[d].session].user = call'[d].user
                 /\ call'[call'[d].token].pc = "issued"
      <3>1. call[d].token \in Client
        BY <2>1, <2>3, <2>5 DEF ClientShape, CallRecord
      <3>2. QED
        BY <1>3, <2>1, <2>3, <2>5, <3>1 DEF ShowsStored, Stored
    <2>6. QED
      BY <2>4, <2>5 DEF ShowsStored
  <1>5. \A s \in Stored' : call'[s].pc = "issued" /\ call'[s].session = Absent
    BY <1>3 DEF TypeInv, Shapes, Stored
  <1>6. QED
    BY <1>1, <1>2, <1>4, <1>5 DEF Shapes

LEMMA BreakIsCutOff ==
  ASSUME NEW c \in Caller, Break(c)
  PROVE  /\ {c} \in SUBSET Caller /\ (\A d \in {c} : Underway(d)) /\ CutOff({c})
         /\ UNCHANGED <<users, sessions, bindings, known>>
  BY DEF Break

LEMMA FailureType ==
  ASSUME TypeInv, (\E c \in Caller : Break(c)) \/ (\E h \in Host : Restart(h)) PROVE TypeInv'
  <1>1. ASSUME NEW c \in Caller, Break(c) PROVE TypeInv'
    <2>1. UNCHANGED <<users, sessions, bindings, known>>
      BY <1>1, BreakIsCutOff
    <2>2. call' \in [Caller -> CallRecord] /\ Shapes'
      BY <1>1, BreakIsCutOff, CutOffShapes
    <2>3. QED
      BY <2>1, <2>2 DEF TypeInv, TypeOK
  <1>2. ASSUME NEW h \in Host, Restart(h) PROVE TypeInv'
    <2>1. UNCHANGED <<users, sessions, bindings>> /\ known' = [known EXCEPT ![h] = users]
      BY <1>2 DEF Restart
    <2>2. call' \in [Caller -> CallRecord] /\ Shapes'
      <3> DEFINE cs == {c \in Caller : Underway(c) /\ call[c].host = h}
      <3>1. cs \in SUBSET Caller /\ (\A d \in cs : Underway(d)) /\ CutOff(cs)
        BY <1>2 DEF Restart
      <3>2. QED
        BY <2>1, <3>1, CutOffShapes
    <2>3. QED
      BY <2>1, <2>2 DEF TypeInv, TypeOK
  <1>3. QED
    BY <1>1, <1>2

LEMMA TypeInit == Init => TypeInv
  <1> SUFFICES ASSUME Init PROVE TypeInv
    OBVIOUS
  <1>1. /\ users = [u \in User |-> Absent] /\ sessions = [s \in Client |-> Absent]
        /\ bindings = [u \in User |-> Absent]
        /\ known = [h \in Host |-> [u \in User |-> Absent]]
        /\ call = [c \in Caller |-> NoCall]
    BY DEF Init
  <1>2. TypeOK
    BY <1>1, NoCallShape DEF TypeOK
  <1>3. Stored = {} /\ \A c \in Caller : call[c] = NoCall
    BY <1>1 DEF Stored
  <1>4. ClientShape(NoCall) /\ NoCall.session = Absent
    BY DEF ClientShape, NoCall, Call, ClientPc
  <1>5. Shapes
    BY <1>3, <1>4, NoCallShape, Actors DEF Shapes, ShowsStored
  <1>6. QED
    BY <1>2, <1>5 DEF TypeInv

LEMMA TypeStep == TypeInv /\ [Next]_vars => TypeInv'
  <1> SUFFICES ASSUME TypeInv, [Next]_vars PROVE TypeInv'
    OBVIOUS
  <1>1. CASE UNCHANGED vars
    BY <1>1 DEF vars, TypeInv, TypeOK, Shapes, Stored, ShowsStored, AdminShape, ClientShape
  <1>2. ASSUME NEW c \in Caller,
               \/ CreateUser(c) \/ BindRid(c) \/ UpdateUser(c) \/ RevokeAll(c)
               \/ LookUpBinding(c) \/ RecordBinding(c)
        PROVE  TypeInv'
    BY <1>2, CreateUserType, BindRidType, UpdateUserType, RevokeAllType, BindingType
  <1>3. ASSUME NEW c \in Caller,
               \/ Login(c) \/ InsertSession(c)
               \/ Arrive(c, "refresh") \/ Arrive(c, "touch") \/ Arrive(c, "logout")
               \/ Refresh(c) \/ Touch(c) \/ ReadUser(c) \/ Logout(c)
        PROVE  TypeInv'
    BY <1>3, LoginType, InsertSessionType, ArriveType, RefreshType, TouchType, ReadUserType,
       LogoutType
  <1>4. CASE (\E c \in Caller : Break(c)) \/ (\E h \in Host : Restart(h))
    BY <1>4, FailureType
  <1>5. QED
    BY <1>1, <1>2, <1>3, <1>4 DEF Next

LEMMA TypeInvHolds == Spec => []TypeInv
  <1>1. QED
    BY TypeInit, TypeStep, PTL DEF Spec

-------------------------------------------------------------------------------
(* A rid is bound once.  What a host knows, a record says and an administrator's *)
(* request is about to record is the rid the user has.                          *)

Recording == {"revokeAll", "lookup", "record"}

RidInv ==
  /\ \A h \in Host, u \in User : known[h][u] \in Rid => known[h][u] = users[u]
  /\ \A u \in User : bindings[u] # Absent => bindings[u] = users[u]
  /\ \A c \in Admin : call[c].pc \in Recording => call[c].rid = users[call[c].user]

BindsOnce ==
  \A u \in User :
    /\ users[u] \in Rid => users'[u] = users[u]
    /\ bindings'[u] \in {Absent, users'[u]}
    /\ bindings[u] # Absent => bindings'[u] = bindings[u]

\* Nobody's rid changes: hosts read, and administrators' requests go on.
LEMMA RidKept ==
  ASSUME TypeInv, RidInv, UNCHANGED <<users, bindings>>,
         \A h \in Host, u \in User : known'[h][u] = known[h][u] \/ known'[h][u] = users[u],
         \A c \in Admin : call'[c].pc \in Recording => call'[c].rid = users[call'[c].user]
  PROVE  RidInv' /\ BindsOnce
  BY DEF RidInv, BindsOnce

\* A user without a rid gets one, or is created with or without.
LEMMA Rebound ==
  ASSUME TypeInv, RidInv, NEW h \in Host, NEW u \in User, NEW r \in Rid \cup {None},
         users[u] \notin Rid,
         users' = [users EXCEPT ![u] = r], UNCHANGED bindings, Learns(h, u, r),
         NEW c \in Admin, \A d \in Caller \ {c} : call'[d] = call[d],
         call'[c] = call[c] \/ (call'[c].user = u /\ call'[c].rid = r)
  PROVE  RidInv' /\ BindsOnce
  <1>1. /\ users'[u] = r /\ \A v \in User \ {u} : users'[v] = users[v]
        /\ \A g \in Host, v \in User : known'[g][v] = IF g = h /\ v = u THEN r ELSE known[g][v]
    BY DEF TypeInv, TypeOK, Learns
  <1>2. bindings[u] = Absent /\ \A g \in Host : known[g][u] \notin Rid
    BY DEF RidInv, TypeInv, TypeOK
  <1>3. ASSUME NEW d \in Admin, call'[d].pc \in Recording
        PROVE  call'[d].rid = users'[call'[d].user]
    <2>1. CASE call'[d] = call[d]
      <3>1. call[d].rid \in Rid /\ call[d].user \in User /\ call[d].rid = users[call[d].user]
        BY <1>3, <2>1 DEF TypeInv, Shapes, AdminShape, RidInv, Recording
      <3>2. QED
        BY <1>1, <2>1, <3>1
    <2>2. CASE call'[d] # call[d]
      BY <1>1, <2>2, Actors
    <2>3. QED
      BY <2>1, <2>2
  <1>4. RidInv'
    BY <1>1, <1>2, <1>3 DEF RidInv
  <1>5. BindsOnce
    BY <1>1, <1>2 DEF BindsOnce, RidInv
  <1>6. QED
    BY <1>4, <1>5

LEMMA CreateUserRid == ASSUME TypeInv, RidInv, NEW c \in Caller, CreateUser(c) PROVE RidInv' /\ BindsOnce
  <1>1. PICK h \in Host, u \in User, rid \in Rid \cup {None} :
          /\ users[u] = Absent
          /\ users' = [users EXCEPT ![u] = rid]
          /\ Learns(h, u, rid)
          /\ call' = IF rid = None THEN call ELSE [call EXCEPT ![c] = Call("lookup", h, u, rid)]
    BY DEF CreateUser
  <1>2. c \in Admin /\ UNCHANGED bindings
    BY DEF CreateUser
  <1>3. /\ \A d \in Caller \ {c} : call'[d] = call[d]
        /\ call'[c] = call[c] \/ (call'[c].user = u /\ call'[c].rid = rid)
    BY <1>1 DEF TypeInv, TypeOK, Call
  <1>4. QED
    BY <1>1, <1>2, <1>3, Rebound, Actors

LEMMA UpdateUserRid == ASSUME TypeInv, RidInv, NEW c \in Caller, UpdateUser(c) PROVE RidInv' /\ BindsOnce
  <1>1. /\ c \in Admin /\ UNCHANGED bindings
        /\ call[c].host \in Host /\ call[c].user \in User /\ call[c].rid \in Rid
        /\ call[c] \in CallRecord
    BY Holders DEF UpdateUser, At, TypeInv, TypeOK
  <1>2. CASE MayBindTo(call[c].user)
    <2>1. PICK h \in Host, u \in User, r \in Rid :
            h = call[c].host /\ u = call[c].user /\ r = call[c].rid
      BY <1>1
    <2>2. /\ users' = [users EXCEPT ![u] = r] /\ Learns(h, u, r)
          /\ Goto(c, "revokeAll") /\ users[u] \notin Rid
      BY <1>2, <2>1, Actors DEF UpdateUser, AfterBinding, MayBindTo
    <2>3. /\ \A d \in Caller \ {c} : call'[d] = call[d]
          /\ call'[c] = [call[c] EXCEPT !.pc = "revokeAll"]
      BY <1>1, <2>2, GoneTo DEF TypeInv, AdminPc
    <2>4. call'[c].user = u /\ call'[c].rid = r
      BY <1>1, <2>1, <2>3 DEF CallRecord
    <2>5. /\ c \in Admin /\ r \in Rid \cup {None} /\ users[u] \notin Rid
          /\ users' = [users EXCEPT ![u] = r] /\ UNCHANGED bindings /\ Learns(h, u, r)
          /\ \A d \in Caller \ {c} : call'[d] = call[d]
          /\ call'[c] = call[c] \/ (call'[c].user = u /\ call'[c].rid = r)
      BY <1>1, <2>2, <2>3, <2>4
    <2>6. QED
      BY <2>5, Rebound
  <1>3. CASE ~MayBindTo(call[c].user)
    <2>1. Answer(c, "refused") /\ UNCHANGED <<users, known>>
      BY <1>3 DEF UpdateUser
    <2>2. call'[c] = NoCall /\ \A d \in Caller \ {c} : call'[d] = call[d]
      BY <1>1, <2>1, Answered DEF TypeInv, ClientPc
    <2>3. \A d \in Admin : call'[d].pc \in Recording => call'[d].rid = users[call'[d].user]
      BY <2>2, NoCallShape, Actors DEF RidInv, Recording
    <2>4. QED
      BY <1>1, <2>1, <2>3, RidKept
  <1>4. QED
    BY <1>2, <1>3

LEMMA BindRidRid == ASSUME TypeInv, RidInv, NEW c \in Caller, BindRid(c) PROVE RidInv' /\ BindsOnce
  <1>1. PICK h \in Host, u \in User, rid \in Rid :
          call' = [call EXCEPT ![c] =
                     Call(IF known[h][u] = rid THEN "lookup" ELSE "bind", h, u, rid)]
    BY DEF BindRid
  <1>2. c \in Admin /\ UNCHANGED <<users, bindings, known>>
    BY DEF BindRid
  <1>3. /\ \A d \in Caller \ {c} : call'[d] = call[d]
        /\ call'[c] = Call(IF known[h][u] = rid THEN "lookup" ELSE "bind", h, u, rid)
    BY <1>1 DEF TypeInv, TypeOK
  <1>4. ASSUME NEW d \in Admin, call'[d].pc \in Recording
        PROVE  call'[d].rid = users[call'[d].user]
    <2>1. CASE d = c
      <3>1. call'[d].rid = rid /\ call'[d].user = u /\ known[h][u] = rid
        BY <1>3, <1>4, <2>1 DEF Call, Recording
      <3>2. QED
        BY <3>1 DEF RidInv
    <2>2. CASE d # c
      BY <1>3, <1>4, <2>2, Actors DEF RidInv
    <2>3. QED
      BY <2>1, <2>2
  <1>5. QED
    BY <1>2, <1>4, RidKept

LEMMA BindingRid ==
  ASSUME TypeInv, RidInv, NEW c \in Caller, LookUpBinding(c) \/ RecordBinding(c) \/ RevokeAll(c)
  PROVE  RidInv' /\ BindsOnce
  <1>1. UNCHANGED <<users, known>> /\ call[c].pc \in Recording /\ call[c] \in CallRecord
    BY DEF LookUpBinding, RecordBinding, RevokeAll, At, Recording, TypeInv, TypeOK
  <1>2. \/ Goto(c, "record") \/ Answer(c, "done")
        \/ Goto(c, "lookup") \/ Answer(c, "refused")
    BY DEF LookUpBinding, RecordBinding, RevokeAll
  <1>3. /\ \A d \in Caller \ {c} : call'[d] = call[d]
        /\ c \in Admin =>
             call'[c] = NoCall \/ (call'[c].user = call[c].user /\ call'[c].rid = call[c].rid)
    <2>1. PICK pc \in AdminPc \cup ClientPc : Goto(c, pc) \/ Answer(c, pc)
      BY <1>2 DEF AdminPc, ClientPc
    <2>2. /\ \A d \in Caller \ {c} : call'[d] = call[d]
          /\ c \in Admin => call'[c] = NoCall \/ call'[c] = [call[c] EXCEPT !.pc = pc]
      BY <2>1, GoneTo, Answered DEF TypeInv
    <2>3. /\ [call[c] EXCEPT !.pc = pc].user = call[c].user
          /\ [call[c] EXCEPT !.pc = pc].rid = call[c].rid
      BY <1>1 DEF CallRecord
    <2>4. QED
      BY <2>2, <2>3
  <1>4. \A d \in Admin : call'[d].pc \in Recording => call'[d].rid = users[call'[d].user]
    BY <1>1, <1>3, NoCallShape, Actors DEF RidInv, Recording
  <1>5. CASE UNCHANGED bindings
    BY <1>1, <1>4, <1>5, RidKept
  <1>6. CASE RecordBinding(c) /\ bindings[call[c].user] = Absent
    <2>1. c \in Admin /\ call[c].user \in User /\ call[c].rid = users[call[c].user]
      BY <1>1, <1>6, Holders DEF RecordBinding, At, RidInv, Recording
    <2>2. bindings' = [bindings EXCEPT ![call[c].user] = call[c].rid]
      BY <1>6 DEF RecordBinding
    <2>3. \A u \in User : bindings'[u] = IF u = call[c].user THEN users[u] ELSE bindings[u]
      BY <2>1, <2>2 DEF TypeInv, TypeOK
    <2>4. QED
      BY <1>1, <1>4, <1>6, <2>3 DEF RidInv, BindsOnce
  <1>7. QED
    BY <1>5, <1>6 DEF LookUpBinding, RecordBinding, RevokeAll

\* Steps of clients: hosts learn, at most.
LEMMA ClientRid ==
  ASSUME TypeInv, RidInv, NEW c \in Caller,
         \/ Login(c) \/ InsertSession(c)
         \/ Arrive(c, "refresh") \/ Arrive(c, "touch") \/ Arrive(c, "logout")
         \/ Refresh(c) \/ Touch(c) \/ ReadUser(c) \/ Logout(c)
  PROVE  RidInv' /\ BindsOnce
  <1>1. UNCHANGED <<users, bindings>>
    BY DEF Login, InsertSession, Arrive, Refresh, Touch, ReadUser, Logout
  <1>2. c \in Client
    BY Holders DEF Login, InsertSession, Arrive, Refresh, Touch, ReadUser, Logout, At
  <1>3. UNCHANGED known \/ \E h \in Host, u \in User : Learns(h, u, users[u])
    <2>1. CASE Login(c)
      BY <2>1 DEF Login
    <2>2. CASE ReadUser(c)
      <3>1. call[c].host \in Host /\ call[c].user \in User
        BY <2>2, Holders DEF ReadUser, At
      <3>2. QED
        BY <2>2, <3>1 DEF ReadUser
    <2>3. CASE ~Login(c) /\ ~ReadUser(c)
      BY <2>3 DEF InsertSession, Arrive, Refresh, Touch, Logout
    <2>4. QED
      BY <2>1, <2>2, <2>3
  <1>4. \A h \in Host, u \in User : known'[h][u] = known[h][u] \/ known'[h][u] = users[u]
    BY <1>3 DEF Learns, TypeInv, TypeOK
  <1>5. \A d \in Admin : call'[d] = call[d]
    <2>2. \E k : call' = [call EXCEPT ![c] = k]
      <3>1. CASE Login(c) \/ Arrive(c, "refresh") \/ Arrive(c, "touch") \/ Arrive(c, "logout")
        BY <3>1 DEF Login, Arrive
      <3>2. CASE InsertSession(c) \/ Refresh(c) \/ Touch(c) \/ ReadUser(c) \/ Logout(c)
        <4>1. \E pc : Goto(c, pc) \/ Answer(c, pc)
          BY <3>2 DEF InsertSession, Refresh, Touch, ReadUser, Logout
        <4>2. QED
          BY <4>1 DEF Goto, Answer
      <3>3. QED
        BY <3>1, <3>2
    <2>3. QED
      BY <1>2, <2>2, Actors DEF TypeInv, TypeOK
  <1>6. \A d \in Admin : call'[d].pc \in Recording => call'[d].rid = users[call'[d].user]
    BY <1>5 DEF RidInv
  <1>7. QED
    BY <1>1, <1>4, <1>6, RidKept

LEMMA FailureRid ==
  ASSUME TypeInv, RidInv, (\E c \in Caller : Break(c)) \/ (\E h \in Host : Restart(h))
  PROVE  RidInv' /\ BindsOnce
  <1>1. ASSUME NEW cs \in SUBSET Caller, \A c \in cs : Underway(c), CutOff(cs)
        PROVE  \A d \in Admin : call'[d].pc \in Recording => call'[d].rid = users[call'[d].user]
    <2>1. /\ \A c \in Caller \ cs : call'[c] = call[c]
          /\ \A c \in Admin \cap cs : call'[c] = NoCall
      BY <1>1, CutOffCalls
    <2>2. QED
      BY <2>1, NoCallShape, Actors DEF RidInv, Recording
  <1>2. ASSUME NEW c \in Caller, Break(c) PROVE RidInv' /\ BindsOnce
    <2>1. UNCHANGED <<users, sessions, bindings, known>>
      BY <1>2, BreakIsCutOff
    <2>2. \A d \in Admin : call'[d].pc \in Recording => call'[d].rid = users[call'[d].user]
      BY <1>1, <1>2, BreakIsCutOff
    <2>3. QED
      BY <2>1, <2>2, RidKept
  <1>3. ASSUME NEW h \in Host, Restart(h) PROVE RidInv' /\ BindsOnce
    <2> DEFINE cs == {c \in Caller : Underway(c) /\ call[c].host = h}
    <2>1. cs \in SUBSET Caller /\ (\A d \in cs : Underway(d)) /\ CutOff(cs)
      BY <1>3 DEF Restart
    <2>2. \A d \in Admin : call'[d].pc \in Recording => call'[d].rid = users[call'[d].user]
      BY <1>1, <2>1
    <2>3. UNCHANGED <<users, bindings>> /\ known' = [known EXCEPT ![h] = users]
      BY <1>3 DEF Restart
    <2>4. \A g \in Host, u \in User : known'[g][u] = known[g][u] \/ known'[g][u] = users[u]
      BY <2>3 DEF TypeInv, TypeOK
    <2>5. QED
      BY <2>2, <2>3, <2>4, RidKept
  <1>4. QED
    BY <1>2, <1>3

LEMMA RidStep ==
  ASSUME TypeInv, RidInv, [Next]_vars
  PROVE  RidInv' /\ (BindsOnce \/ UNCHANGED <<users, bindings>>)
  <1>1. CASE UNCHANGED vars
    BY <1>1 DEF vars, RidInv
  <1>2. CASE Next
    BY <1>2, CreateUserRid, BindRidRid, UpdateUserRid, BindingRid, ClientRid, FailureRid DEF Next
  <1>3. QED
    BY <1>1, <1>2

\* A user's rid never changes once it is bound, whichever hosts administrators
\* ask, and the binding on record is of that rid and stays.
THEOREM RidsAreBoundOnce == Spec => RidIsBoundOnce
  <1>1. Init => RidInv
    <2>1. ASSUME Init PROVE RidInv
      <3>1. \A c \in Admin : call[c].pc = "idle"
        BY <2>1, NoCallShape, Actors DEF Init
      <3>2. QED
        BY <2>1, <3>1, Actors DEF Init, RidInv, Recording
    <2>2. QED
      BY <2>1
  <1>2. TypeInv /\ RidInv /\ [Next]_vars
          => RidInv' /\ (BindsOnce \/ UNCHANGED <<users, bindings>>)
    BY RidStep
  <1>3. Spec => []RidInv
    BY <1>1, <1>2, TypeInvHolds, PTL DEF Spec
  <1>4. TypeInv /\ RidInv /\ [Next]_vars
          => [\A u \in User :
                /\ users[u] \in Rid => users'[u] = users[u]
                /\ bindings'[u] \in {Absent, users'[u]}
                /\ bindings[u] # Absent => bindings'[u] = bindings[u]]_<<users, bindings>>
    BY RidStep DEF BindsOnce
  <1>5. QED
    BY <1>3, <1>4, TypeInvHolds, PTL DEF Spec, RidIsBoundOnce

-------------------------------------------------------------------------------
(* Ended sessions serve nobody.  The token of a stored session was handed out by *)
(* the login that stored it, or by the last refresh of it; a token that was      *)
(* exchanged is no session's any more.                                           *)

TokensAreHandedOut ==
  \A s \in Stored :
    /\ call[sessions[s].token].pc \notin {"idle", "insert", "refresh"}
    /\ sessions[s].token = s \/ call[sessions[s].token].session = s

SpentTokensAreGone ==
  \A c \in Client, s \in Stored :
    Issued(c) /\ call[c].token # Absent => sessions[s].token # call[c].token

SpentOnce ==
  \A c, d \in Client :
    Issued(c) /\ Issued(d) /\ c # d /\ call[c].token # Absent => call[c].token # call[d].token

LateMeansRevoked ==
  \A c \in Client : ~call[c].arrived => call[c].session \in Stored /\ ~Live(call[c].session)

ServedCameInTime ==
  \A c \in Client : call[c].pc \in {"accepted", "issued", "read"} => call[c].arrived

TokenInv ==
  TokensAreHandedOut /\ SpentTokensAreGone /\ SpentOnce /\ LateMeansRevoked /\ ServedCameInTime

LEMMA StoredIsTyped ==
  ASSUME TypeOK, NEW s \in Stored
  PROVE  s \in Client /\ s \in Caller /\ sessions[s] \in SessionRecord /\ sessions[s].token \in Client
         /\ sessions[s].user \in User /\ (Live(s) <=> ~sessions[s].revoked)
  BY Actors DEF TypeOK, Stored, SessionRecord, Live

LEMMA TokensAreUnique ==
  ASSUME TypeInv, TokensAreHandedOut, NEW s \in Stored, NEW t \in Stored,
         sessions[s].token = sessions[t].token
  PROVE  s = t
  <1>1. /\ s \in Client /\ t \in Client
        /\ call[s].session = Absent /\ call[t].session = Absent
    BY DEF TypeInv, Shapes, Stored
  <1>2. QED
    BY <1>1, Actors DEF TokensAreHandedOut

\* What a client's request may do, beside storing a session or exchanging a token.
Goes(c) ==
  /\ call[c].pc # "idle"
  /\ call'[c].session = call[c].session /\ call'[c].token = call[c].token
  /\ call'[c].arrived = call[c].arrived
  /\ call'[c].pc \notin {"idle", "insert", "refresh", "issued"}
  /\ call'[c].pc \in {"accepted", "read"} => call[c].pc = "read" \/ Live(call[c].session)

Begins(c) ==
  /\ call[c].pc = "idle" /\ call'[c].pc \in {"insert", "refresh", "touch", "logout"}
  /\ ~call'[c].arrived => call'[c].session \in Stored /\ ~Live(call'[c].session)

LEMMA TokensKept ==
  ASSUME TypeInv, TokenInv, TypeOK', SessionsGrow, Stored' = Stored,
         \A s \in Stored : sessions'[s].token = sessions[s].token,
         \A c \in Client : call'[c] = call[c] \/ Goes(c) \/ Begins(c)
  PROVE  TokenInv'
  <1>1. ASSUME NEW s \in Stored
        PROVE  /\ call'[sessions'[s].token].pc \notin {"idle", "insert", "refresh"}
               /\ sessions'[s].token = s \/ call'[sessions'[s].token].session = s
    <2>1. sessions[s].token \in Client
      BY StoredIsTyped DEF TypeInv
    <2>2. QED
      BY <2>1 DEF TokenInv, TokensAreHandedOut, Goes, Begins
  <1>2. TokensAreHandedOut'
    BY <1>1 DEF TokensAreHandedOut
  <1>3. \A c \in Client : Issued(c)' => Issued(c) /\ call'[c] = call[c]
    BY DEF Issued, Goes, Begins
  <1>4. SpentTokensAreGone' /\ SpentOnce'
    BY <1>3 DEF TokenInv, SpentTokensAreGone, SpentOnce
  <1>5. \A s \in Stored : ~Live(s) => ~Live(s)'
    <2> SUFFICES ASSUME NEW s \in Stored, ~Live(s) PROVE ~Live(s)'
      OBVIOUS
    <2>1. sessions[s].revoked
      BY StoredIsTyped DEF TypeInv
    <2>2. QED
      BY <2>1 DEF SessionsGrow, Live
  <1>6. ASSUME NEW c \in Client, ~call'[c].arrived
        PROVE  call'[c].session \in Stored /\ ~Live(call'[c].session)
    BY <1>6 DEF TokenInv, LateMeansRevoked, Goes, Begins
  <1>7. LateMeansRevoked'
    BY <1>5, <1>6 DEF LateMeansRevoked, Live
  <1>8. ASSUME NEW c \in Client, call'[c].pc \in {"accepted", "issued", "read"}
        PROVE  call'[c].arrived
    BY <1>8 DEF TokenInv, LateMeansRevoked, ServedCameInTime, Goes, Begins
  <1>9. ServedCameInTime'
    BY <1>8 DEF ServedCameInTime
  <1>10. QED
    BY <1>2, <1>4, <1>7, <1>9 DEF TokenInv

LEMMA RefreshTokens ==
  ASSUME TypeInv, TokenInv, NEW c \in Client, call[c].pc = "refresh",
         Exchangeable(call[c].session, call[c].token),
         sessions' = [sessions EXCEPT ![call[c].session].token = c],
         Goto(c, "revokeAll") \/ Answer(c, "issued")
  PROVE  TokenInv'
  <1> DEFINE s == call[c].session
             t == call[c].token
  <1>1. /\ s \in Stored /\ s \in Client /\ sessions[s].token = t /\ Live(s) /\ ~sessions[s].revoked
        /\ t \in Client /\ call[t].pc = "issued" /\ t # c /\ s # c
    <2>1. s \in Stored /\ call[t].pc = "issued"
      BY DEF TypeInv, Shapes, ClientShape, ShowsStored
    <2>2. s \in Client /\ call[s].pc = "issued"
      BY <2>1 DEF TypeInv, Shapes, Stored
    <2>3. QED
      BY <2>1, <2>2, StoredIsTyped DEF Exchangeable, TypeInv
  <1>2. /\ SessionsGrow /\ Stored' = Stored /\ sessions'[s].token = c
        /\ sessions'[s].revoked = sessions[s].revoked
        /\ \A q \in Stored \ {s} : sessions'[q] = sessions[q]
    BY <1>1, Exchanged DEF TypeInv
  <1>3. PICK pc \in {"revokeAll", "issued"} :
          /\ call'[c] = [call[c] EXCEPT !.pc = pc]
          /\ \A d \in Caller \ {c} : call'[d] = call[d]
    <2>1. "revokeAll" \in ClientPc \ {"insert"} /\ "issued" \in ClientPc \ {"insert"}
      BY DEF ClientPc
    <2>2. QED
      BY <1>2, <2>1, ClientSteps
  <1>4. /\ call'[c].pc \in {"revokeAll", "issued"} /\ call'[c].session = s /\ call'[c].token = t
        /\ call'[c].arrived = call[c].arrived
    BY <1>3, Actors DEF TypeInv, TypeOK, CallRecord
  <1>5. \A d \in Client \ {c} : call'[d] = call[d]
    BY <1>3, Actors
  <1>6. ASSUME NEW q \in Stored
        PROVE  /\ call'[sessions'[q].token].pc \notin {"idle", "insert", "refresh"}
               /\ sessions'[q].token = q \/ call'[sessions'[q].token].session = q
    <2>1. CASE q = s
      BY <1>2, <1>4, <2>1
    <2>2. CASE q # s
      <3>1. sessions[q].token \in Client /\ sessions'[q].token = sessions[q].token
        BY <1>2, <2>2, StoredIsTyped DEF TypeInv
      <3>2. sessions[q].token # c
        BY <3>1 DEF TokenInv, TokensAreHandedOut
      <3>3. QED
        BY <1>5, <3>1, <3>2 DEF TokenInv, TokensAreHandedOut
    <2>3. QED
      BY <2>1, <2>2
  <1>7. ASSUME NEW d \in Client, d # c, call[d].token # Absent
        PROVE  call[d].token # c
    BY <1>7 DEF TypeInv, Shapes, ClientShape, ShowsStored
  <1>8. ASSUME NEW q \in Stored, q # s PROVE sessions'[q].token # t
    <2>1. sessions'[q].token = sessions[q].token
      BY <1>2, <1>8
    <2>2. QED
      BY <1>1, <1>8, <2>1, TokensAreUnique DEF TokenInv
  <1>9. ASSUME NEW d \in Client, NEW q \in Stored, call'[d].pc = "issued", call'[d].token # Absent
        PROVE  sessions'[q].token # call'[d].token
    <2>1. CASE d = c
      BY <1>1, <1>2, <1>4, <1>8, <2>1
    <2>2. CASE d # c
      <3>1. call'[d] = call[d]
        BY <1>5, <2>2
      <3>2. sessions[q].token # call[d].token /\ call[d].token # c
        BY <1>7, <1>9, <2>2, <3>1 DEF TokenInv, SpentTokensAreGone, Issued
      <3>3. QED
        BY <1>2, <3>1, <3>2
    <2>3. QED
      BY <2>1, <2>2
  <1>10. ASSUME NEW d \in Client, NEW e \in Client, d # e, call'[d].pc = "issued",
                call'[e].pc = "issued", call'[d].token # Absent
         PROVE  call'[d].token # call'[e].token
    <2>1. ASSUME NEW f \in Client, f # c, call[f].pc = "issued", call[f].token # Absent
          PROVE  call[f].token # t
      BY <1>1, <2>1 DEF TokenInv, SpentTokensAreGone, Issued
    <2>2. CASE d # c /\ e # c
      BY <1>5, <1>10, <2>2 DEF TokenInv, SpentOnce, Issued
    <2>3. CASE d = c \/ e = c
      BY <1>1, <1>4, <1>5, <1>10, <2>1, <2>3, Actors
    <2>4. QED
      BY <2>2, <2>3
  <1>11. call[c].arrived
    BY <1>1 DEF TokenInv, LateMeansRevoked
  <1>12. ASSUME NEW d \in Client, ~call'[d].arrived
         PROVE  /\ call'[d].session \in Stored'
                /\ ~(sessions'[call'[d].session] # Absent /\ ~sessions'[call'[d].session].revoked)
    <2>1. d # c
      BY <1>4, <1>11, <1>12
    <2>2. call[d].session \in Stored /\ ~Live(call[d].session)
      BY <1>5, <1>12, <2>1 DEF TokenInv, LateMeansRevoked
    <2>3. sessions'[call[d].session] = sessions[call[d].session]
      BY <1>1, <1>2, <2>2
    <2>4. QED
      BY <1>2, <1>5, <2>1, <2>2, <2>3 DEF Live
  <1>13. ASSUME NEW d \in Client, call'[d].pc \in {"accepted", "issued", "read"}
         PROVE  call'[d].arrived
    BY <1>4, <1>5, <1>11, <1>13 DEF TokenInv, ServedCameInTime
  <1>14. TokensAreHandedOut'
    BY <1>2, <1>6 DEF TokensAreHandedOut
  <1>15. SpentTokensAreGone' /\ SpentOnce'
    BY <1>2, <1>9, <1>10 DEF SpentTokensAreGone, SpentOnce, Issued
  <1>16. LateMeansRevoked' /\ ServedCameInTime'
    BY <1>12, <1>13 DEF LateMeansRevoked, ServedCameInTime, Live
  <1>17. QED
    BY <1>14, <1>15, <1>16 DEF TokenInv

LEMMA InsertTokens == ASSUME TypeInv, TokenInv, NEW c \in Caller, InsertSession(c) PROVE TokenInv'
  <1>1. /\ c \in Client /\ c \notin Stored /\ call[c].session = Absent
        /\ call[c].pc = "insert" /\ call[c].user \in User
        /\ Stored' = Stored \cup {c} /\ \A s \in Stored : sessions'[s] = sessions[s]
        /\ sessions'[c] = Session(call[c].user, c)
        /\ call'[c] = [call[c] EXCEPT !.pc = "issued"]
        /\ \A d \in Caller \ {c} : call'[d] = call[d]
    BY InsertSessionFacts
  <1>2. /\ call'[c].pc = "issued" /\ call'[c].session = Absent /\ call'[c].token = call[c].token
        /\ call'[c].arrived = call[c].arrived
    BY <1>1 DEF TypeInv, TypeOK, CallRecord
  <1>3. call[c].token = Absent
    BY <1>1 DEF TypeInv, Shapes, ClientShape
  <1>4. call[c].arrived
    BY <1>1, Actors DEF TokenInv, LateMeansRevoked, Stored
  <1>5. \A d \in Client \ {c} : call'[d] = call[d]
    BY <1>1, Actors
  <1>6. sessions'[c].token = c
    BY <1>1 DEF Session
  <1>7. ASSUME NEW d \in Client, call[d].token # Absent PROVE call[d].token # c
    BY <1>1, <1>7 DEF TypeInv, Shapes, ClientShape, ShowsStored
  <1>8. ASSUME NEW s \in Stored
        PROVE  sessions'[s].token = sessions[s].token /\ sessions[s].token \in Client \ {c}
    <2>1. sessions[s].token \in Client
      BY StoredIsTyped DEF TypeInv
    <2>2. sessions[s].token # c
      BY <1>1 DEF TokenInv, TokensAreHandedOut
    <2>3. QED
      BY <1>1, <2>1, <2>2
  <1>9. TokensAreHandedOut'
    <2> SUFFICES ASSUME NEW s \in Stored'
                 PROVE  /\ call'[sessions'[s].token].pc \notin {"idle", "insert", "refresh"}
                        /\ sessions'[s].token = s \/ call'[sessions'[s].token].session = s
      BY DEF TokensAreHandedOut
    <2>1. CASE s = c
      BY <1>2, <1>6, <2>1
    <2>2. CASE s \in Stored
      BY <1>5, <1>8, <2>2 DEF TokenInv, TokensAreHandedOut
    <2>3. QED
      BY <1>1, <2>1, <2>2
  <1>10. ASSUME NEW d \in Client, NEW s \in Stored', call'[d].pc = "issued", call'[d].token # Absent
         PROVE  sessions'[s].token # call'[d].token
    <2>1. d # c /\ call'[d] = call[d]
      BY <1>2, <1>3, <1>5, <1>10
    <2>2. CASE s = c
      BY <1>6, <1>7, <1>10, <2>1, <2>2
    <2>3. CASE s \in Stored
      BY <1>8, <1>10, <2>1, <2>3 DEF TokenInv, SpentTokensAreGone, Issued
    <2>4. QED
      BY <1>1, <2>2, <2>3
  <1>11. ASSUME NEW d \in Client, NEW e \in Client, d # e, call'[d].pc = "issued",
                call'[e].pc = "issued", call'[d].token # Absent
         PROVE  call'[d].token # call'[e].token
    BY <1>2, <1>3, <1>5, <1>11 DEF TokenInv, SpentOnce, Issued
  <1>12. ASSUME NEW d \in Client, ~call'[d].arrived
         PROVE  /\ call'[d].session \in Stored'
                /\ ~(sessions'[call'[d].session] # Absent /\ ~sessions'[call'[d].session].revoked)
    <2>1. call'[d] = call[d] /\ ~call[d].arrived
      BY <1>2, <1>4, <1>5, <1>12
    <2>2. QED
      BY <1>1, <2>1 DEF TokenInv, LateMeansRevoked, Live
  <1>13. ASSUME NEW d \in Client, call'[d].pc \in {"accepted", "issued", "read"}
         PROVE  call'[d].arrived
    BY <1>2, <1>4, <1>5, <1>13 DEF TokenInv, ServedCameInTime
  <1>14. QED
    BY <1>9, <1>10, <1>11, <1>12, <1>13
       DEF TokenInv, SpentTokensAreGone, SpentOnce, LateMeansRevoked, ServedCameInTime, Issued, Live

\* What each request of a client does to itself and to the others.
LEMMA OthersStay ==
  ASSUME TypeInv, NEW c \in Caller,
         \/ CreateUser(c) \/ BindRid(c) \/ UpdateUser(c) \/ RevokeAll(c)
         \/ LookUpBinding(c) \/ RecordBinding(c)
         \/ Login(c) \/ InsertSession(c)
         \/ Arrive(c, "refresh") \/ Arrive(c, "touch") \/ Arrive(c, "logout")
         \/ Refresh(c) \/ Touch(c) \/ ReadUser(c) \/ Logout(c)
  PROVE  \A d \in Caller \ {c} : call'[d] = call[d]
  <1>1. \E k : call' = [call EXCEPT ![c] = k]
    <2>1. CASE \/ CreateUser(c) \/ BindRid(c) \/ Login(c)
              \/ Arrive(c, "refresh") \/ Arrive(c, "touch") \/ Arrive(c, "logout")
      <3>1. call = [call EXCEPT ![c] = call[c]]
        BY DEF TypeInv, TypeOK
      <3>2. QED
        BY <2>1, <3>1 DEF CreateUser, BindRid, Login, Arrive
    <2>2. CASE \/ UpdateUser(c) \/ RevokeAll(c) \/ LookUpBinding(c) \/ RecordBinding(c)
              \/ InsertSession(c) \/ Refresh(c) \/ Touch(c) \/ ReadUser(c) \/ Logout(c)
      <3>1. \E pc : Goto(c, pc) \/ Answer(c, pc)
        BY <2>2 DEF UpdateUser, RevokeAll, LookUpBinding, RecordBinding, InsertSession, Refresh,
                    Touch, ReadUser, Logout
      <3>2. QED
        BY <3>1 DEF Goto, Answer
    <2>3. QED
      BY <2>1, <2>2
  <1>2. QED
    BY <1>1 DEF TypeInv, TypeOK

\* A client's request that goes on as Goto or Answer says.
LEMMA GoesOn ==
  ASSUME TypeInv, NEW c \in Client, call[c].pc # "idle",
         NEW pc \in ClientPc \ {"idle", "insert", "refresh", "issued"},
         pc \in {"accepted", "read"} => call[c].pc = "read" \/ Live(call[c].session),
         Goto(c, pc) \/ Answer(c, pc)
  PROVE  Goes(c) /\ call'[c].pc = pc
  <1>1. c \in Caller /\ c \notin Admin /\ call[c] \in CallRecord
    BY Actors DEF TypeInv, TypeOK
  <1>2. call'[c] = [call[c] EXCEPT !.pc = pc]
    BY <1>1, GoneTo, Answered DEF TypeInv
  <1>3. /\ call'[c].pc = pc /\ call'[c].session = call[c].session /\ call'[c].token = call[c].token
        /\ call'[c].arrived = call[c].arrived
    BY <1>1, <1>2 DEF CallRecord
  <1>4. QED
    BY <1>3 DEF Goes

LEMMA ClientTokens ==
  ASSUME TypeInv, TypeOK', TokenInv, NEW c \in Caller,
         \/ Login(c) \/ InsertSession(c)
         \/ Arrive(c, "refresh") \/ Arrive(c, "touch") \/ Arrive(c, "logout")
         \/ Refresh(c) \/ Touch(c) \/ ReadUser(c) \/ Logout(c)
  PROVE  TokenInv'
  <1>1. c \in Client
    BY Holders DEF Login, InsertSession, Arrive, Refresh, Touch, ReadUser, Logout, At
  <1>2. \A d \in Client \ {c} : call'[d] = call[d]
    BY OthersStay, Actors
  <1>3. ASSUME UNCHANGED sessions, Goes(c) \/ Begins(c) PROVE TokenInv'
    BY <1>2, <1>3, SessionsStay, TokensKept
  <1>4. {"accepted", "read", "refused", "done"} \subseteq ClientPc
    BY DEF ClientPc
  <1>5. CASE Login(c)
    <2>1. call[c].pc = "idle" /\ UNCHANGED sessions
      BY <1>5 DEF Login, Idle
    <2>2. PICK h \in Host, u \in User : call' = [call EXCEPT ![c] = Call("insert", h, u, None)]
      BY <1>5 DEF Login
    <2>3. call'[c] = Call("insert", h, u, None)
      BY <2>2 DEF TypeInv, TypeOK
    <2>4. QED
      BY <1>3, <2>1, <2>3 DEF Begins, Call
  <1>6. ASSUME NEW pc \in {"refresh", "touch", "logout"}, Arrive(c, pc) PROVE TokenInv'
    <2>1. call[c].pc = "idle" /\ UNCHANGED sessions
      BY <1>6 DEF Arrive, Idle
    <2> DEFINE k(h, s, t) == [pc |-> pc, host |-> h, user |-> sessions[s].user, rid |-> None,
                              session |-> s, token |-> t, arrived |-> Live(s)]
    <2>2. PICK h \in Host, t \in Client, s \in Stored : call' = [call EXCEPT ![c] = k(h, s, t)]
      BY <1>6 DEF Arrive
    <2>3. call'[c] = k(h, s, t)
      BY <2>2 DEF TypeInv, TypeOK
    <2>4. call'[c].pc = pc /\ call'[c].session = s /\ (~call'[c].arrived => ~Live(s))
      BY <2>3
    <2>5. QED
      BY <1>3, <2>1, <2>4 DEF Begins
  <1>7. CASE InsertSession(c)
    BY <1>7, InsertTokens
  <1>8. CASE Refresh(c)
    <2>1. call[c].pc = "refresh"
      BY <1>8, RefreshFacts
    <2>2. CASE /\ Exchangeable(call[c].session, call[c].token)
               /\ sessions' = [sessions EXCEPT ![call[c].session].token = c]
               /\ Goto(c, "revokeAll") \/ Answer(c, "issued")
      BY <1>1, <2>1, <2>2, RefreshTokens
    <2>3. CASE Answer(c, "refused") /\ UNCHANGED sessions
      <3>1. Goes(c)
        BY <1>1, <1>4, <2>1, <2>3, GoesOn
      <3>2. QED
        BY <1>3, <2>3, <3>1
    <2>4. QED
      BY <1>8, <2>2, <2>3, RefreshFacts
  <1>9. CASE Touch(c) \/ ReadUser(c)
    <2>1. UNCHANGED sessions /\ call[c].pc \in {"touch", "read"}
      BY <1>9 DEF Touch, ReadUser, At
    <2>2. PICK pc \in {"accepted", "read", "refused"} :
            /\ Goto(c, pc) \/ Answer(c, pc)
            /\ pc \in {"accepted", "read"} => call[c].pc = "read" \/ Live(call[c].session)
      BY <1>9 DEF Touch, ReadUser, At
    <2>3. Goes(c)
      BY <1>1, <1>4, <2>1, <2>2, GoesOn
    <2>4. QED
      BY <1>3, <2>1, <2>3
  <1>10. CASE Logout(c)
    <2>1. call[c].pc = "logout" /\ Answer(c, "done")
          /\ sessions' = [sessions EXCEPT ![call[c].session].revoked = TRUE]
      BY <1>10 DEF Logout, At
    <2>2. Goes(c)
      BY <1>1, <1>4, <2>1, GoesOn
    <2>3. call[c].session \in Stored
      BY <1>1, <2>1 DEF TypeInv, Shapes, ClientShape, ShowsStored
    <2>4. /\ SessionsGrow /\ Stored' = Stored
          /\ \A s \in Stored : sessions'[s].token = sessions[s].token
      BY <2>1, <2>3, Ended DEF TypeInv
    <2>5. QED
      BY <1>2, <2>2, <2>4, TokensKept
  <1>11. QED
    BY <1>5, <1>6, <1>7, <1>8, <1>9, <1>10

LEMMA AdminTokens ==
  ASSUME TypeInv, TypeOK', TokenInv, NEW c \in Caller,
         \/ CreateUser(c) \/ BindRid(c) \/ UpdateUser(c) \/ RevokeAll(c)
         \/ LookUpBinding(c) \/ RecordBinding(c)
  PROVE  TokenInv'
  <1>1. \A d \in Caller \ {c} : call'[d] = call[d]
    BY OthersStay
  <1>2. CASE RevokeAll(c)
    <2>1. /\ SessionsGrow /\ Stored' = Stored
          /\ \A s \in Stored : sessions'[s].token = sessions[s].token
      BY <1>2, Revoked DEF RevokeAll, TypeInv
    <2>2. ASSUME c \in Client PROVE Goes(c)
      <3>1. Answer(c, "refused") /\ call[c].pc = "revokeAll"
        BY <1>2, <2>2, Actors DEF RevokeAll, At
      <3>2. QED
        BY <2>2, <3>1, GoesOn DEF ClientPc
    <2>3. \A d \in Client : call'[d] = call[d] \/ Goes(d) \/ Begins(d)
      BY <1>1, <2>2, Actors
    <2>4. QED
      BY <2>1, <2>3, TokensKept
  <1>3. CASE ~RevokeAll(c)
    <2>1. UNCHANGED sessions /\ c \in Admin
      BY <1>3, Holders DEF CreateUser, BindRid, UpdateUser, LookUpBinding, RecordBinding, At
    <2>2. \A d \in Client : call'[d] = call[d]
      BY <1>1, <2>1, Actors
    <2>3. QED
      BY <2>1, <2>2, SessionsStay, TokensKept
  <1>4. QED
    BY <1>2, <1>3

LEMMA FailureTokens ==
  ASSUME TypeInv, TypeOK', TokenInv, (\E c \in Caller : Break(c)) \/ (\E h \in Host : Restart(h))
  PROVE  TokenInv'
  <1>1. ASSUME NEW cs \in SUBSET Caller, \A c \in cs : Underway(c), CutOff(cs), UNCHANGED sessions
        PROVE  TokenInv'
    <2>1. /\ \A c \in Caller \ cs : call'[c] = call[c]
          /\ \A c \in Client \cap cs : /\ call'[c] = [call[c] EXCEPT !.pc = "cut"]
                                     /\ call[c].pc \notin {"idle", "issued"}
      BY <1>1, CutOffCalls
    <2>2. ASSUME NEW c \in Client PROVE call'[c] = call[c] \/ Goes(c)
      <3>1. c \in Caller /\ call[c] \in CallRecord
        BY Actors DEF TypeInv, TypeOK
      <3>2. CASE c \in cs
        <4>1. call'[c] = [call[c] EXCEPT !.pc = "cut"] /\ call[c].pc # "idle"
          BY <2>1, <3>2
        <4>2. /\ call'[c].pc = "cut" /\ call'[c].session = call[c].session
              /\ call'[c].token = call[c].token /\ call'[c].arrived = call[c].arrived
          BY <3>1, <4>1 DEF CallRecord
        <4>3. QED
          BY <4>1, <4>2 DEF Goes
      <3>3. CASE c \notin cs
        BY <2>1, <3>1, <3>3
      <3>4. QED
        BY <3>2, <3>3
    <2>3. QED
      BY <1>1, <2>2, SessionsStay, TokensKept
  <1>2. ASSUME NEW c \in Caller, Break(c) PROVE TokenInv'
    BY <1>1, <1>2, BreakIsCutOff
  <1>3. ASSUME NEW h \in Host, Restart(h) PROVE TokenInv'
    <2> DEFINE cs == {c \in Caller : Underway(c) /\ call[c].host = h}
    <2>1. cs \in SUBSET Caller /\ (\A d \in cs : Underway(d)) /\ CutOff(cs) /\ UNCHANGED sessions
      BY <1>3 DEF Restart
    <2>2. QED
      BY <1>1, <2>1
  <1>4. QED
    BY <1>2, <1>3

LEMMA TokenStep == TypeInv /\ TypeInv' /\ TokenInv /\ [Next]_vars => TokenInv'
  <1> SUFFICES ASSUME TypeInv, TypeOK', TokenInv, [Next]_vars PROVE TokenInv'
    BY DEF TypeInv
  <1>1. CASE UNCHANGED vars
    <2>1. UNCHANGED <<sessions, call>>
      BY <1>1 DEF vars
    <2>2. QED
      BY <2>1, SessionsStay, TokensKept
  <1>2. CASE Next
    BY <1>2, ClientTokens, AdminTokens, FailureTokens DEF Next
  <1>3. QED
    BY <1>1, <1>2

\* No request that came after its session was logged out or revoked is served, on
\* any host; and of all the requests that show one refresh token, one gets the
\* next: the conditional UPDATE replaces the token it looks for.
THEOREM NobodyIsServedAfterTheEnd == Spec => []EndedSessionsServeNobody
  <1>1. Init => TokenInv
    <2> SUFFICES ASSUME Init PROVE TokenInv
      OBVIOUS
    <2>1. Stored = {} /\ \A c \in Client : call[c] = NoCall
      BY Actors DEF Init, Stored
    <2>2. NoCall.pc = "idle" /\ NoCall.arrived
      BY DEF NoCall, Call
    <2>3. QED
      BY <2>1, <2>2 DEF TokenInv, TokensAreHandedOut, SpentTokensAreGone, SpentOnce, Issued,
                        LateMeansRevoked, ServedCameInTime
  <1>2. TypeInv /\ TokenInv => EndedSessionsServeNobody
    BY TokensAreUnique DEF TokenInv, ServedCameInTime, SpentOnce, EndedSessionsServeNobody
  <1>3. Spec => []TokenInv
    BY <1>1, TokenStep, TypeInvHolds, PTL DEF Spec
  <1>4. QED
    BY <1>2, <1>3, TypeInvHolds, PTL

-------------------------------------------------------------------------------
(* Sessions from before a binding end. *)

BeingRevoked(u) == \E c \in Admin : At(c, "revokeAll") /\ call[c].user = u

UnboundInv ==
  /\ UnboundSessionsEnd
  /\ \A s \in Stored : users[sessions[s].user] # Absent
  /\ \A c \in Client : At(c, "insert") => users[call[c].user] # Absent

LEMMA UnboundKept ==
  ASSUME TypeInv, UnboundInv, SessionsGrow, Stored' = Stored, UNCHANGED users,
         lapsed \subseteq lapsed',
         \A c \in Admin : At(c, "revokeAll") =>
            \/ call'[c].pc = "revokeAll" /\ call'[c].user = call[c].user
            \/ call[c].user \in lapsed'
            \/ \A s \in Stored : sessions[s].user = call[c].user => sessions'[s].revoked,
         \A c \in Client : call'[c].pc = "insert" => users[call'[c].user] # Absent
  PROVE  UnboundInv'
  <1>1. ASSUME NEW s \in Stored, sessions[s].unbound, ~sessions'[s].revoked,
               users[sessions[s].user] # None
        PROVE  \/ sessions[s].user \in lapsed'
               \/ \E c \in Admin : call'[c].pc = "revokeAll" /\ call'[c].user = sessions[s].user
    <2>1. ~sessions[s].revoked
      BY <1>1 DEF SessionsGrow
    <2>2. sessions[s].user \in lapsed \/ BeingRevoked(sessions[s].user)
      BY <1>1, <2>1 DEF UnboundInv, UnboundSessionsEnd, BeingRevoked
    <2>3. CASE BeingRevoked(sessions[s].user)
      BY <1>1, <2>3 DEF BeingRevoked
    <2>4. QED
      BY <2>2, <2>3
  <1>2. UnboundSessionsEnd'
    <2> SUFFICES ASSUME NEW s \in Stored', sessions'[s].unbound, ~sessions'[s].revoked,
                        users'[sessions'[s].user] # None
                 PROVE  \/ sessions'[s].user \in lapsed'
                        \/ \E c \in Admin : call'[c].pc = "revokeAll" /\ call'[c].user = sessions'[s].user
      BY DEF UnboundSessionsEnd, At
    <2>1. s \in Stored /\ sessions'[s].user = sessions[s].user /\ sessions[s].unbound
      BY DEF SessionsGrow
    <2>2. QED
      BY <1>1, <2>1
  <1>3. \A s \in Stored' : users'[sessions'[s].user] # Absent
    BY DEF UnboundInv, SessionsGrow
  <1>4. QED
    BY <1>2, <1>3 DEF UnboundInv, At

LEMMA CreateUserUnbound == ASSUME TypeInv, UnboundInv, NEW c \in Caller, CreateUser(c) PROVE UnboundInv'
  <1>1. PICK u \in User, rid \in Rid \cup {None} :
          users[u] = Absent /\ users' = [users EXCEPT ![u] = rid]
    BY DEF CreateUser
  <1>2. c \in Admin /\ call[c].pc = "idle" /\ UNCHANGED <<sessions, lapsed>> /\ Stored' = Stored
    BY SessionsStay DEF CreateUser, Idle
  <1>3. \A d \in Caller \ {c} : call'[d] = call[d]
    BY OthersStay
  <1>4. \A v \in User : users'[v] = IF v = u THEN rid ELSE users[v]
    BY <1>1 DEF TypeInv, TypeOK
  <1>5. ASSUME NEW s \in Stored PROVE sessions[s].user \in User \ {u}
    BY <1>1, StoredIsTyped DEF TypeInv, UnboundInv
  <1>6. ASSUME NEW d \in Client, call[d].pc = "insert" PROVE call[d].user \in User \ {u}
    BY <1>1, <1>6, Holders, Actors DEF UnboundInv, At
  <1>7. UnboundSessionsEnd'
    <2> SUFFICES ASSUME NEW s \in Stored, sessions[s].unbound, ~sessions[s].revoked,
                        users'[sessions[s].user] # None
                 PROVE  \/ sessions[s].user \in lapsed
                        \/ \E d \in Admin : call'[d].pc = "revokeAll" /\ call'[d].user = sessions[s].user
      BY <1>2 DEF UnboundSessionsEnd, At
    <2>1. sessions[s].user \in lapsed \/ BeingRevoked(sessions[s].user)
      BY <1>4, <1>5 DEF UnboundInv, UnboundSessionsEnd, BeingRevoked
    <2>2. QED
      BY <1>2, <1>3, <2>1, Actors DEF BeingRevoked, At
  <1>8. QED
    BY <1>2, <1>3, <1>4, <1>5, <1>6, <1>7, Actors DEF UnboundInv, At

LEMMA UpdateUserUnbound == ASSUME TypeInv, UnboundInv, NEW c \in Caller, UpdateUser(c) PROVE UnboundInv'
  <1>1. /\ c \in Admin /\ UNCHANGED <<sessions, lapsed>> /\ SessionsGrow /\ Stored' = Stored
        /\ call[c].user \in User /\ call[c].rid \in Rid /\ call[c].pc = "bind"
        /\ call[c] \in CallRecord
    BY Holders, SessionsStay DEF UpdateUser, At, TypeInv, TypeOK
  <1>2. \A d \in Caller \ {c} : call'[d] = call[d]
    BY OthersStay
  <1>3. CASE MayBindTo(call[c].user)
    <2>1. users' = [users EXCEPT ![call[c].user] = call[c].rid] /\ Goto(c, "revokeAll")
      BY <1>3 DEF UpdateUser, AfterBinding
    <2>2. call'[c] = [call[c] EXCEPT !.pc = "revokeAll"]
      BY <1>1, <2>1, GoneTo DEF TypeInv, AdminPc
    <2>3. call'[c].pc = "revokeAll" /\ call'[c].user = call[c].user
      BY <1>1, <2>2 DEF CallRecord
    <2>4. \A v \in User : users'[v] = IF v = call[c].user THEN call[c].rid ELSE users[v]
      BY <1>1, <2>1 DEF TypeInv, TypeOK
    <2>5. UnboundSessionsEnd'
      <3> SUFFICES ASSUME NEW s \in Stored, sessions[s].unbound, ~sessions[s].revoked,
                          users'[sessions[s].user] # None
                   PROVE  \/ sessions[s].user \in lapsed
                          \/ \E d \in Admin : call'[d].pc = "revokeAll" /\ call'[d].user = sessions[s].user
        BY <1>1 DEF UnboundSessionsEnd, At
      <3>1. CASE sessions[s].user = call[c].user
        BY <1>1, <2>3, <3>1
      <3>2. CASE sessions[s].user # call[c].user
        <4>1. sessions[s].user \in lapsed \/ BeingRevoked(sessions[s].user)
          BY <2>4, <3>2, StoredIsTyped DEF TypeInv, UnboundInv, UnboundSessionsEnd, BeingRevoked
        <4>2. QED
          BY <1>1, <1>2, <4>1, Actors DEF BeingRevoked, At
      <3>3. QED
        BY <3>1, <3>2
    <2>6. \A s \in Stored : users'[sessions[s].user] # Absent
      BY <1>1, <2>4, StoredIsTyped, Actors DEF TypeInv, UnboundInv
    <2>7. ASSUME NEW d \in Client, call[d].pc = "insert" PROVE users'[call[d].user] # Absent
      BY <1>1, <2>4, <2>7, Holders, Actors DEF UnboundInv, At
    <2>8. QED
      BY <1>1, <1>2, <2>5, <2>6, <2>7, Actors DEF UnboundInv, At
  <1>4. CASE ~MayBindTo(call[c].user)
    <2>1. UNCHANGED users
      BY <1>4 DEF UpdateUser
    <2>2. \A d \in Client : call'[d] = call[d]
      BY <1>1, <1>2, Actors
    <2>3. \A d \in Admin : At(d, "revokeAll") => call'[d] = call[d]
      BY <1>1, <1>2, Actors DEF At
    <2>4. QED
      BY <1>1, <2>1, <2>2, <2>3, UnboundKept DEF UnboundInv, At
  <1>5. QED
    BY <1>3, <1>4

LEMMA RevokeAllUnbound == ASSUME TypeInv, UnboundInv, NEW c \in Caller, RevokeAll(c) PROVE UnboundInv'
  <1>1. /\ SessionsGrow /\ Stored' = Stored /\ UNCHANGED <<users, lapsed>>
        /\ \A s \in Stored : sessions[s].user = call[c].user => sessions'[s].revoked
        /\ call[c].pc = "revokeAll"
    BY Revoked DEF RevokeAll, TypeInv, At
  <1>2. \A d \in Caller \ {c} : call'[d] = call[d]
    BY OthersStay
  <1>3. \A d \in Admin : At(d, "revokeAll") =>
          \/ call'[d].pc = "revokeAll" /\ call'[d].user = call[d].user
          \/ \A s \in Stored : sessions[s].user = call[d].user => sessions'[s].revoked
    BY <1>1, <1>2, Actors DEF At
  <1>4. \A d \in Client : call'[d].pc = "insert" => users[call'[d].user] # Absent
    <2>1. ASSUME c \in Client PROVE call'[c].pc # "insert"
      <3>1. Answer(c, "refused")
        BY <2>1, Actors DEF RevokeAll
      <3>2. Goes(c)
        BY <1>1, <2>1, <3>1, GoesOn DEF ClientPc
      <3>3. QED
        BY <3>2 DEF Goes
    <2>2. QED
      BY <1>2, <2>1, Actors DEF UnboundInv, At
  <1>5. QED
    BY <1>1, <1>3, <1>4, UnboundKept

LEMMA BindingUnbound ==
  ASSUME TypeInv, UnboundInv, NEW c \in Caller, BindRid(c) \/ LookUpBinding(c) \/ RecordBinding(c)
  PROVE  UnboundInv'
  <1>1. /\ c \in Admin /\ call[c].pc # "revokeAll" /\ UNCHANGED <<sessions, users, lapsed>>
    BY Holders DEF BindRid, LookUpBinding, RecordBinding, At, Idle
  <1>2. \A d \in Caller \ {c} : call'[d] = call[d]
    BY OthersStay
  <1>3. \A d \in Admin : At(d, "revokeAll") => call'[d] = call[d]
    BY <1>1, <1>2, Actors DEF At
  <1>4. \A d \in Client : call'[d] = call[d]
    BY <1>1, <1>2, Actors
  <1>5. QED
    BY <1>1, <1>3, <1>4, SessionsStay, UnboundKept DEF UnboundInv, At

LEMMA InsertUnbound == ASSUME TypeInv, UnboundInv, NEW c \in Caller, InsertSession(c) PROVE UnboundInv'
  <1>1. /\ c \in Client /\ c \notin Stored /\ call[c].pc = "insert" /\ call[c].user \in User
        /\ Stored' = Stored \cup {c} /\ \A s \in Stored : sessions'[s] = sessions[s]
        /\ sessions'[c] = Session(call[c].user, c)
        /\ call'[c] = [call[c] EXCEPT !.pc = "issued"]
        /\ \A d \in Caller \ {c} : call'[d] = call[d]
    BY InsertSessionFacts
  <1>2. UNCHANGED <<users, lapsed>>
    BY DEF InsertSession
  <1>3. call'[c].pc = "issued"
    BY <1>1 DEF TypeInv, TypeOK, CallRecord
  <1>4. /\ sessions'[c].user = call[c].user /\ users[call[c].user] # Absent
        /\ sessions'[c].unbound => users[call[c].user] = None
    <2>1. At(c, "insert") => users[call[c].user] # Absent
      BY <1>1 DEF UnboundInv
    <2>2. PICK b \in BOOLEAN : b = (users[call[c].user] = None)
      OBVIOUS
    <2>3. Session(call[c].user, c) = [user |-> call[c].user, token |-> c, revoked |-> FALSE,
                                      unbound |-> b]
      BY <2>2, Zenon DEF Session
    <2>4. sessions'[c].user = call[c].user /\ sessions'[c].unbound = b
      BY <1>1, <2>3
    <2>5. QED
      BY <1>1, <2>1, <2>2, <2>4 DEF At
  <1>5. \A d \in Admin : call'[d] = call[d]
    BY <1>1, Actors
  <1>6. UnboundSessionsEnd'
    <2> SUFFICES ASSUME NEW s \in Stored', sessions'[s].unbound, ~sessions'[s].revoked,
                        users[sessions'[s].user] # None
                 PROVE  \/ sessions'[s].user \in lapsed
                        \/ \E d \in Admin : call[d].pc = "revokeAll" /\ call[d].user = sessions'[s].user
      BY <1>2, <1>5 DEF UnboundSessionsEnd, At
    <2>1. s \in Stored /\ sessions'[s] = sessions[s]
      BY <1>1, <1>4
    <2>2. QED
      BY <2>1 DEF UnboundInv, UnboundSessionsEnd, At
  <1>7. \A s \in Stored' : users'[sessions'[s].user] # Absent
    BY <1>1, <1>2, <1>4 DEF UnboundInv
  <1>8. \A d \in Client : At(d, "insert")' => users'[call'[d].user] # Absent
    BY <1>1, <1>2, <1>3, Actors DEF UnboundInv, At
  <1>9. QED
    BY <1>6, <1>7, <1>8 DEF UnboundInv

\* The other requests of clients.
LEMMA ClientUnbound ==
  ASSUME TypeInv, UnboundInv, NEW c \in Caller,
         \/ Login(c)
         \/ Arrive(c, "refresh") \/ Arrive(c, "touch") \/ Arrive(c, "logout")
         \/ Refresh(c) \/ Touch(c) \/ ReadUser(c) \/ Logout(c)
  PROVE  UnboundInv'
  <1>1. c \in Client /\ UNCHANGED <<users, lapsed>>
    BY Holders DEF Login, Arrive, Refresh, Touch, ReadUser, Logout, At
  <1>2. \A d \in Caller \ {c} : call'[d] = call[d]
    BY OthersStay
  <1>3. SessionsGrow /\ Stored' = Stored
    <2>1. CASE Refresh(c)
      BY <2>1, RefreshFacts, SessionsStay, Exchanged DEF TypeInv
    <2>2. CASE Logout(c)
      <3>1. call[c].session \in Stored
        BY <1>1, <2>2 DEF Logout, At, TypeInv, Shapes, ClientShape, ShowsStored
      <3>2. QED
        BY <2>2, <3>1, Ended DEF Logout, TypeInv
    <2>3. CASE ~Refresh(c) /\ ~Logout(c)
      BY <2>3, SessionsStay DEF Login, Arrive, Touch, ReadUser
    <2>4. QED
      BY <2>1, <2>2, <2>3
  <1>4. call'[c].pc = "insert" => users[call'[c].user] # Absent
    <2>1. CASE Login(c)
      <3>1. PICK h \in Host, u \in User :
              users[u] # Absent /\ call' = [call EXCEPT ![c] = Call("insert", h, u, None)]
        BY <2>1 DEF Login
      <3>2. call'[c] = Call("insert", h, u, None)
        BY <3>1 DEF TypeInv, TypeOK
      <3>3. QED
        BY <3>1, <3>2 DEF Call
    <2>2. ASSUME NEW pc \in {"refresh", "touch", "logout"}, Arrive(c, pc) PROVE call'[c].pc # "insert"
      <3> DEFINE k(h, s, t) == [pc |-> pc, host |-> h, user |-> sessions[s].user, rid |-> None,
                                session |-> s, token |-> t, arrived |-> Live(s)]
      <3>1. PICK h \in Host, t \in Client, s \in Stored : call' = [call EXCEPT ![c] = k(h, s, t)]
        BY <2>2 DEF Arrive
      <3>2. call'[c] = k(h, s, t)
        BY <3>1 DEF TypeInv, TypeOK
      <3>3. call'[c].pc = pc
        BY <3>2
      <3>4. QED
        BY <3>3
    <2>3. CASE Refresh(c) \/ Touch(c) \/ ReadUser(c) \/ Logout(c)
      <3>1. PICK pc \in {"revokeAll", "issued", "refused", "read", "accepted", "done"} :
              Goto(c, pc) \/ Answer(c, pc)
        BY <2>3 DEF Refresh, Touch, ReadUser, Logout
      <3>2. pc \in AdminPc \cup ClientPc /\ c \notin Admin
        BY <1>1, Actors DEF ClientPc
      <3>3. call'[c] = [call[c] EXCEPT !.pc = pc]
        BY <3>1, <3>2, GoneTo, Answered DEF TypeInv
      <3>4. call'[c].pc = pc
        BY <3>3 DEF TypeInv, TypeOK, CallRecord
      <3>5. QED
        BY <3>4
    <2>4. QED
      BY <2>1, <2>2, <2>3
  <1>5. \A d \in Admin : call'[d] = call[d]
    BY <1>1, <1>2, Actors
  <1>6. \A d \in Client : call'[d].pc = "insert" => users[call'[d].user] # Absent
    BY <1>2, <1>4, Actors DEF UnboundInv, At
  <1>7. QED
    BY <1>1, <1>3, <1>5, <1>6, UnboundKept DEF At

LEMMA FailureUnbound ==
  ASSUME TypeInv, UnboundInv, (\E c \in Caller : Break(c)) \/ (\E h \in Host : Restart(h))
  PROVE  UnboundInv'
  <1>1. ASSUME NEW cs \in SUBSET Caller, \A c \in cs : Underway(c), CutOff(cs),
               UNCHANGED <<users, sessions>>
        PROVE  UnboundInv'
    <2>1. /\ \A c \in Caller \ cs : call'[c] = call[c]
          /\ \A c \in Client \cap cs : call'[c] = [call[c] EXCEPT !.pc = "cut"]
      BY <1>1, CutOffCalls
    <2>2. ASSUME NEW c \in Client \cap cs PROVE call'[c].pc = "cut"
      <3>1. call[c] \in CallRecord
        BY Actors DEF TypeInv, TypeOK
      <3>2. [call[c] EXCEPT !.pc = "cut"].pc = "cut"
        BY <3>1 DEF CallRecord
      <3>3. QED
        BY <2>1, <3>2
    <2>3. /\ lapsed \subseteq lapsed'
          /\ \A c \in Admin : c \in cs /\ At(c, "revokeAll") => call[c].user \in lapsed'
      BY <1>1 DEF CutOff
    <2>4. \A c \in Client : call'[c].pc = "insert" => users[call'[c].user] # Absent
      BY <2>1, <2>2, Actors DEF UnboundInv, At
    <2>5. \A c \in Admin : At(c, "revokeAll") => call'[c] = call[c] \/ call[c].user \in lapsed'
      BY <2>1, <2>3, Actors
    <2>6. QED
      BY <1>1, <2>3, <2>4, <2>5, SessionsStay, UnboundKept DEF At
  <1>2. ASSUME NEW c \in Caller, Break(c) PROVE UnboundInv'
    BY <1>1, <1>2, BreakIsCutOff
  <1>3. ASSUME NEW h \in Host, Restart(h) PROVE UnboundInv'
    <2> DEFINE cs == {c \in Caller : Underway(c) /\ call[c].host = h}
    <2>1. cs \in SUBSET Caller /\ (\A d \in cs : Underway(d)) /\ CutOff(cs)
          /\ UNCHANGED <<users, sessions>>
      BY <1>3 DEF Restart
    <2>2. QED
      BY <1>1, <2>1
  <1>4. QED
    BY <1>2, <1>3

LEMMA UnboundStep == TypeInv /\ UnboundInv /\ [Next]_vars => UnboundInv'
  <1> SUFFICES ASSUME TypeInv, UnboundInv, [Next]_vars PROVE UnboundInv'
    OBVIOUS
  <1>1. CASE UNCHANGED vars
    BY <1>1 DEF vars, UnboundInv, UnboundSessionsEnd, Stored, At
  <1>2. CASE Next
    BY <1>2, CreateUserUnbound, UpdateUserUnbound, RevokeAllUnbound, BindingUnbound, InsertUnbound,
       ClientUnbound, FailureUnbound DEF Next
  <1>3. QED
    BY <1>1, <1>2

\* No session from before the binding of a rid outlives it, unless the binding is
\* still to revoke the sessions or broke off before it did.
THEOREM SessionsBeforeABindingEnd == Spec => []UnboundSessionsEnd
  <1>1. Init => UnboundInv
    <2> SUFFICES ASSUME Init PROVE UnboundInv
      OBVIOUS
    <2>1. Stored = {} /\ \A c \in Client : call[c] = NoCall
      BY Actors DEF Init, Stored
    <2>2. QED
      BY <2>1, NoCallShape DEF UnboundInv, UnboundSessionsEnd, At
  <1>2. UnboundInv => UnboundSessionsEnd
    BY DEF UnboundInv
  <1>3. Spec => []UnboundInv
    BY <1>1, UnboundStep, TypeInvHolds, PTL DEF Spec
  <1>4. QED
    BY <1>2, <1>3, PTL
==============================================================================
