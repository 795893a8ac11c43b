-------------------------------- MODULE Sessions -------------------------------
(***************************************************************************)
(* Users, their record id (rid) and their sessions when they are kept in   *)
(* PostgreSQL: PostgresAuthService (postgres-auth.ts) on several hosts,    *)
(* and the routes of auth.routes.ts that call it.                          *)
(*                                                                         *)
(* The database decides about sessions, with one conditional UPDATE each;  *)
(* but each host keeps a copy of the users it has read, and binding a rid  *)
(* takes four statements: the user, its sessions, and the lookup and the   *)
(* save of a RID_BINDING record.  Every statement is a step of its own.    *)
(***************************************************************************)
EXTENDS Integers, FiniteSets

CONSTANTS
  Host,      \* processes, each with its PostgresAuthService
  User,      \* user names
  Rid,
  Admin,     \* administrators, who register users and bind rids
  Client,    \* requests of users, each made once; a login names its session,
             \* a login or a refresh names the refresh token it hands out
  None,      \* the user has no rid
  Absent,    \* there is no such user, session or record
  MaxBreaks  \* bound: requests cut off, and restarts of a host

\* A stored session.  `unbound` is observed: its user had no rid then.
SessionRecord == [user : User, token : Client, revoked : BOOLEAN, unbound : BOOLEAN]

ASSUME SessionsAssumption ==
  /\ Absent \notin SessionRecord
  /\ Admin \cap Client = {}
  /\ {None, Absent} \cap (Rid \cup Client) = {} /\ None # Absent
  /\ MaxBreaks \in Nat

VARIABLES
  users,     \* auth_users: the rid of each user
  sessions,  \* auth_sessions
  bindings,  \* entities: the rid in RID-BINDING-<user>
  known,     \* per host: _users, the users as it read them last
  call,      \* per request: where it is
  lapsed,    \* observed: users whose binding broke off before their sessions ended
  breaks

vars == <<users, sessions, bindings, known, call, lapsed, breaks>>

Caller == Admin \cup Client

\* A request about user u; an administrator's is about a rid, too.
Call(pc, h, u, rid) ==
  [pc |-> pc, host |-> h, user |-> u, rid |-> rid,
   session |-> Absent, token |-> Absent, arrived |-> TRUE]
NoCall == Call("idle", Absent, Absent, None)

\* A session of user u whose refresh token is t.
Session(u, t) == [user |-> u, token |-> t, revoked |-> FALSE, unbound |-> users[u] = None]

Init ==
  /\ users = [u \in User |-> Absent]
  /\ sessions = [s \in Client |-> Absent]
  /\ bindings = [u \in User |-> Absent]
  /\ known = [h \in Host |-> [u \in User |-> Absent]]
  /\ call = [c \in Caller |-> NoCall]
  /\ lapsed = {}
  /\ breaks = 0

Stored == {s \in Client : sessions[s] # Absent}
Live(s) == sessions[s] # Absent /\ ~sessions[s].revoked

Idle(c)      == call[c].pc = "idle"
At(c, pc)    == call[c].pc = pc
Goto(c, pc)  == call' = [call EXCEPT ![c].pc = pc]
\* An administrator may make another request; a client's request is over.
Answer(c, pc) == call' = [call EXCEPT ![c] = IF c \in Admin THEN NoCall ELSE [@ EXCEPT !.pc = pc]]
Learns(h, u, rid) == known' = [known EXCEPT ![h][u] = rid]

-------------------------------------------------------------------------------
(* Users *)

\* createUser: a user this host knows is refused, and one it does not know by
\* the UNIQUE constraint.  Registration gives no rid, provisioning may.
CreateUser(c) ==
  /\ c \in Admin /\ Idle(c)
  /\ \E h \in Host, u \in User, rid \in Rid \cup {None} :
       /\ known[h][u] = Absent /\ users[u] = Absent
       /\ users' = [users EXCEPT ![u] = rid]
       /\ Learns(h, u, rid)
       /\ call' = IF rid = None THEN call
                  ELSE [call EXCEPT ![c] = Call("lookup", h, u, rid)]
  /\ UNCHANGED <<sessions, bindings, lapsed, breaks>>

\* assignRid up to its first statement, from what this host knows.  The rid the
\* user is known to have goes on to its record at once.
BindRid(c) ==
  /\ c \in Admin /\ Idle(c)
  /\ \E h \in Host, u \in User, rid \in Rid :
       /\ known[h][u] \in {None, rid}
       /\ call' = [call EXCEPT ![c] =
                     Call(IF known[h][u] = rid THEN "lookup" ELSE "bind", h, u, rid)]
  /\ UNCHANGED <<users, sessions, bindings, known, lapsed, breaks>>

\* UPDATE auth_users SET rid WHERE user_id AND rid IS NULL.
AnyUser(u) == TRUE
MayBindTo(u) == users[u] = None

Unrevoked == "lookup"
AfterBinding == "revokeAll"

UpdateUser(c) ==
  /\ At(c, "bind")
  /\ LET u == call[c].user IN
     IF MayBindTo(u)
     THEN /\ users' = [users EXCEPT ![u] = call[c].rid]
          /\ Learns(call[c].host, u, call[c].rid)
          /\ Goto(c, AfterBinding)
     ELSE /\ Answer(c, "refused") /\ UNCHANGED <<users, known>>
  /\ UNCHANGED <<sessions, bindings, lapsed, breaks>>

OfUser(u) == {s \in Stored : sessions[s].user = u}

\* revokeAll: of a binding, and of a refresh whose user its host does not know.
RevokeAll(c) ==
  /\ At(c, "revokeAll")
  /\ sessions' = [s \in Client |-> IF s \in OfUser(call[c].user)
                                   THEN [sessions[s] EXCEPT !.revoked = TRUE]
                                   ELSE sessions[s]]
  /\ IF c \in Admin THEN Goto(c, "lookup") ELSE Answer(c, "refused")
  /\ UNCHANGED <<users, bindings, known, lapsed, breaks>>

\* recordRidBinding: there is a record, of this rid or of another one (409), or
\* there is none.
LookUpBinding(c) ==
  /\ At(c, "lookup")
  /\ IF bindings[call[c].user] = Absent THEN Goto(c, "record") ELSE Answer(c, "done")
  /\ UNCHANGED <<users, sessions, bindings, known, lapsed, breaks>>

\* The batch of the record and its event: of two that found no record, the id
\* of the event, or the expected version 0, refuses the later one.
RecordBinding(c) ==
  /\ At(c, "record")
  /\ bindings' = IF bindings[call[c].user] = Absent
                 THEN [bindings EXCEPT ![call[c].user] = call[c].rid] ELSE bindings
  /\ Answer(c, "done")
  /\ UNCHANGED <<users, sessions, known, lapsed, breaks>>

-------------------------------------------------------------------------------
(* Sessions *)

\* login: the user is read ..
Login(c) ==
  /\ c \in Client /\ Idle(c)
  /\ \E h \in Host, u \in User :
       /\ users[u] # Absent
       /\ Learns(h, u, users[u])
       /\ call' = [call EXCEPT ![c] = Call("insert", h, u, None)]
  /\ UNCHANGED <<users, sessions, bindings, lapsed, breaks>>

\* .. and the session stored.
InsertSession(c) ==
  /\ At(c, "insert")
  /\ sessions' = [sessions EXCEPT ![c] = Session(call[c].user, c)]
  /\ Answer(c, "issued")
  /\ UNCHANGED <<users, bindings, known, lapsed, breaks>>

\* A request that shows the tokens an earlier answer gave its client: a refresh
\* token t, or the access token of session s.  Whether its session was live at
\* that moment is observed.
Holds(c, s, t) ==
  /\ call[t].pc = "issued"
  /\ s = IF call[t].session = Absent THEN t ELSE call[t].session

Arrive(c, pc) ==
  /\ c \in Client /\ Idle(c)
  /\ \E h \in Host, t \in Client, s \in Stored :
       /\ Holds(c, s, t)
       /\ call' = [call EXCEPT ![c] =
                     [pc |-> pc, host |-> h, user |-> sessions[s].user, rid |-> None,
                      session |-> s, token |-> t, arrived |-> Live(s)]]
  /\ UNCHANGED <<users, sessions, bindings, known, lapsed, breaks>>

\* UPDATE auth_sessions .. WHERE refresh_token_hash=$3 AND revoked_at IS NULL.
LiveOnly(s, t) == Live(s)
Exchangeable(s, t) == sessions[s].token = t /\ Live(s)

\* refresh: the token is exchanged for a new one, in one statement.  A host that
\* does not know the user goes on to revoke all of the user's sessions.
Refresh(c) ==
  /\ At(c, "refresh")
  /\ LET s == call[c].session  u == call[c].user IN
     IF Exchangeable(s, call[c].token)
     THEN /\ sessions' = [sessions EXCEPT ![s].token = c]
          /\ IF known[call[c].host][u] = Absent THEN Goto(c, "revokeAll")
             ELSE Answer(c, "issued")
     ELSE Answer(c, "refused") /\ UNCHANGED sessions
  /\ UNCHANGED <<users, bindings, known, lapsed, breaks>>

\* authenticate: UPDATE auth_sessions .. WHERE session_id AND revoked_at IS NULL,
Touch(c) ==
  /\ At(c, "touch")
  /\ IF Live(call[c].session) THEN Goto(c, "read") ELSE Answer(c, "refused")
  /\ UNCHANGED <<users, sessions, bindings, known, lapsed, breaks>>

\* then the user.
ReadUser(c) ==
  /\ At(c, "read")
  /\ Learns(call[c].host, call[c].user, users[call[c].user])
  /\ Answer(c, "accepted")
  /\ UNCHANGED <<users, sessions, bindings, lapsed, breaks>>

\* logout, by either token of the session.
Logout(c) ==
  /\ At(c, "logout")
  /\ sessions' = [sessions EXCEPT ![call[c].session].revoked = TRUE]
  /\ Answer(c, "done")
  /\ UNCHANGED <<users, bindings, known, lapsed, breaks>>

-------------------------------------------------------------------------------
(* Failures *)

Underway(c) == call[c].pc \in {"bind", "revokeAll", "lookup", "record", "insert",
                               "refresh", "touch", "read", "logout"}

CutOff(cs) ==
  /\ call' = [c \in Caller |-> IF c \notin cs THEN call[c]
                               ELSE IF c \in Admin THEN NoCall ELSE [call[c] EXCEPT !.pc = "cut"]]
  /\ lapsed' = lapsed \cup {call[c].user : c \in {a \in cs \cap Admin : At(a, "revokeAll")}}

\* A statement fails, or the answer to it is lost: the request ends there.
Break(c) ==
  /\ Underway(c) /\ breaks < MaxBreaks
  /\ breaks' = breaks + 1
  /\ CutOff({c})
  /\ UNCHANGED <<users, sessions, bindings, known>>

\* A host ends, with its requests, and starts: it reads all users.
Restart(h) ==
  /\ breaks < MaxBreaks
  /\ breaks' = breaks + 1
  /\ CutOff({c \in Caller : Underway(c) /\ call[c].host = h})
  /\ known' = [known EXCEPT ![h] = users]
  /\ UNCHANGED <<users, sessions, bindings>>

Next ==
  \/ \E c \in Caller :
       \/ CreateUser(c) \/ BindRid(c) \/ UpdateUser(c) \/ RevokeAll(c)
       \/ LookUpBinding(c) \/ RecordBinding(c)
       \/ Login(c) \/ InsertSession(c)
       \/ Arrive(c, "refresh") \/ Arrive(c, "touch") \/ Arrive(c, "logout")
       \/ Refresh(c) \/ Touch(c) \/ ReadUser(c) \/ Logout(c)
       \/ Break(c)
  \/ \E h \in Host : Restart(h)

Spec == Init /\ [][Next]_vars

-------------------------------------------------------------------------------
(* Properties *)

Issued(c) == call[c].pc = "issued"

\* A session that ended stays ended, on every host: no request that came after
\* a logout or a revocation is served.  A refresh token is exchanged once,
\* however many requests show it at the same time.
EndedSessionsServeNobody ==
  /\ \A c \in Client : call[c].pc \in {"accepted", "issued"} => call[c].arrived
  /\ \A c, d \in Client :
       Issued(c) /\ Issued(d) /\ c # d /\ call[c].token # Absent => call[c].token # call[d].token
  /\ \A s, t \in Stored : sessions[s].token = sessions[t].token => s = t

\* A rid is bound once, whichever host an administrator asks, and its record
\* says what the user has.
RidIsBoundOnce ==
  [][\A u \in User :
       /\ users[u] \in Rid => users'[u] = users[u]
       /\ bindings'[u] \in {Absent, users'[u]}
       /\ bindings[u] # Absent => bindings'[u] = bindings[u]]_<<users, bindings>>

\* No session from before the binding of a rid outlives it, unless the request
\* that bound it is still to revoke them or broke off before it did.  (Binding
\* it again does not make up for that: assignRid finds the rid bound.)
UnboundSessionsEnd ==
  \A s \in Stored :
    LET u == sessions[s].user IN
    sessions[s].unbound /\ ~sessions[s].revoked /\ users[u] # None =>
      \/ u \in lapsed
      \/ \E c \in Admin : At(c, "revokeAll") /\ call[c].user = u
===============================================================================
