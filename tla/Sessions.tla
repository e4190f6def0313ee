------------------------------ MODULE Sessions ------------------------------
(***************************************************************************)
(* Registration, login, refresh, logout and logout of all devices, run by  *)
(* concurrent HTTP handlers against refresh_sessions at READ COMMITTED.    *)
(*                                                                         *)
(* One action is one SQL statement that other handlers can tell apart from *)
(* the next one, with the Go code up to the following statement.  Only     *)
(* Register opens a transaction; elsewhere a statement commits by itself.  *)
(* An UPDATE works on the rows its snapshot shows, waits for those that an *)
(* open rotation has locked, and never sees the row that the rotation is   *)
(* about to insert: hence the two halves Snapshot and Apply of a           *)
(* revocation, and Lock and CommitRotation of a rotation.                  *)
(*                                                                         *)
(* A session stands for its refresh token, of which the table keeps the    *)
(* hash, and names the family it founds.  Access tokens are not modelled   *)
(* beyond the right of whoever got one to call logout-all.                 *)
(***************************************************************************)
EXTENDS Integers, FiniteSets

CONSTANTS
  Handler,     \* requests the API serves at the same time
  SessionId,   \* ids a session can get
  User,        \* normalized e-mail addresses
  Password,
  Kind,        \* the kinds of request clients send
  MayFail,     \* the statements that may fail: pcs
  TTL,         \* refreshTTL
  MaxTime,     \* bound on the clock
  None

Time == 0 .. MaxTime

Pc == {"idle", "register", "registered", "login", "audit", "read", "rotate",
       "locked", "revoke", "apply", "reply"}
Result == {"ok", "conflict", "credentials", "unauthorized", "error"}

(* A row of refresh_sessions. *)
Row == [user : User, family : SessionId, expires : Nat,
        revokedAt : Nat \cup {None}, replacedBy : SessionId \cup {None}]

(* A body without a token the server knows has the token None. *)
Request ==
  [kind : Kind, user : User \cup {None}, password : Password \cup {None},
   token : SessionId \cup {None}]

ASSUME SessionsAssumption ==
  /\ Kind \subseteq {"register", "login", "refresh", "logout", "logoutAll"}
  /\ MayFail \subseteq Pc
  /\ MaxTime \in Nat
  /\ TTL \in Nat \ {0}
  /\ None \notin Nat \cup SessionId \cup Password \cup Row \cup Result \cup Request

VARIABLES
  users,      \* users: the password of each address that is registered
  sessions,   \* refresh_sessions: its committed rows
  audits,     \* audit_logs: the number of user.registered and session.login
  now,        \* the server's clock
  h,          \* the handlers
  known       \* the refresh tokens that have reached a client

store == <<users, sessions, audits>>
vars  == <<store, now, h, known>>

HandlerType ==
  [pc : Pc, req : Request \cup {None}, now : Time,
   snapshot : SUBSET SessionId, new : SessionId \cup {None},
   result : Result \cup {None}]

Idle == [pc |-> "idle", req |-> None, now |-> 0, snapshot |-> {}, new |-> None,
         result |-> None]

Init ==
  /\ users = [u \in User |-> None]
  /\ sessions = [s \in SessionId |-> None]
  /\ audits = [u \in User |-> 0]
  /\ now = 0
  /\ h = [p \in Handler |-> Idle]
  /\ known = {}

-----------------------------------------------------------------------------
(* Helpers *)

Exists(s) == s # None /\ sessions[s] # None
Live(s) == Exists(s) /\ sessions[s].revokedAt = None
LiveIn(f) == {s \in SessionId : Live(s) /\ sessions[s].family = f}
FamilyRows(f) == {s \in SessionId : Exists(s) /\ sessions[s].family = f}

(* RevokedAt and ReplacedByID set: the token has been exchanged before. *)
Reused(s) == Exists(s) /\ ~Live(s) /\ sessions[s].replacedBy # None

(* uuid.New() and the random token: never an id that is in use. *)
FreshIds == {s \in SessionId : ~Exists(s) /\ \A q \in Handler : h[q].new # s}

NewRow(u, f, at) ==
  [user |-> u, family |-> f, expires |-> at + TTL, revokedAt |-> None,
   replacedBy |-> None]

(* Faulty variant of Locks: a rotation that waits counts as one that holds. *)
WaitsOrLocks(q, s) == h[q].pc \in {"rotate", "locked"} /\ h[q].req.token = s

(* Handler q holds the row lock of s between its rotation's SELECT FOR     *)
(* UPDATE and the statement's commit.                                      *)
Locks(q, s) == h[q].pc = "locked" /\ h[q].req.token = s

Answer(p, result) ==
  h' = [h EXCEPT ![p].pc = "reply", ![p].result = result]

-----------------------------------------------------------------------------
(* Requests and answers *)

(* A client sends the tokens it was given, and calls logout-all with the   *)
(* access token that came along.                                           *)
Sendable(r) ==
  /\ (r.kind \in {"register", "login", "logoutAll"}) = (r.user # None)
  /\ (r.kind \in {"register", "login"}) = (r.password # None)
  /\ r.token \in known \cup {None}
  /\ r.token # None => r.kind \in {"refresh", "logout"}
  /\ r.kind = "logoutAll" => \E s \in known : sessions[s].user = r.user

(* Bound: each handler that may still insert a session, and one more, has  *)
(* an unused id.                                                           *)
RoomLeft ==
  Cardinality({q \in Handler : /\ h[q].pc \notin {"idle", "audit", "revoke", "apply", "reply"}
                               /\ h[q].req.kind # "logout"})
    < Cardinality({s \in SessionId : ~Exists(s)})

FirstStep(kind) ==
  CASE kind = "register"  -> "register"
    [] kind = "login"     -> "login"
    [] kind = "logoutAll" -> "revoke"
    [] OTHER              -> "read"

(* Refresh takes its time before it reads the session. *)
Receive(p, r) ==
  /\ h[p].pc = "idle"
  /\ Sendable(r)
  /\ r.kind \in {"register", "login", "refresh"} => RoomLeft
  /\ h' = [h EXCEPT ![p] = [Idle EXCEPT !.pc = FirstStep(r.kind), !.req = r, !.now = now]]
  /\ UNCHANGED <<store, now, known>>

(* Only a successful answer has a token pair. *)
Reply(p) ==
  /\ h[p].pc = "reply"
  /\ known' = known \cup ({h[p].new} \ {None})
  /\ h' = [h EXCEPT ![p] = Idle]
  /\ UNCHANGED <<store, now>>

(* The connection drops while the response is written. *)
LoseReply(p) ==
  /\ h[p].pc = "reply"
  /\ h' = [h EXCEPT ![p] = Idle]
  /\ UNCHANGED <<store, now, known>>

(* What Refresh and Logout make of an error: whatever fails while Refresh  *)
(* looks the session up or revokes its family, it answers unauthorized;    *)
(* Logout answers as usual if the look-up fails.                           *)
FailResult(p) ==
  IF h[p].req.kind = "refresh" /\ h[p].pc \in {"read", "revoke", "apply"}
  THEN "unauthorized"
  ELSE IF h[p].req.kind = "logout" /\ h[p].pc = "read" THEN "ok" ELSE "error"

(* Faulty variant of Fail: the pair made before the commit is returned. *)
FailReturningPair(p) ==
  /\ h[p].pc \in MayFail \ {"idle", "audit", "reply"}
  /\ h' = [h EXCEPT ![p].pc = "reply", ![p].result = FailResult(p),
                    ![p].snapshot = {}]
  /\ UNCHANGED <<store, now, known>>

(* A statement fails, the request is cancelled or the process dies: what   *)
(* was not committed is gone.                                              *)
Fail(p) ==
  /\ h[p].pc \in MayFail \ {"idle", "audit", "reply"}
  /\ h' = [h EXCEPT ![p].pc = "reply", ![p].result = FailResult(p),
                    ![p].snapshot = {}, ![p].new = None]
  /\ UNCHANGED <<store, now, known>>

Tick ==
  /\ now < MaxTime
  /\ now' = now + 1
  /\ UNCHANGED <<store, h, known>>

-----------------------------------------------------------------------------
(* Registration and login *)

(* Faulty variant of Register: the user's row is inserted outside the      *)
(* transaction.                                                            *)
RegisterOutside(p) ==
  LET u == h[p].req.user IN
  /\ h[p].pc = "register"
  /\ \/ /\ users[u] # None
        /\ Answer(p, "conflict")
        /\ UNCHANGED users
     \/ /\ users[u] = None
        /\ users' = [users EXCEPT ![u] = h[p].req.password]
        /\ \E s \in FreshIds : h' = [h EXCEPT ![p].pc = "registered", ![p].new = s]
  /\ UNCHANGED <<sessions, audits, now, known>>

(* AuthService.Register up to its commit.  The INSERT waits for an open    *)
(* transaction that has inserted the same address, and is refused if one   *)
(* is committed; the session and the audit event follow unobserved.        *)
Register(p) ==
  LET u == h[p].req.user IN
  /\ h[p].pc = "register"
  /\ \A q \in Handler : ~(h[q].pc = "registered" /\ h[q].req.user = u)
  /\ \/ users[u] # None /\ Answer(p, "conflict")
     \/ /\ users[u] = None
        /\ \E s \in FreshIds : h' = [h EXCEPT ![p].pc = "registered", ![p].new = s]
  /\ UNCHANGED <<store, now, known>>

(* The commit of Register; its answer may be lost on the way.  TokenPair   *)
(* is returned with the error, but the HTTP handler drops it.              *)
CommitRegister(p, result) ==
  LET u == h[p].req.user
      s == h[p].new IN
  /\ h[p].pc = "registered"
  /\ users' = [users EXCEPT ![u] = h[p].req.password]
  /\ sessions' = [sessions EXCEPT ![s] = NewRow(u, s, h[p].now)]
  /\ audits' = [audits EXCEPT ![u] = @ + 1]
  /\ h' = [h EXCEPT ![p].pc = "reply", ![p].result = result,
                    ![p].new = IF result = "ok" THEN s ELSE None]
  /\ UNCHANGED <<now, known>>

(* AuthService.Login reads the user, verifies the password and inserts the *)
(* session, which founds a family.  Users never change, so the two         *)
(* statements are one action.  After the insert only the answer can still  *)
(* be lost, or the access token fail.                                      *)
Login(p, result) ==
  LET u == h[p].req.user IN
  /\ h[p].pc = "login"
  /\ \/ /\ users[u] # h[p].req.password
        /\ Answer(p, "credentials")
        /\ UNCHANGED sessions
     \/ /\ users[u] = h[p].req.password
        /\ \E s \in FreshIds :
             /\ sessions' = [sessions EXCEPT ![s] = NewRow(u, s, now)]
             /\ h' = IF result = "ok"
                     THEN [h EXCEPT ![p].pc = "audit", ![p].new = s]
                     ELSE [h EXCEPT ![p].pc = "reply", ![p].result = result]
  /\ UNCHANGED <<users, audits, now, known>>

(* The audit event of a login, whose error is discarded. *)
Audit(p) ==
  LET u == h[p].req.user IN
  /\ h[p].pc = "audit"
  /\ audits' \in {audits, [audits EXCEPT ![u] = @ + 1]}
  /\ Answer(p, "ok")
  /\ UNCHANGED <<users, sessions, now, known>>

-----------------------------------------------------------------------------
(* Refresh *)

(* Faulty variant of Read: the expiry of the session is not looked at. *)
ReadIgnoringExpiry(p) ==
  LET s == h[p].req.token IN
  /\ h[p].pc = "read"
  /\ \/ ~Exists(s) /\ Answer(p, FailResult(p))
     \/ /\ Exists(s)
        /\ h[p].req.kind = "refresh" => Reused(s)
        /\ h' = [h EXCEPT ![p].pc = "revoke"]
     \/ /\ Exists(s) /\ ~Live(s) /\ ~Reused(s) /\ h[p].req.kind = "refresh"
        /\ Answer(p, "unauthorized")
     \/ /\ Live(s) /\ h[p].req.kind = "refresh"
        /\ h' = [h EXCEPT ![p].pc = "rotate"]
  /\ UNCHANGED <<store, now, known>>

(* GetByTokenHash and the checks that follow, in Refresh and in Logout; a  *)
(* token that is not found counts as an error.                             *)
Read(p) ==
  LET s == h[p].req.token IN
  /\ h[p].pc = "read"
  /\ \/ ~Exists(s) /\ Answer(p, FailResult(p))
     \/ /\ Exists(s)
        /\ h[p].req.kind = "refresh" => Reused(s)
        /\ h' = [h EXCEPT ![p].pc = "revoke"]
     \/ /\ Exists(s) /\ ~Reused(s) /\ h[p].req.kind = "refresh"
        /\ ~Live(s) \/ sessions[s].expires <= h[p].now
        /\ Answer(p, "unauthorized")
     \/ /\ Live(s) /\ sessions[s].expires > h[p].now /\ h[p].req.kind = "refresh"
        /\ h' = [h EXCEPT ![p].pc = "rotate"]
  /\ UNCHANGED <<store, now, known>>

(* Faulty variants of Lock: no FOR UPDATE, so that a rotation under way    *)
(* is not waited for; no revoked_at IS NULL; RowsAffected not looked at.   *)
LockWithoutWaiting(p) ==
  /\ h[p].pc = "rotate"
  /\ \/ ~Live(h[p].req.token) /\ Answer(p, "conflict")
     \/ /\ Live(h[p].req.token)
        /\ \E t \in FreshIds : h' = [h EXCEPT ![p].pc = "locked", ![p].new = t]
  /\ UNCHANGED <<store, now, known>>

LockRevoked(p) ==
  /\ h[p].pc = "rotate"
  /\ \A q \in Handler : ~Locks(q, h[p].req.token)
  /\ \E t \in FreshIds : h' = [h EXCEPT ![p].pc = "locked", ![p].new = t]
  /\ UNCHANGED <<store, now, known>>

LockIgnoringRowCount(p) ==
  LET s == h[p].req.token IN
  /\ h[p].pc = "rotate"
  /\ \A q \in Handler : ~Locks(q, s)
  /\ \E t \in FreshIds :
       h' = [h EXCEPT ![p].pc = IF Live(s) THEN "locked" ELSE "reply", ![p].new = t,
                      ![p].result = IF Live(s) THEN None ELSE "ok"]
  /\ UNCHANGED <<store, now, known>>

(* RotateSession's SELECT ... WHERE revoked_at IS NULL FOR UPDATE: waits   *)
(* for a rotation that has the row, then looks at the row again.           *)
Lock(p) ==
  LET s == h[p].req.token IN
  /\ h[p].pc = "rotate"
  /\ \A q \in Handler : ~Locks(q, s)
  /\ \/ ~Live(s) /\ Answer(p, "conflict")
     \/ /\ Live(s)
        /\ \E t \in FreshIds : h' = [h EXCEPT ![p].pc = "locked", ![p].new = t]
  /\ UNCHANGED <<store, now, known>>

(* Faulty variant of CommitRotation: replaced_by_id is not set. *)
CommitUnlinked(p, result) ==
  LET s == h[p].req.token
      t == h[p].new IN
  /\ h[p].pc = "locked"
  /\ sessions' = [sessions EXCEPT
       ![s].revokedAt = h[p].now,
       ![t] = NewRow(sessions[s].user, sessions[s].family, h[p].now)]
  /\ h' = [h EXCEPT ![p].pc = "reply", ![p].result = result,
                    ![p].new = IF result = "ok" THEN t ELSE None]
  /\ UNCHANGED <<users, audits, now, known>>

(* The rest of the statement: the replacement is inserted, its predecessor *)
(* revoked and linked to it.  The answer may be lost on the way, or the    *)
(* access token fail.                                                      *)
CommitRotation(p, result) ==
  LET s == h[p].req.token
      t == h[p].new IN
  /\ h[p].pc = "locked"
  /\ sessions' = [sessions EXCEPT
       ![s].revokedAt = h[p].now, ![s].replacedBy = t,
       ![t] = NewRow(sessions[s].user, sessions[s].family, h[p].now)]
  /\ h' = [h EXCEPT ![p].pc = "reply", ![p].result = result,
                    ![p].new = IF result = "ok" THEN t ELSE None]
  /\ UNCHANGED <<users, audits, now, known>>

-----------------------------------------------------------------------------
(* Revocation: Revoke by Logout, RevokeFamily by Refresh on reuse,         *)
(* RevokeAllForUser by LogoutAll                                           *)

(* The rows the statement's WHERE selects. *)
Selected(r) ==
  CASE r.kind = "refresh" -> FamilyRows(sessions[r.token].family)
    [] r.kind = "logout"  -> {r.token}
    [] OTHER -> {s \in SessionId : Exists(s) /\ sessions[s].user = r.user}

(* The UPDATE starts, and the rows committed so far are those it will see. *)
(* Logout and LogoutAll take their time here.                              *)
Snapshot(p) ==
  /\ h[p].pc = "revoke"
  /\ h' = [h EXCEPT ![p].pc = "apply", ![p].snapshot = Selected(h[p].req),
                    ![p].now = IF h[p].req.kind = "refresh" THEN @ ELSE now]
  /\ UNCHANGED <<store, now, known>>

(* revoked_at = COALESCE(revoked_at, at) *)
RevokeRows(S, at) ==
  sessions' = [s \in SessionId |-> IF s \in S /\ Live(s)
                                   THEN [sessions[s] EXCEPT !.revokedAt = at]
                                   ELSE sessions[s]]

(* Faulty variants of Apply: rows that are locked are left out; the time   *)
(* of the first revocation is overwritten.                                 *)
ApplySkippingLocked(p, result) ==
  /\ h[p].pc = "apply"
  /\ RevokeRows({s \in h[p].snapshot : \A q \in Handler : ~Locks(q, s)}, h[p].now)
  /\ Answer(p, IF h[p].req.kind = "refresh" THEN "unauthorized" ELSE result)
  /\ UNCHANGED <<users, audits, now, known>>

ApplyOverwriting(p, result) ==
  /\ h[p].pc = "apply"
  /\ \A s \in h[p].snapshot, q \in Handler : ~Locks(q, s)
  /\ sessions' = [s \in SessionId |-> IF s \in h[p].snapshot
                                      THEN [sessions[s] EXCEPT !.revokedAt = h[p].now]
                                      ELSE sessions[s]]
  /\ Answer(p, IF h[p].req.kind = "refresh" THEN "unauthorized" ELSE result)
  /\ UNCHANGED <<users, audits, now, known>>

(* The UPDATE, once no rotation holds any of its rows.  Two UPDATEs that   *)
(* lock their rows in opposite orders make PostgreSQL fail one of them,    *)
(* which is Fail.                                                          *)
Apply(p, result) ==
  /\ h[p].pc = "apply"
  /\ \A s \in h[p].snapshot, q \in Handler : ~Locks(q, s)
  /\ RevokeRows(h[p].snapshot, h[p].now)
  /\ Answer(p, IF h[p].req.kind = "refresh" THEN "unauthorized" ELSE result)
  /\ UNCHANGED <<users, audits, now, known>>

-----------------------------------------------------------------------------
(* The specification *)

Commits == {"ok", "error"}

Work(p) ==
  \/ Register(p) \/ Audit(p) \/ Read(p) \/ Lock(p) \/ Snapshot(p)
  \/ \E result \in Commits :
       \/ CommitRegister(p, result)
       \/ Login(p, result)
       \/ CommitRotation(p, result)
       \/ Apply(p, result)

Next ==
  \/ \E p \in Handler :
       \/ \E r \in Request : Receive(p, r)
       \/ Work(p)
       \/ Fail(p)
       \/ Reply(p)
       \/ LoseReply(p)
  \/ Tick

Spec == Init /\ [][Next]_vars

-----------------------------------------------------------------------------
(* Invariants *)

(* Every variable has its type; only a handler that holds uncommitted rows *)
(* or brings back a pair has a new session, and an error brings none back. *)
TypeOK ==
  /\ users \in [User -> Password \cup {None}]
  /\ sessions \in [SessionId -> Row \cup {None}]
  /\ audits \in [User -> Nat]
  /\ now \in Time
  /\ h \in [Handler -> HandlerType]
  /\ known \subseteq SessionId
  /\ \A p \in Handler :
       /\ h[p].pc # "idle" => h[p].req \in Request
       /\ h[p].pc \in {"register", "registered", "login", "audit"}
            => h[p].req.user \in User /\ h[p].req.password \in Password
       /\ h[p].pc \in {"rotate", "locked"} => h[p].req.token \in SessionId
       /\ h[p].pc \in {"registered", "locked", "audit"} => h[p].new \in SessionId
       /\ h[p].new # None =>
            \/ h[p].pc \in {"registered", "locked", "audit"}
            \/ h[p].pc = "reply" /\ h[p].result = "ok"

(* At most one refresh token of a family is usable, however many refreshes *)
(* and revocations race: the promise of rotation (ADR-011).                *)
OneLivePerFamily ==
  \A s, t \in SessionId :
    Live(s) /\ Live(t) /\ sessions[s].family = sessions[t].family => s = t

(* A family is a chain: its founder comes first, every other session has   *)
(* replaced exactly one of the same family and user, and what has been     *)
(* replaced is revoked.  What reuse detection relies on: replaced_by_id    *)
(* tells an exchanged token from one that was logged out.                  *)
Replaces(t, s) == Exists(s) /\ sessions[s].replacedBy = t
FamilyIsChain ==
  /\ \A t \in SessionId : Exists(t) =>
       /\ Exists(sessions[t].family)
       /\ sessions[t].family = t <=> \A s \in SessionId : ~Replaces(t, s)
  /\ \A s, t \in SessionId : Replaces(t, s) =>
       /\ Exists(t)
       /\ ~Live(s)
       /\ sessions[t].family = sessions[s].family
       /\ sessions[t].user = sessions[s].user
       /\ \A r \in SessionId : Replaces(t, r) => r = s

(* A session is exchanged within its life, and its successor lives for TTL *)
(* from that moment: no race with the clock or another request stretches a *)
(* token that had expired when its refresh came in.                        *)
ExchangedWhileValid ==
  \A s, t \in SessionId : Replaces(t, s) =>
    /\ sessions[s].revokedAt < sessions[s].expires
    /\ Exists(t) => sessions[t].expires = sessions[s].revokedAt + TTL

(* A pair that reaches a client is a committed session, and no two answers *)
(* carry the same one: the loser of two refreshes gets none.               *)
PairsAreSessions ==
  /\ \A s \in known : Exists(s)
  /\ \A p \in Handler : h[p].pc = "reply" /\ h[p].new # None =>
       /\ Exists(h[p].new)
       /\ h[p].new \notin known
       /\ \A q \in Handler : h[q].new = h[p].new => q = p

(* A revocation that went through has revoked every row its statement saw, *)
(* those included that a rotation held meanwhile and then gave up.         *)
RevocationReaches ==
  \A p \in Handler : h[p].pc = "reply" =>
    \A s \in h[p].snapshot : Exists(s) /\ ~Live(s)

(* A registered address came with a session and an audit event, and one    *)
(* that is not registered has neither: the transaction of Register.        *)
RegisteredWhole ==
  \A u \in User :
    /\ users[u] # None =>
         audits[u] > 0 /\ \E s \in SessionId : Exists(s) /\ sessions[s].user = u
    /\ users[u] = None =>
         audits[u] = 0 /\ \A s \in SessionId : ~(Exists(s) /\ sessions[s].user = u)

-----------------------------------------------------------------------------
(* The inductive invariant: what the row lock, the unique address and the  *)
(* fresh ids guarantee of the handlers between two statements.             *)

(* A row that is locked is usable, and one rotation holds it. *)
LockedIsLive ==
  \A p \in Handler : h[p].pc = "locked" =>
    /\ Live(h[p].req.token)
    /\ \A q \in Handler : Locks(q, h[p].req.token) => q = p

(* The session a handler is about to insert is not there; one that it has  *)
(* inserted is there, and no client's yet; no other handler has either.    *)
NewIsOwn ==
  \A p \in Handler : h[p].new # None =>
    /\ Exists(h[p].new) <=> h[p].pc \notin {"registered", "locked"}
    /\ h[p].new \notin known
    /\ \A q \in Handler : h[q].new = h[p].new => q = p

(* An address is registered by one open transaction at a time. *)
OneRegistration ==
  \A p, q \in Handler :
    /\ h[p].pc = "registered"
    /\ h[q].pc = "registered"
    /\ h[p].req.user = h[q].req.user
    => p = q /\ users[h[p].req.user] = None

(* What a handler has found out holds while it goes on: its user is        *)
(* registered, its session exists and had not expired, the rows of its     *)
(* snapshot exist.                                                         *)
Established ==
  \A p \in Handler :
    /\ h[p].pc = "audit" => users[h[p].req.user] # None
    /\ h[p].pc \in {"rotate", "locked"} =>
         Exists(h[p].req.token) /\ h[p].now < sessions[h[p].req.token].expires
    /\ h[p].pc = "revoke" /\ h[p].req.kind # "logoutAll" => Exists(h[p].req.token)
    /\ h[p].pc \notin {"apply", "reply"} => h[p].snapshot = {}
    /\ \A s \in h[p].snapshot : Exists(s)

IInv ==
  /\ TypeOK
  /\ OneLivePerFamily
  /\ FamilyIsChain
  /\ ExchangedWhileValid
  /\ LockedIsLive
  /\ NewIsOwn
  /\ OneRegistration
  /\ Established
  /\ PairsAreSessions
  /\ RevocationReaches
  /\ RegisteredWhole

-----------------------------------------------------------------------------
(* Action and refinement properties *)

(* What is settled stays: no row disappears, moves to another family or    *)
(* gets a new expiry, and a revocation keeps its time and its successor.   *)
(* So a session that was logged out is never exchanged.                    *)
Settled ==
  [][\A s \in SessionId : Exists(s) =>
       /\ sessions'[s] # None
       /\ sessions'[s].user = sessions[s].user
       /\ sessions'[s].family = sessions[s].family
       /\ sessions'[s].expires = sessions[s].expires
       /\ ~Live(s) => sessions'[s] = sessions[s]]_vars

(* The handlers implement the promise: tokens are exchanged one for one,   *)
(* and a family that has ended has no usable token again.                  *)
Families ==
  INSTANCE SessionFamilies WITH
    usable <- [f \in SessionId |-> LiveIn(f)],
    issued <- {s \in SessionId : Exists(s)}
ImplementsFamilies == Families!Spec

-----------------------------------------------------------------------------
(* Liveness *)

(* A handler that can run does run, and PostgreSQL queues the waiters of a *)
(* row lock or a unique key in order; nothing is assumed of clients,       *)
(* failures or the clock.                                                  *)
FairSpec ==
  /\ Spec
  /\ \A p \in Handler :
       /\ WF_vars(Work(p))
       /\ WF_vars(Reply(p))
       /\ SF_vars(Register(p))
       /\ SF_vars(Lock(p))
       /\ SF_vars(\E result \in Commits : Apply(p, result))

(* Every request is answered, or its connection lost: what waits for a row *)
(* or an address gets its turn, and rotations never wait in a circle.      *)
Answered == \A p \in Handler : h[p].pc # "idle" ~> h[p].pc = "idle"

=============================================================================
