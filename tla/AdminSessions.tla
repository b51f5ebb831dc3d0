--------------------------- MODULE AdminSessions ---------------------------
(***************************************************************************)
(* Administrators, their logins and their sessions: the accounts in        *)
(* Postgres (internal/store/admin_users.go), the sessions, their per-user  *)
(* index and the failure counters in Redis (internal/adminauth), the       *)
(* handlers of the control plane that change them (internal/server/        *)
(* admin_auth.go, admin_cp.go) and proofgatectl, which keeps a session     *)
(* file per profile and issues the requests (cmd/proofgatectl).            *)
(*                                                                         *)
(* Every command to Redis and every statement to Postgres is a step of its *)
(* own; requests interleave between them.  A command fails without effect, *)
(* or takes effect and its answer is lost: where the code ignores errors   *)
(* the latter is no different from success.  An error that only ends the   *)
(* request is left out.  Passwords are numbered, and a new account or      *)
(* password takes the next number.  Audit rows, the must_change flag and   *)
(* the two per-username alert counters steer nothing and are left out.     *)
(***************************************************************************)
EXTENDS Naturals, FiniteSets

CONSTANTS
    Users, Role,      \* usernames, and the role an account of that name gets
    Root,             \* the bootstrapped administrator
    Tokens, RootToken, NoToken,
    Profiles, RootProfile,
    Clients,          \* proofgatectl invocations in progress
    MaxLoginAttempts, IPCeiling,
    SessionAbsTimeout, SessionIdleTimeout, LockoutDuration,
    MaxTime, MaxRequests, MaxEdits, MaxErrors   \* bounds

Permissions == {"user:manage", "session:manage"}

rolePermissions ==
    [admin |-> Permissions, operator |-> {}, viewer |-> {}]

ASSUME SessionsAssumption ==
    /\ Role \in [Users -> DOMAIN rolePermissions]
    /\ Root \in Users /\ Role[Root] = "admin"
    /\ RootToken \in Tokens /\ NoToken \notin Tokens
    /\ RootProfile \in Profiles
    /\ {MaxLoginAttempts, IPCeiling, SessionAbsTimeout, SessionIdleTimeout,
        LockoutDuration} \subseteq Nat \ {0}
    /\ {MaxTime, MaxRequests, MaxEdits, MaxErrors} \subseteq Nat

VARIABLES
    users,      \* admin_users: accounts by username
    sess,       \* proofgate:session:<hash>, with the expiry of the key
    index,      \* proofgate:user_sessions:{u}
    known,      \* proofgate:all_session_users
    failed,     \* proofgate:login_fail:userip:u|ip, one client address
    failedIP,   \* proofgate:login_fail:ip:ip
    now,
    req,        \* invocations and the handler that serves each
    file,       \* the session file of a profile
    minted,     \* tokens GenerateSessionToken has returned
    started, edits, errors,
    \* history
    basis,      \* the account row a session's login read
    dead,       \* tokens whose session was deleted or expired
    crossed,    \* sessions whose login overlapped a sweep of its user, or
                \* that a failed Redis command kept from index, sweep or revocation
    tickets,    \* attempts a counter has counted since its last reset that
                \* were neither refused nor compared yet
    admitted    \* those whose password was compared

store == <<sess, index, known>>
counters == <<failed, failedIP, tickets, admitted>>
bounds == <<started, edits, errors>>
vars == <<users, store, counters, now, req, file, minted, bounds, basis, dead, crossed>>

NoUser == [id |-> 0, pw |-> 0, role |-> "none", enabled |-> FALSE]
NoSess == [user |-> Root, role |-> "none", created |-> 0, active |-> 0, exp |-> 0]
Zero == [n |-> 0, exp |-> 0]

Exists(u) == users[u] # NoUser
Live(t) == sess[t] # NoSess
Admin(u) == users[u].role = "admin" /\ users[u].enabled

Idle == [pc |-> "idle", cmd |-> "whoami", prof |-> RootProfile, user |-> Root,
         pw |-> 0, tok |-> NoToken, row |-> NoUser, got |-> NoSess, at |-> 0,
         n |-> 0, others |-> FALSE, ids |-> {}, todo |-> {}]

FirstRow(u) == [id |-> 1, pw |-> 1, role |-> Role[u], enabled |-> TRUE]

(* One administrator has logged in; the other accounts exist.              *)
Init ==
    /\ users = [u \in Users |-> FirstRow(u)]
    /\ sess = [t \in Tokens |-> IF t = RootToken
                 THEN [user |-> Root, role |-> "admin", created |-> 0, active |-> 0,
                       exp |-> SessionAbsTimeout]
                 ELSE NoSess]
    /\ index = [u \in Users |-> IF u = Root THEN {RootToken} ELSE {}]
    /\ known = {Root}
    /\ failed = [u \in Users |-> Zero] /\ failedIP = Zero
    /\ tickets = [user |-> [u \in Users |-> {}], ip |-> {}]
    /\ admitted = [user |-> [u \in Users |-> 0], ip |-> 0]
    /\ now = 0
    /\ req = [c \in Clients |-> Idle]
    /\ file = [p \in Profiles |-> IF p = RootProfile THEN RootToken ELSE NoToken]
    /\ minted = {RootToken}
    /\ started = 0 /\ edits = 1 /\ errors = 0
    /\ basis = [t \in Tokens |-> IF t = RootToken THEN FirstRow(Root) ELSE NoUser]
    /\ dead = {} /\ crossed = {}

-----------------------------------------------------------------------------
Works == errors' = errors
Fails == errors < MaxErrors /\ errors' = errors + 1

Go(c, r) == req' = [req EXCEPT ![c] = r]

(* The handler answers; runLogout removes the session file whatever the    *)
(* answer was.                                                             *)
Reply(c) ==
    /\ req' = [req EXCEPT ![c] = Idle]
    /\ file' = IF req[c].cmd = "logout" THEN [file EXCEPT ![req[c].prof] = NoToken]
                                        ELSE file

At(c, pc) == req[c].pc = pc
Self(c) == req[c].got.user
Target(c) == req[c].user

LoginOf(c) == req[c].cmd = "login" /\ req[c].tok # NoToken

-----------------------------------------------------------------------------
(* proofgatectl                                                             *)

Begin(c) == At(c, "idle") /\ started < MaxRequests /\ started' = started + 1

RunLogin(c, p, u, pw) ==
    /\ Begin(c)
    /\ Go(c, [req[c] EXCEPT !.pc = "check", !.cmd = "login", !.prof = p, !.user = u, !.pw = pw])
    /\ UNCHANGED <<users, store, counters, now, file, minted, edits, errors, basis, dead, crossed>>

(* NewClient reads the token from the profile's file; without one the      *)
(* middleware answers 401 and nothing happens.                             *)
RunCommand(c, p, cmd, u, pw, ids) ==
    /\ Begin(c) /\ file[p] # NoToken
    /\ Go(c, [req[c] EXCEPT !.pc = "auth", !.cmd = cmd, !.prof = p, !.user = u, !.tok = file[p],
                            !.pw = pw, !.ids = ids])
    /\ UNCHANGED <<users, store, counters, now, file, minted, edits, errors, basis, dead, crossed>>

RunUser(c, p) ==
    \/ \E cmd \in {"create", "enable", "disable", "delete"}, u \in Users :
         RunCommand(c, p, cmd, u, 0, {})
    \/ \E u \in Users, old \in 1..edits : RunCommand(c, p, "password", u, old, {})

RunSession(c, p) ==
    \/ \E cmd \in {"list", "revoke-every"} : RunCommand(c, p, cmd, Root, 0, {})
    \/ \E u \in Users : RunCommand(c, p, "revoke-all", u, 0, {})
    \/ \E t \in minted : RunCommand(c, p, "revoke", Root, 0, {t})

RunOwn(c, p) ==
    \E cmd \in {"whoami", "logout"} : RunCommand(c, p, cmd, Root, 0, {})

-----------------------------------------------------------------------------
(* Login                                                                    *)

Login(c, pc) == At(c, pc) /\ req[c].cmd = "login"

CheckLoginLockout(c) ==
    /\ Login(c, "check")
    /\ IF failedIP.n >= IPCeiling \/ failed[Target(c)].n >= MaxLoginAttempts
         THEN Reply(c)
         ELSE Go(c, [req[c] EXCEPT !.pc = "count", !.n = failed[Target(c)].n]) /\ UNCHANGED file
    /\ UNCHANGED <<users, store, counters, now, minted, bounds, basis, dead, crossed>>

(* INCR, and EXPIRE on the first hit.                                      *)
IncrWithTTL(k) == [n |-> k.n + 1, exp |-> IF k.n = 0 THEN now + LockoutDuration ELSE k.exp]

\* Mutant of CountUser: the attempt is judged by the count read at the check.
CountUserStale(c) ==
    /\ Login(c, "count") /\ Works
    /\ failed' = [failed EXCEPT ![Target(c)] = IncrWithTTL(@)]
    /\ tickets' = [tickets EXCEPT !.user[Target(c)] = @ \cup {<<c, req[c].n + 1>>}]
    /\ Go(c, [req[c] EXCEPT !.pc = "countIP", !.n = @ + 1])
    /\ UNCHANGED <<users, store, failedIP, admitted, now, file, minted, started, edits, basis, dead, crossed>>

CountUser(c) ==
    /\ Login(c, "count")
    /\ LET k == IncrWithTTL(failed[Target(c)])
       IN \/ /\ Works
             /\ failed' = [failed EXCEPT ![Target(c)] = k]
             /\ tickets' = [tickets EXCEPT !.user[Target(c)] = @ \cup {<<c, k.n>>}]
             /\ Go(c, [req[c] EXCEPT !.pc = "countIP", !.n = k.n]) /\ UNCHANGED file
          \/ /\ Fails /\ Reply(c)
             /\ failed' \in {failed, [failed EXCEPT ![Target(c)] = k]} /\ UNCHANGED tickets
    /\ UNCHANGED <<users, store, failedIP, admitted, now, minted, started, edits, basis, dead, crossed>>

(* An error of this counter is ignored: the attempt goes on, and unless    *)
(* only the answer was lost it goes on uncounted.                          *)
CountIP(c) ==
    /\ Login(c, "countIP")
    /\ LET k == IncrWithTTL(failedIP)
           Refuse == /\ Reply(c)
                     /\ tickets' = [tickets EXCEPT !.user[Target(c)] = @ \ {<<c, req[c].n>>}]
           Pass == Go(c, [req[c] EXCEPT !.pc = "lookup"]) /\ UNCHANGED file
       IN \/ /\ Works /\ failedIP' = k
             /\ IF k.n > IPCeiling \/ req[c].n > MaxLoginAttempts THEN Refuse
                ELSE Pass /\ tickets' = [tickets EXCEPT !.ip = @ \cup {c}]
          \/ /\ Fails /\ failedIP' \in {failedIP, k}
             /\ IF req[c].n > MaxLoginAttempts THEN Refuse ELSE Pass /\ UNCHANGED tickets
    /\ UNCHANGED <<users, store, failed, admitted, now, minted, started, edits, basis, dead, crossed>>

(* The password is compared, with a dummy hash if there is no account.     *)
Compare(c) ==
    LET u == Target(c)
        ticket == <<c, req[c].n>>
    IN /\ admitted' = [user |-> [admitted.user EXCEPT
                                   ![u] = @ + IF ticket \in tickets.user[u] THEN 1 ELSE 0],
                       ip |-> admitted.ip + IF c \in tickets.ip THEN 1 ELSE 0]
       /\ tickets' = [user |-> [tickets.user EXCEPT ![u] = @ \ {ticket}], ip |-> tickets.ip \ {c}]

(* GetAdminUser and CheckPassword; a token is generated for the session    *)
(* (Tokens bounds how many there are).                                     *)
LookUp(c) ==
    /\ Login(c, "lookup") /\ Compare(c)
    /\ LET row == users[Target(c)]
       IN IF Exists(Target(c)) /\ row.enabled /\ row.pw = req[c].pw
            THEN \E t \in Tokens \ minted :
                   /\ minted' = minted \cup {t}
                   /\ Go(c, [req[c] EXCEPT !.pc = "clear", !.row = row, !.tok = t]) /\ UNCHANGED file
            ELSE Reply(c) /\ UNCHANGED minted
    /\ UNCHANGED <<users, store, failed, failedIP, now, bounds, basis, dead, crossed>>

ClearFailed(c) ==
    /\ Login(c, "clear")
    /\ \/ /\ Works
          /\ failed' = [failed EXCEPT ![Target(c)] = Zero]
          /\ tickets' = [tickets EXCEPT !.user[Target(c)] = {}]
          /\ admitted' = [admitted EXCEPT !.user[Target(c)] = 0]
       \/ Fails /\ UNCHANGED <<failed, tickets, admitted>>
    /\ Go(c, [req[c] EXCEPT !.pc = "store"])
    /\ UNCHANGED <<users, store, failedIP, now, file, minted, started, edits, basis, dead, crossed>>

NewSession(c) ==
    [user |-> Target(c), role |-> req[c].row.role, created |-> now, active |-> now,
     exp |-> now + SessionAbsTimeout]

\* Mutant of StoreSession: the index is written before the session.
StoreSessionLast(c) ==
    /\ \/ /\ Login(c, "store") /\ req[c].n > 0
          /\ index' = [index EXCEPT ![Target(c)] = @ \cup {req[c].tok}]
          /\ Go(c, [req[c] EXCEPT !.n = 0]) /\ UNCHANGED <<sess, basis>>
       \/ /\ Login(c, "store") /\ req[c].n = 0
          /\ sess' = [sess EXCEPT ![req[c].tok] = NewSession(c)]
          /\ basis' = [basis EXCEPT ![req[c].tok] = req[c].row]
          /\ Go(c, [req[c] EXCEPT !.pc = "known"]) /\ UNCHANGED index
    /\ UNCHANGED <<users, known, counters, now, file, minted, bounds, dead, crossed>>

(* When only the answer of the SET is lost, a session nobody knows of      *)
(* stays behind, outside the index.                                        *)
StoreSession(c) ==
    /\ Login(c, "store")
    /\ \/ /\ sess' = [sess EXCEPT ![req[c].tok] = NewSession(c)]
          /\ basis' = [basis EXCEPT ![req[c].tok] = req[c].row]
          /\ \/ /\ Works /\ UNCHANGED <<file, crossed>>
                /\ Go(c, [req[c] EXCEPT !.pc = "index"])
             \/ Fails /\ Reply(c) /\ crossed' = crossed \cup {req[c].tok}
       \/ Fails /\ Reply(c) /\ UNCHANGED <<sess, basis, crossed>>
    /\ UNCHANGED <<users, index, known, counters, now, minted, started, edits, dead>>

(* Errors of the two SADDs are ignored.                                    *)
IndexSession(c) ==
    /\ Login(c, "index")
    /\ \/ Works /\ index' = [index EXCEPT ![Target(c)] = @ \cup {req[c].tok}] /\ UNCHANGED crossed
       \/ Fails /\ crossed' = crossed \cup {req[c].tok} /\ UNCHANGED index
    /\ Go(c, [req[c] EXCEPT !.pc = "known"])
    /\ UNCHANGED <<users, sess, known, counters, now, file, minted, started, edits, basis, dead>>

(* The answer carries the token and runLogin saves it.                     *)
FinishLogin(c) ==
    /\ Login(c, "known")
    /\ \/ Works /\ known' = known \cup {Target(c)} /\ UNCHANGED crossed
       \/ Fails /\ crossed' = crossed \cup {req[c].tok} /\ UNCHANGED known
    /\ req' = [req EXCEPT ![c] = Idle]
    /\ file' = [file EXCEPT ![req[c].prof] = req[c].tok]
    /\ UNCHANGED <<users, sess, index, counters, now, minted, started, edits, basis, dead>>

-----------------------------------------------------------------------------
(* RequireAuth, RequirePermission                                           *)

HasPermission(role, perm) == role \in DOMAIN rolePermissions /\ perm \in rolePermissions[role]

(* The routes' permissions; the others only need a session.                *)
Needs(cmd) ==
    IF cmd \in {"create", "enable", "disable", "delete"} THEN {"user:manage"}
    ELSE IF cmd \in {"list", "revoke", "revoke-all", "revoke-every"} THEN {"session:manage"}
    ELSE {}

(* ValidateSession up to the refresh.  A session past its absolute or its  *)
(* idle timeout is revoked.                                                *)
AuthGet(c) ==
    /\ At(c, "auth")
    /\ LET t == req[c].tok
       IN IF ~Live(t) THEN Reply(c)
          ELSE /\ IF \/ now - sess[t].created >= SessionAbsTimeout
                     \/ now - sess[t].active > SessionIdleTimeout
                    THEN Go(c, [req[c] EXCEPT !.pc = "del", !.ids = {t}])
                    ELSE Go(c, [req[c] EXCEPT !.pc = "touch", !.got = sess[t], !.at = now])
               /\ UNCHANGED file
    /\ UNCHANGED <<users, store, counters, now, minted, bounds, basis, dead, crossed>>

(* The session as it was read, active since then, for what was left.       *)
Refreshed(c) ==
    LET r == req[c]
    IN [r.got EXCEPT !.active = r.at, !.exp = now + r.got.created + SessionAbsTimeout - r.at]

(* Where a permitted handler begins.  A handler for somebody else's        *)
(* sessions falls back to the caller's own unless the caller is an admin.  *)
Dispatch(c) ==
    LET r == req[c]
        own == IF r.got.role # "admin" THEN Self(c) ELSE r.user
    IN CASE r.cmd = "whoami" -> Reply(c)
         [] r.cmd = "logout" -> Go(c, [r EXCEPT !.pc = "del", !.ids = {r.tok}]) /\ UNCHANGED file
         [] r.cmd = "revoke" -> Go(c, [r EXCEPT !.pc = "del"]) /\ UNCHANGED file
         [] r.cmd = "create" -> Go(c, [r EXCEPT !.pc = "insert"]) /\ UNCHANGED file
         [] r.cmd = "list" -> Go(c, [r EXCEPT !.pc = "scan"]) /\ UNCHANGED file
         [] r.cmd = "revoke-all" -> Go(c, [r EXCEPT !.pc = "list", !.todo = {own}]) /\ UNCHANGED file
         [] r.cmd = "revoke-every" ->
              Go(c, IF r.got.role = "admin" THEN [r EXCEPT !.pc = "every"]
                    ELSE [r EXCEPT !.pc = "list", !.cmd = "revoke-all", !.todo = {own}])
              /\ UNCHANGED file
         [] OTHER -> Go(c, [r EXCEPT !.pc = "row"]) /\ UNCHANGED file

\* Mutant of AuthTouch: SET in place of SET XX.
AuthTouchSet(c) ==
    /\ At(c, "touch")
    /\ sess' = [sess EXCEPT ![req[c].tok] = Refreshed(c)]
    /\ IF \A p \in Needs(req[c].cmd) : HasPermission(req[c].got.role, p)
         THEN Dispatch(c) ELSE Reply(c)
    /\ UNCHANGED <<users, index, known, counters, now, minted, bounds, basis, dead, crossed>>

(* The refresh, and the permission of the route.                           *)
AuthTouch(c) ==
    /\ At(c, "touch")
    /\ IF Live(req[c].tok)
         THEN /\ sess' = [sess EXCEPT ![req[c].tok] = Refreshed(c)]
              /\ IF \A p \in Needs(req[c].cmd) : HasPermission(req[c].got.role, p)
                   THEN Dispatch(c) ELSE Reply(c)
         ELSE Reply(c) /\ UNCHANGED sess
    /\ UNCHANGED <<users, index, known, counters, now, minted, bounds, basis, dead, crossed>>

-----------------------------------------------------------------------------
(* RevokeSession, ListSessions                                              *)

(* GET for the username (it never changes) and DEL; either may fail, and   *)
(* neither error is looked at.  Without the username the id stays in the   *)
(* index; with it, SREM follows a DEL that failed too, and the session     *)
(* lives on outside the index.                                             *)
RevokeSession(c) ==
    /\ At(c, "del")
    /\ \E t \in req[c].ids :
         LET Deleted == /\ sess' = [sess EXCEPT ![t] = NoSess]
                        /\ dead' = IF Live(t) THEN dead \cup {t} ELSE dead
                        /\ UNCHANGED crossed
             Unindex == IF Live(t)
                          THEN Go(c, [req[c] EXCEPT !.pc = "srem", !.user = sess[t].user]) /\ UNCHANGED file
                          ELSE Reply(c)
         IN \/ Works /\ Deleted /\ Unindex
            \/ Fails /\ Deleted /\ Reply(c)
            \/ Fails /\ Unindex /\ crossed' = crossed \cup {t} /\ UNCHANGED <<sess, dead>>
    /\ UNCHANGED <<users, index, known, counters, now, minted, started, edits, basis>>

RevokeUnindex(c) ==
    /\ At(c, "srem")
    /\ \/ Works /\ index' = [index EXCEPT ![Target(c)] = @ \ req[c].ids]
       \/ Fails /\ UNCHANGED index
    /\ Reply(c)
    /\ UNCHANGED <<users, sess, known, counters, now, minted, started, edits, basis, dead, crossed>>

ListSessions(c) ==
    /\ At(c, "scan")
    /\ Go(c, [req[c] EXCEPT !.pc = "peek",
                            !.ids = UNION {index[u] : u \in
                                      IF req[c].got.role = "admin" THEN known ELSE {Self(c)}}])
    /\ UNCHANGED <<users, store, counters, now, file, minted, bounds, basis, dead, crossed>>

(* GET of each id; one that is not found leaves the index.  A session that *)
(* is gone stays gone, so the two commands are one step.                   *)
ListPrune(c) ==
    /\ At(c, "peek")
    /\ IF req[c].ids = {} THEN Reply(c) /\ UNCHANGED index
       ELSE \E t \in req[c].ids :
              /\ index' = IF Live(t) THEN index ELSE [u \in Users |-> index[u] \ {t}]
              /\ Go(c, [req[c] EXCEPT !.ids = @ \ {t}]) /\ UNCHANGED file
    /\ UNCHANGED <<users, sess, known, counters, now, minted, bounds, basis, dead, crossed>>

-----------------------------------------------------------------------------
(* RevokeAllUserSessions                                                    *)

SessionsOf(u) ==
    {t \in Tokens : Live(t) /\ sess[t].user = u}
      \cup {req[c].tok : c \in {d \in Clients : LoginOf(d) /\ Target(d) = u}}

RevokeEvery(c) ==
    /\ At(c, "every")
    /\ \/ Works /\ Go(c, [req[c] EXCEPT !.pc = "list", !.todo = known]) /\ UNCHANGED file
       \/ Fails /\ Reply(c)
    /\ UNCHANGED <<users, store, counters, now, minted, started, edits, basis, dead, crossed>>

(* SMEMBERS of a user.  Its error ends the sweep of one user, and is       *)
(* ignored by the handlers; in a sweep of every user it reads as none.     *)
SweepList(c) ==
    /\ At(c, "list")
    /\ \/ \E u \in req[c].todo :
            \/ /\ Works
               /\ crossed' = crossed \cup (SessionsOf(u) \ index[u])
               /\ Go(c, [req[c] EXCEPT !.pc = "sweep", !.user = u, !.ids = index[u]]) /\ UNCHANGED file
            \/ /\ Fails
               /\ crossed' = crossed \cup SessionsOf(u)
               /\ IF req[c].cmd = "revoke-every"
                    THEN Go(c, [req[c] EXCEPT !.pc = "sweep", !.user = u, !.ids = {}]) /\ UNCHANGED file
                    ELSE Reply(c)
       \/ /\ req[c].todo = {} /\ Works
          /\ Go(c, [req[c] EXCEPT !.pc = "forget"]) /\ UNCHANGED <<file, crossed>>
    /\ UNCHANGED <<users, store, counters, now, minted, started, edits, basis, dead>>

SweepDel(c) ==
    /\ At(c, "sweep")
    /\ \E t \in req[c].ids :
         /\ \/ /\ Works
               /\ sess' = [sess EXCEPT ![t] = NoSess]
               /\ dead' = dead \cup {t} /\ UNCHANGED crossed
            \/ Fails /\ crossed' = crossed \cup {t} /\ UNCHANGED <<sess, dead>>
         /\ Go(c, [req[c] EXCEPT !.ids = @ \ {t}])
    /\ UNCHANGED <<users, index, known, counters, now, file, minted, started, edits, basis>>

(* DEL of the index: what was indexed since SMEMBERS is lost with it.      *)
SweepDrop(c) ==
    /\ At(c, "sweep") /\ req[c].ids = {}
    /\ \/ /\ Works
          /\ index' = [index EXCEPT ![Target(c)] = {}]
          /\ crossed' = crossed \cup SessionsOf(Target(c))
       \/ Fails /\ UNCHANGED <<index, crossed>>
    /\ Go(c, [req[c] EXCEPT !.pc = "list", !.todo = @ \ {Target(c)}])
    /\ UNCHANGED <<users, sess, known, counters, now, file, minted, started, edits, basis, dead>>

(* SREM of the user, or DEL of the set of users.                           *)
SweepForget(c) ==
    /\ At(c, "forget")
    /\ LET gone == IF req[c].cmd = "revoke-every" THEN known ELSE {Target(c)}
       IN \/ /\ Works
             /\ known' = known \ gone
             /\ crossed' = crossed \cup UNION {SessionsOf(u) : u \in gone}
          \/ Fails /\ UNCHANGED <<known, crossed>>
    /\ Reply(c)
    /\ UNCHANGED <<users, sess, index, counters, now, minted, started, edits, basis, dead>>

-----------------------------------------------------------------------------
(* Accounts                                                                 *)

CreateAdminUser(c) ==
    /\ At(c, "insert") /\ edits < MaxEdits
    /\ IF Exists(Target(c)) THEN UNCHANGED <<users, edits>>
       ELSE /\ users' = [users EXCEPT ![Target(c)] =
                 [id |-> edits + 1, pw |-> edits + 1, role |-> Role[Target(c)], enabled |-> TRUE]]
            /\ edits' = edits + 1
    /\ Reply(c)
    /\ UNCHANGED <<store, counters, now, minted, started, errors, basis, dead, crossed>>

(* handleSetUserEnabled, handleDeleteUser and handleChangePassword read    *)
(* the row first; a password may be changed by its owner, who must know    *)
(* the old one, and by who manages users.                                  *)
ReadRow(c) ==
    /\ At(c, "row")
    /\ LET r == req[c]
           row == users[r.user]
           mayChange == IF Self(c) = r.user THEN r.pw = row.pw
                        ELSE HasPermission(r.got.role, "user:manage")
       IN IF Exists(r.user) /\ (r.cmd = "password" => mayChange)
            THEN Go(c, [req[c] EXCEPT !.pc = "update", !.row = row]) /\ UNCHANGED file
            ELSE Reply(c)
    /\ UNCHANGED <<users, store, counters, now, minted, bounds, basis, dead, crossed>>

(* The statement's WHERE, on a row and on whether there is another         *)
(* enabled administrator.                                                  *)
Where(c, row, others) ==
    /\ row.id = req[c].row.id
    /\ \/ req[c].cmd \in {"enable", "password"}
       \/ ~row.enabled
       \/ row.role # "admin"
       \/ others

(* The statement's snapshot: EXISTS reads the other rows here.             *)
Statement(c) ==
    /\ At(c, "update")
    /\ LET others == \E v \in Users \ {Target(c)} : Admin(v)
       IN IF Where(c, users[Target(c)], others)
            THEN Go(c, [req[c] EXCEPT !.pc = "commit", !.others = others]) /\ UNCHANGED file
            ELSE Reply(c)
    /\ UNCHANGED <<users, store, counters, now, minted, bounds, basis, dead, crossed>>

(* The row as the statement leaves it.                                     *)
Changed(c, row) ==
    CASE req[c].cmd = "delete" -> NoUser
      [] req[c].cmd = "password" -> [row EXCEPT !.pw = edits + 1]
      [] OTHER -> [row EXCEPT !.enabled = req[c].cmd = "enable"]

\* Mutant of Commit: the sessions of the account are left alone.
CommitUnswept(c) ==
    /\ At(c, "commit") /\ Works
    /\ req[c].cmd = "password" => edits < MaxEdits
    /\ users' = [users EXCEPT ![Target(c)] = Changed(c, @)]
    /\ edits' = IF req[c].cmd = "password" THEN edits + 1 ELSE edits
    /\ Reply(c)
    /\ UNCHANGED <<store, counters, now, minted, started, basis, dead, crossed>>

(* The update locks the row, and its own columns are judged again when it  *)
(* changed meanwhile.  All but enabling sweep the user's sessions next.    *)
Commit(c) ==
    /\ At(c, "commit")
    /\ req[c].cmd = "password" => edits < MaxEdits
    /\ LET row == users[Target(c)]
       IN IF Where(c, row, req[c].others)
            THEN /\ users' = [users EXCEPT ![Target(c)] = Changed(c, row)]
                 /\ edits' = IF req[c].cmd = "password" THEN edits + 1 ELSE edits
                 /\ IF req[c].cmd = "enable" THEN Reply(c)
                    ELSE Go(c, [req[c] EXCEPT !.pc = "list", !.todo = {Target(c)}]) /\ UNCHANGED file
            ELSE Reply(c) /\ UNCHANGED <<users, edits>>
    /\ UNCHANGED <<store, counters, now, minted, started, errors, basis, dead, crossed>>

(* bootstrap-admin: only with no account left.                             *)
BootstrapAdmin ==
    /\ \A u \in Users : ~Exists(u)
    /\ edits < MaxEdits
    /\ users' = [users EXCEPT ![Root] =
         [id |-> edits + 1, pw |-> edits + 1, role |-> "admin", enabled |-> TRUE]]
    /\ edits' = edits + 1
    /\ UNCHANGED <<store, counters, now, req, file, minted, started, errors, basis, dead, crossed>>

(* Time passes; Redis drops the keys that expire.                          *)
Tick ==
    /\ now < MaxTime /\ now' = now + 1
    /\ LET lapsed == {t \in Tokens : Live(t) /\ sess[t].exp <= now'}
           Kept(k) == IF k.exp <= now' THEN Zero ELSE k
       IN /\ sess' = [t \in Tokens |-> IF t \in lapsed THEN NoSess ELSE sess[t]]
          /\ dead' = dead \cup lapsed
          /\ failed' = [u \in Users |-> Kept(failed[u])]
          /\ failedIP' = Kept(failedIP)
          /\ tickets' = [user |-> [u \in Users |-> IF Kept(failed[u]) = Zero THEN {}
                                                   ELSE tickets.user[u]],
                         ip |-> IF Kept(failedIP) = Zero THEN {} ELSE tickets.ip]
          /\ admitted' = [user |-> [u \in Users |-> IF Kept(failed[u]) = Zero THEN 0
                                                    ELSE admitted.user[u]],
                          ip |-> IF Kept(failedIP) = Zero THEN 0 ELSE admitted.ip]
    /\ UNCHANGED <<users, index, known, req, file, minted, bounds, basis, crossed>>

-----------------------------------------------------------------------------
Serve(c) ==
    \/ CheckLoginLockout(c) \/ CountUser(c) \/ CountIP(c) \/ LookUp(c) \/ ClearFailed(c)
    \/ StoreSession(c) \/ IndexSession(c) \/ FinishLogin(c)
    \/ AuthGet(c) \/ AuthTouch(c)
    \/ RevokeSession(c) \/ RevokeUnindex(c) \/ ListSessions(c) \/ ListPrune(c)
    \/ RevokeEvery(c) \/ SweepList(c) \/ SweepDel(c) \/ SweepDrop(c) \/ SweepForget(c)
    \/ CreateAdminUser(c) \/ ReadRow(c) \/ Statement(c) \/ Commit(c)

Next ==
    \/ \E c \in Clients, p \in Profiles :
         \/ \E u \in Users, pw \in 1..edits : RunLogin(c, p, u, pw)
         \/ RunUser(c, p) \/ RunSession(c, p) \/ RunOwn(c, p)
    \/ \E c \in Clients : Serve(c)
    \/ BootstrapAdmin
    \/ Tick

Spec == Init /\ [][Next]_vars

-----------------------------------------------------------------------------
(* Stored accounts have a known role, stored sessions have not expired,    *)
(* and the session files hold tokens that were issued.                     *)
TypeOK ==
    /\ \A u \in Users : Exists(u) =>
         users[u].role \in DOMAIN rolePermissions /\ users[u].id \in 1..edits
    /\ \A t \in Tokens : Live(t) => t \in minted /\ sess[t].exp > now
    /\ index \in [Users -> SUBSET minted] /\ known \subseteq Users
    /\ \A p \in Profiles : file[p] \in minted \cup {NoToken}
    /\ failed \in [Users -> [n : Nat, exp : Nat]] /\ failedIP \in [n : Nat, exp : Nat]

(* A session that was revoked or expired never comes back, whatever        *)
(* request read it before (ValidateSession's SetXX, session.go:196).       *)
RevokedForGood == \A t \in dead : ~Live(t)

Sweeping(u) ==
    \E c \in Clients : /\ req[c].cmd \in {"disable", "delete", "password"}
                       /\ req[c].user = u /\ req[c].pc \in {"list", "sweep", "forget"}

(* Once a disable, a delete or a password change has been served, the only *)
(* sessions left of logins from before it are those that crossed a sweep   *)
(* or that a Redis error kept from it.                                     *)
StaleSessionsSwept ==
    \A t \in Tokens \ crossed :
      Live(t) /\ users[sess[t].user] # basis[t] => Sweeping(sess[t].user)

(* A later "revoke all" finds every session whose login is over: it is in  *)
(* its user's index and the user is in the set of users, unless the login  *)
(* crossed a sweep, or a failed command at its login, at a sweep or at its *)
(* revocation kept it there.                                               *)
SessionsIndexed ==
    TypeOK /\ \A t \in Tokens \ crossed :
      /\ Live(t)
      /\ \A c \in Clients : ~(LoginOf(c) /\ req[c].tok = t)
      => t \in index[sess[t].user] /\ sess[t].user \in known

(* Of the attempts that a counter has counted since its last reset, no     *)
(* more get to have their password compared than the lockout allows,       *)
(* however many logins run at once: each is counted before it is judged    *)
(* (login.go:123-149).  An attempt the address's counter failed to answer  *)
(* for is not among them (login.go:133).                                   *)
LockoutHolds ==
    /\ \A u \in Users : admitted.user[u] <= MaxLoginAttempts
    /\ admitted.ip <= IPCeiling

(* "It enforces that at least one active administrator always exists"      *)
(* (internal/store/admin_users.go:107, 131).                               *)
AdminRemains == \E u \in Users : Admin(u)
=============================================================================
