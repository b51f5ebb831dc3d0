------------------------ MODULE AdminSessionsProofs -------------------------
(***************************************************************************)
(* Administrator sessions for any number of accounts, clients, profiles    *)
(* and tokens, any timeouts, and any failures of Redis.                    *)
(***************************************************************************)
EXTENDS AdminSessions, FiniteSetTheorems, TLAPS

Roles == {"admin", "operator", "viewer"}

RowRec == [id : Nat, pw : Nat, role : Roles \cup {"none"}, enabled : BOOLEAN]

SessRec == [user : Users, role : Roles \cup {"none"}, created : Nat, active : Nat, exp : Nat]

Before == {"check", "count", "countIP", "lookup"}
Issued == {"clear", "store"}
Stored == {"index", "known"}
Changes == {"enable", "disable", "delete", "password"}
Swept == {"disable", "delete", "password"}

Points ==
  {"idle", "auth", "touch", "del", "srem", "scan", "peek", "every", "list", "sweep", "forget",
   "insert", "row", "update", "commit", "check", "count", "countIP", "lookup", "clear", "store",
   "index", "known"}

Commands ==
  {"whoami", "logout", "login", "create", "list", "revoke", "revoke-all", "revoke-every",
   "enable", "disable", "delete", "password"}

ReqRec ==
  [pc : Points, cmd : Commands,
   prof : Profiles, user : Users, pw : Nat, tok : Tokens \cup {NoToken}, row : RowRec,
   got : SessRec, at : Nat, n : Nat, others : BOOLEAN, ids : SUBSET Tokens, todo : SUBSET Users]

CounterRec == [n : Nat, exp : Nat]

\* The tokens under which a session was ever stored.
Used == {t \in Tokens : Live(t)} \cup dead

\* What a handler may rely on, by where it is.
ReqOK(r) ==
  /\ r \in ReqRec
  /\ r.pc = "idle" => r = Idle
  /\ r.cmd = "login" <=> r.pc \in Before \cup Issued \cup Stored
  /\ r.tok \in minted \cup {NoToken} /\ r.ids \subseteq minted
  /\ r.pc \in Before => r.tok = NoToken
  /\ r.pc \in Issued => /\ r.tok \in minted \ Used
                        /\ r.row.enabled /\ r.row.role \in Roles
  /\ r.pc \in Stored => /\ r.tok \in Used
                        /\ Live(r.tok) => sess[r.tok].user = r.user
  /\ r.pc = "known" /\ Live(r.tok) /\ r.tok \notin crossed => r.tok \in index[r.user]
  /\ r.pc = "auth" => r.tok \in minted
  /\ r.pc = "touch" => /\ r.tok \in Used
                       /\ Live(r.tok) => sess[r.tok].user = r.got.user
                       /\ r.at < r.got.created + SessionAbsTimeout
  /\ r.pc = "del" \/ (r.cmd = "revoke" /\ r.pc \in {"auth", "touch"}) => \E t \in minted : r.ids = {t}
  /\ r.pc = "lookup" => r.n <= MaxLoginAttempts
  /\ r.pc = "srem" => r.ids \subseteq dead \cup crossed
  /\ r.pc = "sweep" => r.ids \subseteq Used
  /\ r.pc \in {"row", "update", "commit"} => r.cmd \in Changes
  /\ r.pc \in {"update", "commit"} => r.row.id # 0
  /\ r.pc = "every" => r.cmd = "revoke-every"
  /\ r.cmd \in Swept /\ r.pc \in {"list", "sweep"} => r.todo \subseteq {r.user}

\* A session, and what is remembered of it.
SessionOK(t) ==
  Live(t) => /\ t \in minted /\ t \notin dead
             /\ sess[t].exp > now /\ basis[t].enabled

\* Two logins never share a token.
OwnToken ==
  \A c, d \in Clients : c # d /\ LoginOf(c) /\ LoginOf(d) => req[c].tok # req[d].tok

\* The login that is storing a session, if there is one, will index it.
IndexedUnlessOwed ==
  \A t \in Tokens \ crossed : Live(t) =>
    \/ \E c \in Clients : LoginOf(c) /\ req[c].tok = t
    \/ t \in index[sess[t].user] /\ sess[t].user \in known

\* A sweep of the account that will meet the session.
Meets(r, t, u) ==
  /\ r.cmd \in Swept /\ r.user = u
  /\ \/ r.pc = "list" /\ u \in r.todo
     \/ r.pc = "sweep" /\ t \in r.ids

Met(t, u) == \E c \in Clients : Meets(req[c], t, u)

\* Every session, and every login before its session is stored, is of the account as it is
\* now, or will be met.
StaleMet ==
  /\ \A t \in Tokens \ crossed :
       Live(t) /\ users[sess[t].user] # basis[t] => Met(t, sess[t].user)
  /\ \A c \in Clients :
       /\ req[c].pc \in Issued /\ req[c].tok \notin crossed
       /\ users[req[c].user] # req[c].row
       => Met(req[c].tok, req[c].user)

\* The attempts that hold a ticket within the limit, and those compared already, fit the
\* count and the limit.
Fits(a, S, n, max) ==
  /\ IsFiniteSet(S) /\ a \in Nat
  /\ a + Cardinality(S) <= n /\ a + Cardinality(S) <= max

Within(S) == {p \in S : p[2] <= MaxLoginAttempts}

Counted ==
  /\ \A u \in Users : Fits(admitted.user[u], Within(tickets.user[u]), failed[u].n, MaxLoginAttempts)
  /\ Fits(admitted.ip, tickets.ip, failedIP.n, IPCeiling)

Tallies ==
  /\ admitted \in [user : [Users -> Nat], ip : Nat]
  /\ tickets \in [user : [Users -> SUBSET (Clients \X Nat)], ip : SUBSET Clients]

Types ==
  /\ users \in [Users -> RowRec] /\ sess \in [Tokens -> SessRec] /\ basis \in [Tokens -> RowRec]
  /\ req \in [Clients -> ReqRec]
  /\ index \in [Users -> SUBSET Tokens] /\ known \subseteq Users
  /\ failed \in [Users -> CounterRec] /\ failedIP \in CounterRec /\ Tallies
  /\ file \in [Profiles -> Tokens \cup {NoToken}]
  /\ now \in Nat /\ edits \in Nat /\ errors \in Nat
  /\ minted \subseteq Tokens /\ dead \subseteq minted /\ crossed \subseteq Tokens

AccountsOK ==
  \A u \in Users : Exists(u) => users[u].role \in Roles /\ users[u].id \in 1 .. edits

\* The inductive invariant.
IInv ==
  /\ Types /\ AccountsOK
  /\ \A p \in Profiles : file[p] \in minted \cup {NoToken}
  /\ \A u \in Users : index[u] \subseteq Used
  /\ \A t \in Tokens : SessionOK(t)
  /\ \A c \in Clients : ReqOK(req[c])
  /\ OwnToken /\ IndexedUnlessOwed /\ StaleMet /\ Counted

-----------------------------------------------------------------------------
\* The constants' types.
LEMMA Constants ==
  /\ DOMAIN rolePermissions = Roles /\ \A u \in Users : Role[u] \in Roles
  /\ Root \in Users /\ RootProfile \in Profiles /\ RootToken \in Tokens /\ NoToken \notin Tokens
  /\ SessionAbsTimeout \in Nat /\ SessionAbsTimeout > 0
  /\ MaxLoginAttempts \in Nat /\ IPCeiling \in Nat /\ LockoutDuration \in Nat
<1>1. DOMAIN rolePermissions = Roles
  BY DEF rolePermissions, Roles
<1>2. /\ {MaxLoginAttempts, IPCeiling, SessionAbsTimeout, SessionIdleTimeout, LockoutDuration}
           \subseteq Nat \ {0}
  BY SessionsAssumption
<1>3. /\ SessionAbsTimeout \in Nat /\ SessionAbsTimeout > 0
      /\ MaxLoginAttempts \in Nat /\ IPCeiling \in Nat /\ LockoutDuration \in Nat
  BY <1>2
<1> QED BY <1>1, <1>3, SessionsAssumption

\* The idle records.
LEMMA IdleRecs ==
  /\ NoUser \in RowRec /\ NoSess \in SessRec /\ Idle \in ReqRec /\ Zero \in CounterRec
  /\ NoUser.enabled = FALSE /\ NoUser.id = 0 /\ NoSess.exp = 0
  /\ Idle.pc = "idle" /\ Idle.cmd = "whoami" /\ Idle.tok = NoToken /\ Idle.ids = {} /\ Idle.todo = {}
  /\ Zero.n = 0
<1>1. NoUser \in RowRec /\ NoUser.enabled = FALSE /\ NoUser.id = 0
  BY DEF NoUser, RowRec
<1>2. NoSess \in SessRec /\ NoSess.exp = 0
  BY Constants DEF NoSess, SessRec
<1>3. Zero \in CounterRec /\ Zero.n = 0
  BY DEF Zero, CounterRec
<1>4. /\ Idle.pc = "idle" /\ Idle.cmd = "whoami" /\ Idle.tok = NoToken /\ Idle.ids = {}
      /\ Idle.todo = {}
  BY DEF Idle
<1>5. Idle \in ReqRec
  BY <1>1, <1>2, Constants DEF Idle, ReqRec, Points, Commands
<1> QED BY <1>1, <1>2, <1>3, <1>4, <1>5

\* An idle client has nothing to account for.
LEMMA IdleOK == ReqOK(Idle)
  BY IdleRecs DEF ReqOK, Before, Issued, Stored, Swept

\* How attempts and comparisons come and go.
LEMMA FitsNone == ASSUME NEW n \in Nat, NEW max \in Nat PROVE Fits(0, {}, n, max)
<1>1. IsFiniteSet({}) /\ Cardinality({}) = 0
  BY FS_EmptySet
<1> QED BY <1>1 DEF Fits

LEMMA FitsLimit ==
  ASSUME NEW a, NEW S, NEW n, NEW max \in Nat, Fits(a, S, n, max)
  PROVE  a <= max
<1>1. Cardinality(S) \in Nat
  BY FS_CardinalityType DEF Fits
<1> QED BY <1>1 DEF Fits

LEMMA FitsMore ==
  ASSUME NEW a, NEW S, NEW n \in Nat, NEW max \in Nat, NEW m \in Nat, n <= m, Fits(a, S, n, max)
  PROVE  Fits(a, S, m, max)
<1>1. Cardinality(S) \in Nat
  BY FS_CardinalityType DEF Fits
<1> QED BY <1>1 DEF Fits

LEMMA FitsIssue ==
  ASSUME NEW a, NEW S, NEW n \in Nat, NEW max \in Nat, NEW x, n + 1 <= max, Fits(a, S, n, max)
  PROVE  Fits(a, S \cup {x}, n + 1, max)
<1>1. /\ IsFiniteSet(S \cup {x}) /\ Cardinality(S) \in Nat
      /\ Cardinality(S \cup {x}) = Cardinality(S) \/ Cardinality(S \cup {x}) = Cardinality(S) + 1
  BY FS_CardinalityType, FS_AddElement DEF Fits
<1>2. a \in Nat /\ a + Cardinality(S) <= n /\ a + Cardinality(S) <= max
  BY DEF Fits
<1> DEFINE i == Cardinality(S)
           j == Cardinality(S \cup {x})
<1>3. i \in Nat /\ (j = i \/ j = i + 1) /\ a \in Nat /\ a + i <= n /\ a + i <= max
  BY <1>1, <1>2
<1> HIDE DEF i, j
<1>4. a + j <= n + 1 /\ a + j <= max
  BY <1>3
<1> QED BY <1>1, <1>2, <1>4 DEF Fits, j

LEMMA FitsCompare ==
  ASSUME NEW a, NEW S, NEW n \in Nat, NEW max \in Nat, NEW x, Fits(a, S, n, max)
  PROVE  /\ Fits(a, S \ {x}, n, max)
         /\ x \in S => Fits(a + 1, S \ {x}, n, max)
<1>1. /\ IsFiniteSet(S \ {x}) /\ Cardinality(S) \in Nat
      /\ Cardinality(S \ {x}) = IF x \in S THEN Cardinality(S) - 1 ELSE Cardinality(S)
  BY FS_CardinalityType, FS_RemoveElement DEF Fits
<1>2. a \in Nat /\ a + Cardinality(S) <= n /\ a + Cardinality(S) <= max
  BY DEF Fits
<1>3. Cardinality(S \ {x}) \in Nat
  BY <1>1, FS_CardinalityType
<1> DEFINE i == Cardinality(S)
           j == Cardinality(S \ {x})
<1>4. /\ i \in Nat /\ j \in Nat /\ a \in Nat /\ a + i <= n /\ a + i <= max
      /\ j = IF x \in S THEN i - 1 ELSE i
  BY <1>1, <1>2, <1>3
<1> HIDE DEF i, j
<1>5. /\ a + j <= n /\ a + j <= max
      /\ x \in S => a + 1 \in Nat /\ a + 1 + j <= n /\ a + 1 + j <= max
  BY <1>4
<1> QED BY <1>1, <1>2, <1>5 DEF Fits, j

LEMMA WithinTickets ==
  /\ Within({}) = {}
  /\ \A S, p : Within(S \ {p}) = Within(S) \ {p}
  /\ \A S, p : p[2] <= MaxLoginAttempts => Within(S \cup {p}) = Within(S) \cup {p}
  /\ \A S, p : ~(p[2] <= MaxLoginAttempts) => Within(S \cup {p}) = Within(S)
  /\ \A S, p : p[2] <= MaxLoginAttempts => (p \in Within(S) <=> p \in S)
  BY DEF Within

\* The initial state satisfies the invariant.
LEMMA InitSound == Init => IInv
<1> SUFFICES ASSUME Init PROVE IInv
  OBVIOUS
<1>1. \A u \in Users : /\ FirstRow(u) \in RowRec /\ FirstRow(u).role \in Roles
                       /\ FirstRow(u).enabled = TRUE /\ FirstRow(u).id = 1
  BY Constants DEF FirstRow, RowRec
<1> DEFINE first == [user |-> Root, role |-> "admin", created |-> 0, active |-> 0,
                     exp |-> SessionAbsTimeout]
<1>2. first \in SessRec /\ first.exp = SessionAbsTimeout /\ first.user = Root
  BY Constants DEF SessRec, Roles
<1>3. /\ sess = [t \in Tokens |-> IF t = RootToken THEN first ELSE NoSess]
      /\ first # NoSess
  BY <1>2, Constants, IdleRecs DEF Init
<1> HIDE DEF first
<1>4. /\ sess \in [Tokens -> SessRec] /\ \A t \in Tokens : Live(t) <=> t = RootToken
      /\ sess[RootToken] = first
  BY <1>2, <1>3, IdleRecs, Constants DEF Live
<1>5. Types
  <2>1. users \in [Users -> RowRec] /\ basis \in [Tokens -> RowRec]
    BY <1>1, IdleRecs, Constants DEF Init
  <2>2. req \in [Clients -> ReqRec]
    BY IdleRecs DEF Init
  <2>3. /\ index \in [Users -> SUBSET Tokens] /\ known \subseteq Users
        /\ file \in [Profiles -> Tokens \cup {NoToken}]
        /\ minted \subseteq Tokens /\ dead \subseteq minted /\ crossed \subseteq Tokens
    BY Constants DEF Init
  <2>4. failed \in [Users -> CounterRec] /\ failedIP \in CounterRec
    BY IdleRecs DEF Init
  <2>5. Tallies /\ now \in Nat /\ edits \in Nat /\ errors \in Nat
    BY DEF Init, Tallies
  <2> QED BY <1>4, <2>1, <2>2, <2>3, <2>4, <2>5 DEF Types
<1>6. AccountsOK
  BY <1>1 DEF Init, AccountsOK
<1>7. /\ \A p \in Profiles : file[p] \in minted \cup {NoToken}
      /\ \A u \in Users : index[u] \subseteq Used
  BY <1>4, Constants DEF Init, Used
<1>8. \A t \in Tokens : SessionOK(t)
  BY <1>1, <1>2, <1>4, Constants DEF Init, SessionOK
<1>9. \A c \in Clients : req[c] = Idle
  BY DEF Init
<1>10. \A c \in Clients : ReqOK(req[c])
  BY <1>9, IdleOK
<1>11. OwnToken
  BY <1>9, IdleRecs DEF OwnToken, LoginOf
<1>12. IndexedUnlessOwed
  BY <1>2, <1>4, Constants DEF IndexedUnlessOwed, Init
<1>13. StaleMet
  BY <1>2, <1>4, <1>9, IdleRecs, Constants DEF StaleMet, Init, Issued
<1>14. Counted
  <2>1. \A u \in Users : admitted.user[u] = 0 /\ tickets.user[u] = {} /\ failed[u].n = 0
    BY IdleRecs DEF Init
  <2>2. admitted.ip = 0 /\ tickets.ip = {} /\ failedIP.n = 0
    BY IdleRecs DEF Init
  <2>3. Fits(0, {}, 0, MaxLoginAttempts) /\ Fits(0, {}, 0, IPCeiling) /\ Within({}) = {}
    BY FitsNone, WithinTickets, Constants
  <2> QED BY <2>1, <2>2, <2>3 DEF Counted
<1> QED BY <1>5, <1>6, <1>7, <1>8, <1>10, <1>11, <1>12, <1>13, <1>14 DEF IInv

-----------------------------------------------------------------------------
\* What a step leaves of the store: no session is revived, none changes hands, and none
\* leaves an index unless it is gone or recorded as crossed.  The token s, if it is one, is
\* stored by the step.
Frame(s) ==
  /\ minted \subseteq minted' /\ dead \subseteq dead' /\ crossed \subseteq crossed'
  /\ s \notin Used /\ Used \subseteq Used' /\ Used' \subseteq Used \cup {s}
  /\ \A t \in Used : Live(t)' => Live(t) /\ sess'[t].user = sess[t].user
  /\ \A u \in Users : \A t \in index[u] :
       t \in index'[u] \/ ~Live(t)' \/ sess'[t].user # u \/ t \in crossed'

\* The steps that leave the store alone.
LEMMA QuietFrame ==
  ASSUME Types, sess' = sess, index' = index, dead' = dead, crossed' = crossed,
         minted \subseteq minted'
  PROVE  Frame(NoToken) /\ Used' = Used
<1>1. Used' = Used
  BY DEF Used, Live
<1>2. NoToken \notin Used
  BY Constants DEF Used, Types
<1> QED BY <1>1, <1>2 DEF Frame, Live

\* A handler that does not move keeps what it relies on.
LEMMA ReqKept ==
  ASSUME NEW s, NEW d \in Clients, req'[d] = req[d], ReqOK(req[d]), Frame(s),
         req[d].pc \in Issued => req[d].tok # s
  PROVE  ReqOK(req[d])'
<1>1. /\ req[d] \in ReqRec /\ req[d].user \in Users
  BY DEF ReqOK, ReqRec
<1>2. /\ req[d].pc = "idle" => req[d] = Idle
      /\ req[d].cmd = "login" <=> req[d].pc \in Before \cup Issued \cup Stored
      /\ req[d].pc \in Before => req[d].tok = NoToken
      /\ req[d].pc \in {"row", "update", "commit"} => req[d].cmd \in Changes
      /\ req[d].pc \in {"update", "commit"} => req[d].row.id # 0
      /\ req[d].pc = "every" => req[d].cmd = "revoke-every"
      /\ req[d].pc = "lookup" => req[d].n <= MaxLoginAttempts
      /\ req[d].cmd \in Swept /\ req[d].pc \in {"list", "sweep"} => req[d].todo \subseteq {req[d].user}
  BY DEF ReqOK
<1>3. /\ req[d].tok \in minted' \cup {NoToken} /\ req[d].ids \subseteq minted'
      /\ req[d].pc = "auth" => req[d].tok \in minted'
  BY DEF ReqOK, Frame
<1>4. req[d].pc \in Issued => /\ req[d].tok \in minted' \ Used'
                              /\ req[d].row.enabled /\ req[d].row.role \in Roles
  BY DEF ReqOK, Frame
<1>5. req[d].pc \in Stored => /\ req[d].tok \in Used'
                              /\ Live(req[d].tok)' => sess'[req[d].tok].user = req[d].user
  <2>1. SUFFICES ASSUME req[d].pc \in Stored
                 PROVE  /\ req[d].tok \in Used'
                        /\ Live(req[d].tok)' => sess'[req[d].tok].user = req[d].user
    OBVIOUS
  <2>2. req[d].tok \in Used /\ (Live(req[d].tok) => sess[req[d].tok].user = req[d].user)
    BY <2>1 DEF ReqOK
  <2> QED BY <2>2 DEF Frame, Live
<1>6. req[d].pc = "known" /\ Live(req[d].tok)' /\ req[d].tok \notin crossed'
        => req[d].tok \in index'[req[d].user]
  <2>1. SUFFICES ASSUME req[d].pc = "known", Live(req[d].tok)', req[d].tok \notin crossed'
                 PROVE  req[d].tok \in index'[req[d].user]
    OBVIOUS
  <2>2. req[d].tok \in Used
    BY <2>1 DEF ReqOK, Stored
  <2>3. /\ Live(req[d].tok) /\ req[d].tok \notin crossed
        /\ sess'[req[d].tok].user = req[d].user
    BY <2>1, <2>2, <1>2, <1>5 DEF Frame, Live, Stored
  <2>4. req[d].tok \in index[req[d].user]
    BY <2>1, <2>3 DEF ReqOK
  <2> QED BY <1>1, <1>2, <2>1, <2>3, <2>4 DEF Frame, Live
<1>7. req[d].pc = "touch" => /\ req[d].tok \in Used'
                             /\ Live(req[d].tok)' => sess'[req[d].tok].user = req[d].got.user
                             /\ req[d].at < req[d].got.created + SessionAbsTimeout
  <2>1. SUFFICES ASSUME req[d].pc = "touch"
                 PROVE  /\ req[d].tok \in Used'
                        /\ Live(req[d].tok)' => sess'[req[d].tok].user = req[d].got.user
                        /\ req[d].at < req[d].got.created + SessionAbsTimeout
    OBVIOUS
  <2>2. /\ req[d].tok \in Used /\ (Live(req[d].tok) => sess[req[d].tok].user = req[d].got.user)
        /\ req[d].at < req[d].got.created + SessionAbsTimeout
    BY <2>1 DEF ReqOK
  <2> QED BY <2>2 DEF Frame, Live
<1>8. req[d].pc = "del" \/ (req[d].cmd = "revoke" /\ req[d].pc \in {"auth", "touch"})
        => \E t \in minted' : req[d].ids = {t}
  BY DEF ReqOK, Frame
<1>9. /\ req[d].pc = "srem" => req[d].ids \subseteq dead' \cup crossed'
      /\ req[d].pc = "sweep" => req[d].ids \subseteq Used'
  BY DEF ReqOK, Frame
<1> QED
  BY <1>1, <1>2, <1>3, <1>4, <1>5, <1>6, <1>7, <1>8, <1>9 DEF ReqOK, Live

-----------------------------------------------------------------------------
\* The login of c keeps its token, or has just drawn a new one.
KeepsToken(c) ==
  LoginOf(c)' => req'[c].tok \notin minted \/ (LoginOf(c) /\ req'[c].tok = req[c].tok)

\* The login of c goes on, or has indexed its session; a user leaves the set of users with
\* crossed sessions only.
KeepsIndex(c) ==
  /\ \A t \in Tokens \ crossed' :
       LoginOf(c) /\ req[c].tok = t /\ Live(t)'
         => \/ LoginOf(c)' /\ req'[c].tok = t
            \/ t \in index'[req[c].user] /\ req[c].user \in known'
  /\ \A u \in known \ known' : \A t \in Tokens : Live(t)' /\ sess'[t].user = u => t \in crossed'

\* A login that has read the row and not yet stored the session.
Awaits(t, u) == \E d \in Clients : req[d].pc \in Issued /\ req[d].tok = t /\ req[d].user = u

\* The sweep of c still meets the sessions it was to meet, and its login is of a current row.
KeepsSweep(c) ==
  /\ \A t \in Tokens \ crossed', u \in Users :
       Meets(req[c], t, u) /\ ((Live(t)' /\ sess'[t].user = u) \/ Awaits(t, u))
         => Meets(req'[c], t, u)
  /\ req'[c].pc \in Issued =>
       \/ users[req'[c].user] = req'[c].row
       \/ /\ req[c].pc \in Issued /\ req'[c].tok = req[c].tok
          /\ req'[c].user = req[c].user /\ req'[c].row = req[c].row

\* Only the handler of c moves, and a session it stores is the one of its login.
MovesOnly(c, s) ==
  /\ \A d \in Clients \ {c} : req'[d] = req[d]
  /\ \A t \in Tokens \ {s} : basis'[t] = basis[t]
  /\ s = NoToken \/ s \in Used'
  /\ s \in Used' => /\ s \in Tokens /\ LoginOf(c) /\ req[c].pc = "store" /\ req[c].tok = s
                    /\ (LoginOf(c)' /\ req'[c].tok = s) \/ s \in crossed'
                    /\ sess'[s].user = req[c].user /\ basis'[s] = req[c].row

\* The parts of the invariant about one client and its login.
LEMMA LoginFacts ==
  ASSUME IInv, NEW d \in Clients
  PROVE  /\ req[d] \in ReqRec /\ req[d].user \in Users
         /\ LoginOf(d) => req[d].pc \in Issued \cup Stored
         /\ req[d].pc \in Issued \cup Stored => req[d].cmd = "login"
         /\ req[d].pc \in Issued => /\ LoginOf(d) /\ req[d].tok \in minted \ Used
                                    /\ req[d].tok \in Tokens
         /\ req[d].pc \in Stored => LoginOf(d) /\ req[d].tok \in Used
<1>1. ReqOK(req[d]) /\ minted \subseteq Tokens /\ Used \subseteq minted
  BY DEF IInv, Types, Used, SessionOK
<1>2. req[d] \in ReqRec /\ req[d].user \in Users
  BY <1>1 DEF ReqOK, ReqRec
<1>3. LoginOf(d) => req[d].pc \in Issued \cup Stored
  BY <1>1 DEF ReqOK, LoginOf
<1>4. req[d].pc \in Issued \cup Stored => req[d].cmd = "login"
  BY <1>1 DEF ReqOK
<1>5. req[d].pc \in Issued => /\ LoginOf(d) /\ req[d].tok \in minted \ Used
                              /\ req[d].tok \in Tokens
  BY <1>1, <1>4, Constants DEF ReqOK, LoginOf
<1>6. req[d].pc \in Stored => LoginOf(d) /\ req[d].tok \in Used
  BY <1>1, <1>4, Constants DEF ReqOK, LoginOf
<1> QED BY <1>2, <1>3, <1>4, <1>5, <1>6

\* Every handler relies on what it did, when one of them moves.
LEMMA ReqsKept ==
  ASSUME IInv, NEW c \in Clients, NEW s, Frame(s), MovesOnly(c, s), ReqOK(req[c])'
  PROVE  \A d \in Clients : ReqOK(req[d])'
<1>1. SUFFICES ASSUME NEW d \in Clients \ {c} PROVE ReqOK(req[d])'
  OBVIOUS
<1>2. req'[d] = req[d] /\ ReqOK(req[d])
  BY <1>1 DEF MovesOnly, IInv
<1>3. req[d].pc \in Issued => req[d].tok # s
  <2>1. SUFFICES ASSUME req[d].pc \in Issued, req[d].tok = s PROVE FALSE
    OBVIOUS
  <2>2. LoginOf(d) /\ req[d].tok \in minted /\ req[d].tok \notin Used
    BY <2>1, LoginFacts
  <2>3. CASE s \in Used'
    BY <2>1, <2>2, <2>3 DEF MovesOnly, IInv, OwnToken
  <2>4. CASE s = NoToken
    BY <2>1, <2>2, <2>4 DEF LoginOf
  <2> QED BY <2>3, <2>4 DEF MovesOnly
<1> QED BY <1>2, <1>3, ReqKept

\* Two logins still never share a token.
LEMMA OwnKept ==
  ASSUME IInv, NEW c \in Clients, NEW s, MovesOnly(c, s), KeepsToken(c)
  PROVE  OwnToken'
<1>1. SUFFICES ASSUME NEW d \in Clients, d # c, LoginOf(c)', LoginOf(d)'
               PROVE  req'[c].tok # req'[d].tok
  <2>1. SUFFICES ASSUME NEW a \in Clients, NEW b \in Clients, a # b, LoginOf(a)', LoginOf(b)'
                 PROVE  req'[a].tok # req'[b].tok
    BY DEF OwnToken
  <2>2. CASE a = c
    BY <1>1, <2>1, <2>2
  <2>3. CASE b = c
    BY <1>1, <2>1, <2>3
  <2>4. CASE a # c /\ b # c
    <3>1. req'[a] = req[a] /\ req'[b] = req[b]
      BY <2>4 DEF MovesOnly
    <3> QED BY <2>1, <3>1 DEF IInv, OwnToken, LoginOf
  <2> QED BY <2>2, <2>3, <2>4
<1>2. req'[d] = req[d] /\ LoginOf(d)
  BY <1>1 DEF MovesOnly, LoginOf
<1>3. req[d].tok \in minted
  BY <1>2 DEF IInv, ReqOK, LoginOf
<1> QED BY <1>1, <1>2, <1>3 DEF KeepsToken, IInv, OwnToken

\* Sessions are still indexed, or about to be.
LEMMA IndexKept ==
  ASSUME IInv, NEW c \in Clients, NEW s, Frame(s), MovesOnly(c, s), KeepsIndex(c),
         Types'
  PROVE  IndexedUnlessOwed'
<1>1. SUFFICES ASSUME NEW t \in Tokens, t \notin crossed', Live(t)',
                      ~\E d \in Clients : LoginOf(d)' /\ req'[d].tok = t
               PROVE  t \in index'[sess'[t].user] /\ sess'[t].user \in known'
  BY DEF IndexedUnlessOwed, Live
<1>2. t \in Used' /\ t # s
  BY <1>1 DEF Used, Live, MovesOnly
<1>3. t \in Used /\ Live(t) /\ sess'[t].user = sess[t].user /\ t \notin crossed
  BY <1>1, <1>2 DEF Frame, Live
<1>4. CASE \E d \in Clients : LoginOf(d) /\ req[d].tok = t
  <2>1. LoginOf(c) /\ req[c].tok = t
    BY <1>1, <1>4 DEF MovesOnly, LoginOf
  <2>2. req[c].pc \in Stored
    BY <1>3, <2>1, LoginFacts
  <2>3. sess[t].user = req[c].user
    BY <1>3, <2>1, <2>2 DEF IInv, ReqOK
  <2> QED BY <1>1, <1>3, <2>1, <2>3 DEF KeepsIndex, Live
<1>5. CASE t \in index[sess[t].user] /\ sess[t].user \in known
  <2>1. sess[t].user \in Users
    BY <1>5 DEF IInv, Types
  <2>2. t \in index'[sess[t].user]
    BY <1>1, <1>3, <1>5, <2>1 DEF Frame, Live
  <2>3. sess[t].user \in known'
    BY <1>1, <1>3, <1>5 DEF KeepsIndex, Live
  <2> QED BY <1>3, <2>2, <2>3
<1> QED BY <1>1, <1>3, <1>4, <1>5 DEF IInv, IndexedUnlessOwed

\* Stale sessions are still met.
LEMMA MetKept ==
  ASSUME IInv, NEW c \in Clients, NEW s, Frame(s), MovesOnly(c, s), KeepsSweep(c),
         users' = users
  PROVE  StaleMet'
<1>1. ASSUME NEW t \in Tokens, t \notin crossed', NEW u \in Users, Met(t, u),
             (Live(t)' /\ sess'[t].user = u) \/ Awaits(t, u)
      PROVE  \E d \in Clients : Meets(req'[d], t, u)
  <2>1. PICK d \in Clients : Meets(req[d], t, u)
    BY <1>1 DEF Met
  <2>2. CASE d = c
    BY <1>1, <2>1, <2>2 DEF KeepsSweep
  <2>3. CASE d # c
    BY <2>1, <2>3 DEF MovesOnly
  <2> QED BY <2>2, <2>3
<1>2. ASSUME NEW t \in Tokens, t \notin crossed', Live(t)', users'[sess'[t].user] # basis'[t]
      PROVE  \E d \in Clients : Meets(req'[d], t, sess'[t].user)
  <2>1. t \in Used' /\ t \notin crossed
    BY <1>2 DEF Used, Live, Frame
  <2>2. CASE t = s
    <3>1. /\ req[c].pc \in Issued /\ req[c].tok = t /\ sess'[t].user = req[c].user
          /\ users[req[c].user] # req[c].row
      BY <1>2, <2>1, <2>2 DEF MovesOnly, Issued
    <3>2. Met(t, req[c].user)
      BY <2>1, <3>1 DEF IInv, StaleMet
    <3>3. req[c].user \in Users
      BY LoginFacts
    <3> QED BY <1>1, <1>2, <3>1, <3>2, <3>3
  <2>3. CASE t # s
    <3>1. t \in Used
      BY <2>1, <2>3 DEF Frame
    <3>2. Live(t) /\ sess'[t].user = sess[t].user
      BY <1>2, <3>1 DEF Frame, Live
    <3>3. basis'[t] = basis[t]
      BY <2>3 DEF MovesOnly
    <3>4. Met(t, sess[t].user)
      BY <1>2, <2>1, <3>2, <3>3 DEF IInv, StaleMet
    <3>5. sess[t].user \in Users
      BY DEF IInv, Types, SessRec
    <3> QED BY <1>1, <1>2, <3>2, <3>4, <3>5
  <2> QED BY <2>2, <2>3
<1>3. ASSUME NEW d \in Clients, req'[d].pc \in Issued, req'[d].tok \notin crossed',
             users'[req'[d].user] # req'[d].row
      PROVE  \E e \in Clients : Meets(req'[e], req'[d].tok, req'[d].user)
  <2>1. /\ req[d].pc \in Issued /\ req'[d].tok = req[d].tok
        /\ req'[d].user = req[d].user /\ req'[d].row = req[d].row
    <3>1. CASE d = c
      BY <1>3, <3>1 DEF KeepsSweep
    <3>2. CASE d # c
      BY <1>3, <3>2 DEF MovesOnly
    <3> QED BY <3>1, <3>2
  <2>2. req[d].tok \in Tokens /\ req[d].user \in Users
    BY <2>1, LoginFacts
  <2>3. Met(req[d].tok, req[d].user)
    BY <1>3, <2>1 DEF IInv, StaleMet, Frame
  <2>4. Awaits(req[d].tok, req[d].user)
    BY <2>1 DEF Awaits
  <2> QED BY <1>1, <1>3, <2>1, <2>2, <2>3, <2>4
<1> QED BY <1>2, <1>3 DEF StaleMet, Met, Live

-----------------------------------------------------------------------------
\* The parts of the invariant that no handler's record enters.
Counters ==
  /\ failed \in [Users -> CounterRec] /\ failedIP \in CounterRec
  /\ Tallies /\ Counted

FilesOK == file \in [Profiles -> minted \cup {NoToken}]

LEMMA FilesCounters == ASSUME IInv PROVE Counters /\ FilesOK
<1>1. Counters
  BY DEF IInv, Types, Counters
<1>2. FilesOK
  BY DEF IInv, Types, FilesOK
<1> QED BY <1>1, <1>2

\* A step of one handler that leaves the accounts alone.
LEMMA HandlerStep ==
  ASSUME IInv, NEW c \in Clients, NEW s, Types', FilesOK', Counted', Frame(s), MovesOnly(c, s),
         ReqOK(req[c])', KeepsToken(c), KeepsIndex(c), KeepsSweep(c),
         users' = users, edits' = edits,
         \A u \in Users : index'[u] \subseteq Used',
         \A t \in Tokens : SessionOK(t)'
  PROVE  IInv'
<1>1. /\ \A d \in Clients : ReqOK(req[d])'
      /\ OwnToken' /\ IndexedUnlessOwed' /\ StaleMet'
  BY ReqsKept, OwnKept, IndexKept, MetKept
<1>2. AccountsOK'
  BY DEF IInv, AccountsOK, Exists
<1>3. \A p \in Profiles : file'[p] \in minted' \cup {NoToken}
  BY DEF FilesOK
<1> QED BY <1>1, <1>2, <1>3 DEF IInv

\* What the steps that only move a handler, or a counter, leave alone.
Unmoved == UNCHANGED <<users, sess, index, known, now, minted, edits, basis, dead, crossed>>

\* A step that only moves a handler, or a counter.
LEMMA Quiet ==
  ASSUME IInv, NEW c \in Clients, NEW r, ReqOK(r), Go(c, r), Unmoved,
         FilesOK', Counters', errors' \in Nat,
         r.cmd = "login" /\ r.tok # NoToken => LoginOf(c) /\ r.tok = req[c].tok,
         LoginOf(c) /\ Live(req[c].tok) => r.cmd = "login" /\ r.tok = req[c].tok,
         \A t \in Tokens, u \in Users : Meets(req[c], t, u) => Meets(r, t, u),
         r.pc \in Issued => /\ req[c].pc \in Issued /\ r.tok = req[c].tok
                            /\ r.user = req[c].user /\ r.row = req[c].row
  PROVE  IInv'
<1>1. /\ users' = users /\ sess' = sess /\ index' = index /\ known' = known /\ now' = now
      /\ minted' = minted /\ edits' = edits /\ basis' = basis /\ dead' = dead
      /\ crossed' = crossed
  BY DEF Unmoved
<1>2. Types
  BY DEF IInv
<1>3. req'[c] = r /\ \A d \in Clients \ {c} : req'[d] = req[d]
  BY <1>2 DEF Go, Types
<1>4. Types'
  <2>1. r \in ReqRec
    BY DEF ReqOK
  <2>2. req' \in [Clients -> ReqRec]
    BY <1>2, <2>1 DEF Go, Types
  <2>3. /\ failed' \in [Users -> CounterRec] /\ failedIP' \in CounterRec
        /\ Tallies'
    BY DEF Counters
  <2>4. file' \in [Profiles -> Tokens \cup {NoToken}]
    BY <1>1, <1>2 DEF FilesOK, Types
  <2> QED BY <1>1, <1>2, <2>2, <2>3, <2>4 DEF Types
<1>5. Frame(NoToken) /\ Used' = Used
  BY <1>1, <1>2, QuietFrame
<1>6. NoToken \notin Used
  BY <1>5 DEF Frame
<1>7. MovesOnly(c, NoToken)
  BY <1>1, <1>3, <1>5, <1>6 DEF MovesOnly
<1>8. ReqOK(req[c])'
  <2>1. ReqOK(req'[c])
    BY <1>3
  <2> QED BY <1>1, <1>5, <2>1 DEF ReqOK, Live
<1>9. KeepsToken(c)
  BY <1>3 DEF KeepsToken, LoginOf
<1>10. KeepsIndex(c)
  <2>1. ASSUME NEW t \in Tokens, LoginOf(c), req[c].tok = t, Live(t)'
        PROVE  LoginOf(c)' /\ req'[c].tok = t
    <3>1. Live(req[c].tok)
      BY <1>1, <2>1 DEF Live
    <3>2. t # NoToken
      BY Constants
    <3> QED BY <1>3, <2>1, <3>1, <3>2 DEF LoginOf
  <2> QED BY <1>1, <2>1 DEF KeepsIndex
<1>11. KeepsSweep(c)
  BY <1>3 DEF KeepsSweep
<1>12. /\ \A u \in Users : index'[u] \subseteq Used'
       /\ \A t \in Tokens : SessionOK(t)'
  BY <1>1, <1>5 DEF IInv, SessionOK, Live
<1>13. Counted'
  BY DEF Counters
<1> QED
  BY <1>1, <1>4, <1>5, <1>7, <1>8, <1>9, <1>10, <1>11, <1>12, <1>13, HandlerStep

\* What an answer does to the files.
LEMMA ReplyFiles ==
  ASSUME IInv, NEW c \in Clients, Reply(c), minted \subseteq minted'
  PROVE  FilesOK' /\ Go(c, Idle)
  BY FilesCounters DEF Reply, FilesOK, Go

\* An answer that only ends a handler.
LEMMA QuietReply ==
  ASSUME IInv, NEW c \in Clients, Reply(c), Unmoved, Counters', errors' \in Nat,
         req[c].pc \notin Stored, req[c].cmd \in Swept => req[c].pc \notin {"list", "sweep"}
  PROVE  IInv'
<1>1. FilesOK' /\ Go(c, Idle)
  BY ReplyFiles DEF Unmoved
<1>2. LoginOf(c) => ~Live(req[c].tok)
  BY LoginFacts DEF Used
<1>3. \A t \in Tokens, u \in Users : ~Meets(req[c], t, u)
  BY DEF Meets
<1>4. Idle.pc \notin Issued
  BY IdleRecs DEF Issued
<1>5. Idle.cmd # "login"
  BY IdleRecs
<1> QED BY <1>1, <1>2, <1>3, <1>4, <1>5, IdleOK, Quiet

-----------------------------------------------------------------------------
LEMMA CountersKept == ASSUME IInv, UNCHANGED counters PROVE Counters'
  BY FilesCounters DEF Counters, Counted, Tallies, counters

LEMMA FilesKept == ASSUME IInv, UNCHANGED <<file, minted>> PROVE FilesOK'
  BY FilesCounters DEF FilesOK

\* A command moves on and touches nothing.
LEMMA QuietMove ==
  ASSUME IInv, NEW c \in Clients, NEW r, ReqOK(r), Go(c, r), Unmoved,
         UNCHANGED <<counters, file>>, errors' \in Nat,
         req[c].cmd # "login", r.cmd # "login", r.pc \notin Issued,
         req[c].pc \notin {"list", "sweep"}
  PROVE  IInv'
<1>1. FilesOK' /\ Counters'
  BY CountersKept, FilesKept DEF Unmoved
<1>2. \A t \in Tokens, u \in Users : ~Meets(req[c], t, u)
  BY DEF Meets
<1>3. ~LoginOf(c)
  BY DEF LoginOf
<1> QED BY <1>1, <1>2, <1>3, Quiet

\* The types of a handler's record.
LEMMA ReqTypes ==
  ASSUME IInv, NEW c \in Clients
  PROVE  /\ ReqOK(req[c]) /\ req[c] \in ReqRec
         /\ req[c].cmd \in Commands /\ req[c].prof \in Profiles /\ req[c].user \in Users
         /\ req[c].pw \in Nat /\ req[c].tok \in Tokens \cup {NoToken} /\ req[c].row \in RowRec
         /\ req[c].got \in SessRec /\ req[c].at \in Nat /\ req[c].n \in Nat
         /\ req[c].ids \in SUBSET Tokens /\ req[c].todo \in SUBSET Users
         /\ req[c].others \in BOOLEAN /\ req[c].pc \in Points
<1>1. req[c] \in ReqRec /\ ReqOK(req[c])
  BY DEF IInv, ReqOK
<1> QED BY <1>1 DEF ReqRec

LEMMA Errors == ASSUME IInv, Works \/ Fails PROVE errors' \in Nat
  BY DEF IInv, Types, Works, Fails

LEMMA RunLoginSound ==
  ASSUME IInv, NEW c \in Clients, NEW p \in Profiles, NEW u \in Users, NEW pw \in 1 .. edits,
         RunLogin(c, p, u, pw)
  PROVE  IInv'
<1> DEFINE r == [req[c] EXCEPT !.pc = "check", !.cmd = "login", !.prof = p, !.user = u, !.pw = pw]
<1>1. req[c] = Idle
  BY ReqTypes DEF RunLogin, Begin, At, ReqOK
<1>2. Unmoved /\ UNCHANGED <<counters, file>> /\ errors' = errors /\ Go(c, r)
  BY DEF RunLogin, Unmoved, store, counters
<1>3. pw \in Nat /\ errors \in Nat
  BY DEF IInv, Types
<1>4. r \in ReqRec
  <2>1. "check" \in Points /\ "login" \in Commands
    BY DEF Points, Commands
  <2> QED BY <1>3, <2>1, ReqTypes DEF ReqRec
<1>5. r.pc = "check" /\ r.cmd = "login" /\ r.tok = NoToken /\ r.ids = {}
  BY <1>1, ReqTypes, IdleRecs DEF ReqRec
<1> HIDE DEF r
<1>6. ReqOK(r)
  BY <1>4, <1>5 DEF ReqOK, Before, Issued, Stored, Swept
<1>7. ~LoginOf(c) /\ \A t \in Tokens, v \in Users : ~Meets(req[c], t, v)
  BY <1>1, IdleRecs DEF LoginOf, Meets
<1>8. r.pc \notin Issued
  BY <1>5 DEF Issued
<1>9. FilesOK' /\ Counters'
  BY <1>2, CountersKept, FilesKept DEF Unmoved
<1> QED BY <1>2, <1>3, <1>5, <1>6, <1>7, <1>8, <1>9, Quiet

LEMMA RunCommandSound ==
  ASSUME IInv, NEW c \in Clients, NEW p \in Profiles, NEW cmd \in Commands \ {"login"},
         NEW u \in Users, NEW pw \in Nat, NEW ids \in SUBSET minted,
         cmd = "revoke" => \E t \in minted : ids = {t},
         RunCommand(c, p, cmd, u, pw, ids)
  PROVE  IInv'
<1> DEFINE r == [req[c] EXCEPT !.pc = "auth", !.cmd = cmd, !.prof = p, !.user = u, !.tok = file[p],
                               !.pw = pw, !.ids = ids]
<1>1. req[c] = Idle
  BY ReqTypes DEF RunCommand, Begin, At, ReqOK
<1>2. Unmoved /\ UNCHANGED <<counters, file>> /\ errors' = errors /\ Go(c, r)
  BY DEF RunCommand, Unmoved, store, counters
<1>3. file[p] \in minted /\ minted \subseteq Tokens /\ errors \in Nat
  BY DEF IInv, Types, RunCommand
<1>4. r \in ReqRec
  <2>1. "auth" \in Points
    BY DEF Points
  <2> QED BY <1>3, <2>1, ReqTypes DEF ReqRec
<1>5. r.pc = "auth" /\ r.cmd = cmd /\ r.tok = file[p] /\ r.ids = ids
  BY ReqTypes DEF ReqRec
<1> HIDE DEF r
<1>6. ReqOK(r)
  BY <1>3, <1>4, <1>5 DEF ReqOK, Before, Issued, Stored, Swept
<1>7. req[c].cmd # "login" /\ req[c].pc \notin {"list", "sweep"}
  BY <1>1, IdleRecs
<1>8. r.pc \notin Issued
  BY <1>5 DEF Issued
<1> QED BY <1>2, <1>3, <1>5, <1>6, <1>7, <1>8, QuietMove

LEMMA RunSound ==
  ASSUME IInv, NEW c \in Clients, NEW p \in Profiles,
         RunUser(c, p) \/ RunSession(c, p) \/ RunOwn(c, p)
  PROVE  IInv'
<1>1. ASSUME NEW cmd \in Commands \ {"login", "revoke"}, NEW u \in Users, NEW pw \in Nat,
             RunCommand(c, p, cmd, u, pw, {})
      PROVE  IInv'
  BY <1>1, RunCommandSound
<1>2. CASE RunUser(c, p)
  <2>1. CASE \E cmd \in {"create", "enable", "disable", "delete"}, u \in Users :
               RunCommand(c, p, cmd, u, 0, {})
    BY <1>1, <2>1 DEF Commands
  <2>2. CASE \E u \in Users, old \in 1 .. edits : RunCommand(c, p, "password", u, old, {})
    <3>1. PICK u \in Users, old \in 1 .. edits : RunCommand(c, p, "password", u, old, {})
      BY <2>2
    <3>2. old \in Nat
      BY DEF IInv, Types
    <3> QED BY <1>1, <3>1, <3>2 DEF Commands
  <2> QED BY <1>2, <2>1, <2>2 DEF RunUser
<1>3. CASE RunSession(c, p)
  <2>1. CASE \E cmd \in {"list", "revoke-every"} : RunCommand(c, p, cmd, Root, 0, {})
    BY <1>1, <2>1, Constants DEF Commands
  <2>2. CASE \E u \in Users : RunCommand(c, p, "revoke-all", u, 0, {})
    BY <1>1, <2>2 DEF Commands
  <2>3. CASE \E t \in minted : RunCommand(c, p, "revoke", Root, 0, {t})
    BY <2>3, Constants, RunCommandSound DEF Commands
  <2> QED BY <1>3, <2>1, <2>2, <2>3 DEF RunSession
<1>4. CASE RunOwn(c, p)
  BY <1>1, <1>4, Constants DEF RunOwn, Commands
<1> QED BY <1>2, <1>3, <1>4

-----------------------------------------------------------------------------
\* A login moves on and touches nothing but counters.
LEMMA LoginMove ==
  ASSUME IInv, NEW c \in Clients, NEW r, ReqOK(r), Go(c, r), Unmoved,
         UNCHANGED file, Counters', errors' \in Nat,
         req[c].cmd = "login", r.cmd = "login", r.tok = req[c].tok,
         r.pc \in Issued => req[c].pc \in Issued /\ r.user = req[c].user /\ r.row = req[c].row
  PROVE  IInv'
<1>1. FilesOK'
  BY FilesKept DEF Unmoved
<1>2. \A t \in Tokens, u \in Users : ~Meets(req[c], t, u)
  BY DEF Meets, Swept
<1> QED BY <1>1, <1>2, Quiet DEF LoginOf

LEMMA CheckLoginLockoutSound ==
  ASSUME IInv, NEW c \in Clients, CheckLoginLockout(c)
  PROVE  IInv'
<1>1. /\ req[c].pc = "check" /\ req[c].cmd = "login" /\ Unmoved /\ UNCHANGED counters
      /\ errors' = errors
  BY DEF CheckLoginLockout, Login, At, Unmoved, store, counters, bounds
<1>2. Counters' /\ errors' \in Nat
  BY <1>1, CountersKept DEF IInv, Types
<1> DEFINE r == [req[c] EXCEPT !.pc = "count", !.n = failed[req[c].user].n]
<1>3. CASE Reply(c)
  BY <1>1, <1>2, <1>3, QuietReply DEF Stored, Swept
<1>4. CASE Go(c, r) /\ UNCHANGED file
  <2>1. failed[req[c].user].n \in Nat
    BY ReqTypes DEF IInv, Types, CounterRec
  <2>2. "count" \in Points
    BY DEF Points
  <2>3. r \in ReqRec
    BY <2>1, <2>2, ReqTypes DEF ReqRec
  <2>4. r.pc = "count" /\ r.cmd = "login" /\ r.tok = req[c].tok /\ r.ids = req[c].ids
    BY <1>1, ReqTypes DEF ReqRec
  <2> HIDE DEF r
  <2>5. ReqOK(r)
    BY <1>1, <2>3, <2>4, ReqTypes DEF ReqOK, Before, Issued, Stored, Swept
  <2>6. r.pc \notin Issued
    BY <2>4 DEF Issued
  <2> QED BY <1>1, <1>2, <1>4, <2>4, <2>5, <2>6, LoginMove
<1> QED BY <1>3, <1>4 DEF CheckLoginLockout, Target

\* An attempt is counted by the counter before it is judged.
LEMMA Incr ==
  ASSUME IInv, NEW k \in CounterRec
  PROVE  IncrWithTTL(k) \in CounterRec /\ IncrWithTTL(k).n = k.n + 1
<1>1. now \in Nat /\ LockoutDuration \in Nat
  BY Constants DEF IInv, Types
<1>2. k.n \in Nat /\ k.exp \in Nat
  BY DEF CounterRec
<1>3. k.n + 1 \in Nat /\ (IF k.n = 0 THEN now + LockoutDuration ELSE k.exp) \in Nat
  BY <1>1, <1>2
<1> QED BY <1>3 DEF IncrWithTTL, CounterRec

LEMMA CountUserSound ==
  ASSUME IInv, NEW c \in Clients, CountUser(c)
  PROVE  IInv'
<1>1. req[c].pc = "count" /\ req[c].cmd = "login" /\ Unmoved /\ failedIP' = failedIP
  BY DEF CountUser, Login, At, Unmoved, store
<1> DEFINE u == req[c].user
           k == IncrWithTTL(failed[u])
           r == [req[c] EXCEPT !.pc = "countIP", !.n = k.n]
           p == <<c, k.n>>
<1>2. u \in Users /\ failed \in [Users -> CounterRec] /\ failed[u] \in CounterRec
  BY ReqTypes DEF IInv, Types
<1>3. k \in CounterRec /\ k.n = failed[u].n + 1 /\ k.n \in Nat /\ failed[u].n \in Nat
  BY <1>2, Incr DEF CounterRec
<1>4. /\ Counters /\ MaxLoginAttempts \in Nat /\ admitted' = admitted
      /\ tickets \in [user : [Users -> SUBSET (Clients \X Nat)], ip : SUBSET Clients]
  BY FilesCounters, Constants DEF Counters, Tallies, CountUser
<1>5. CASE Fails /\ Reply(c) /\ failed' \in {failed, [failed EXCEPT ![u] = k]} /\ UNCHANGED tickets
  <2>1. failed' \in [Users -> CounterRec] /\ \A v \in Users : failed'[v].n >= failed[v].n
    <3>1. \A v \in Users : failed[v].n \in Nat
      BY <1>2 DEF CounterRec
    <3> HIDE DEF k, u
    <3> QED BY <1>2, <1>3, <1>5, <3>1
  <2>2. ASSUME NEW v \in Users
        PROVE  Fits(admitted.user[v], Within(tickets.user[v]), failed'[v].n, MaxLoginAttempts)
    <3>1. failed[v].n \in Nat /\ failed'[v].n \in Nat /\ failed[v].n <= failed'[v].n
      BY <1>2, <2>1 DEF CounterRec
    <3> QED BY <1>4, <3>1, FitsMore DEF Counters, Counted
  <2>3. Counters'
    BY <1>1, <1>4, <1>5, <2>1, <2>2 DEF Counters, Counted, Tallies
  <2> QED BY <1>1, <1>5, <2>3, QuietReply, Errors DEF Stored, Swept
<1>6. CASE /\ Works /\ failed' = [failed EXCEPT ![u] = k]
           /\ tickets' = [tickets EXCEPT !.user[u] = @ \cup {p}]
           /\ Go(c, r) /\ UNCHANGED file
  <2>3. "countIP" \in Points
    BY DEF Points
  <2>4. r \in ReqRec
    BY <1>3, <2>3, ReqTypes DEF ReqRec
  <2>5. r.pc = "countIP" /\ r.cmd = "login" /\ r.tok = req[c].tok /\ r.ids = req[c].ids
    BY <1>1, ReqTypes DEF ReqRec
  <2> HIDE DEF k, u, r
  <2>6. p \in Clients \X Nat /\ p[2] = k.n
    BY <1>3
  <2> HIDE DEF p
  <2>7. ReqOK(r)
    BY <1>1, <2>4, <2>5, ReqTypes DEF ReqOK, Before, Issued, Stored, Swept
  <2>8. r.pc \notin Issued
    BY <2>5 DEF Issued
  <2>9. /\ tickets' \in [user : [Users -> SUBSET (Clients \X Nat)], ip : SUBSET Clients]
        /\ tickets'.ip = tickets.ip
        /\ tickets'.user[u] = tickets.user[u] \cup {p}
        /\ \A v \in Users \ {u} : tickets'.user[v] = tickets.user[v]
    <3>1. tickets' = [tickets EXCEPT !.user = [tickets.user EXCEPT ![u] = tickets.user[u] \cup {p}]]
      BY <1>6
    <3> QED BY <1>2, <1>4, <2>6, <3>1
  <2>10. failed'[u] = k /\ \A v \in Users \ {u} : failed'[v] = failed[v]
    BY <1>2, <1>6
  <2>11. Fits(admitted.user[u], Within(tickets.user[u]), failed[u].n, MaxLoginAttempts)
    BY <1>2, <1>4 DEF Counters, Counted
  <2>12. Fits(admitted.user[u], Within(tickets.user[u] \cup {p}), k.n, MaxLoginAttempts)
    <3>1. CASE k.n <= MaxLoginAttempts
      <4>1. Within(tickets.user[u] \cup {p}) = Within(tickets.user[u]) \cup {p}
        BY <2>6, <3>1, WithinTickets
      <4>2. failed[u].n \in Nat /\ failed[u].n + 1 <= MaxLoginAttempts /\ k.n = failed[u].n + 1
        BY <1>3, <3>1
      <4>3. Fits(admitted.user[u], Within(tickets.user[u]) \cup {p}, failed[u].n + 1, MaxLoginAttempts)
        BY <1>4, <2>11, <4>2, FitsIssue
      <4> QED BY <4>1, <4>2, <4>3
    <3>2. CASE ~(k.n <= MaxLoginAttempts)
      <4>1. Within(tickets.user[u] \cup {p}) = Within(tickets.user[u])
        BY <2>6, <3>2, WithinTickets
      <4>2. failed[u].n <= k.n
        BY <1>3
      <4> QED BY <1>3, <1>4, <2>11, <4>1, <4>2, FitsMore
    <3> QED BY <3>1, <3>2
  <2>13. ASSUME NEW v \in Users
         PROVE  Fits(admitted.user[v], Within(tickets'.user[v]), failed'[v].n, MaxLoginAttempts)
    <3>1. CASE v = u
      BY <2>9, <2>10, <2>12, <3>1
    <3>2. CASE v # u
      BY <1>4, <2>9, <2>10, <3>2 DEF Counters, Counted
    <3> QED BY <3>1, <3>2
  <2>14. failed' \in [Users -> CounterRec]
    BY <1>2, <1>3, <1>6
  <2>15. Counters'
    BY <1>1, <1>4, <2>9, <2>13, <2>14 DEF Counters, Counted, Tallies
  <2> QED BY <1>1, <1>6, <2>5, <2>7, <2>8, <2>15, LoginMove, Errors
<1> QED BY <1>5, <1>6 DEF CountUser, Target

\* An attempt that is refused gives up its ticket.
LEMMA TicketDropped ==
  ASSUME IInv, NEW u \in Users, NEW p,
         tickets' = [tickets EXCEPT !.user[u] = @ \ {p}]
  PROVE  /\ tickets' \in [user : [Users -> SUBSET (Clients \X Nat)], ip : SUBSET Clients]
         /\ tickets'.ip = tickets.ip
         /\ \A v \in Users :
              Fits(admitted.user[v], Within(tickets'.user[v]), failed[v].n, MaxLoginAttempts)
<1>1. /\ Counters /\ MaxLoginAttempts \in Nat
      /\ tickets \in [user : [Users -> SUBSET (Clients \X Nat)], ip : SUBSET Clients]
  BY FilesCounters, Constants DEF Counters, Tallies
<1>2. tickets' = [tickets EXCEPT !.user = [tickets.user EXCEPT ![u] = tickets.user[u] \ {p}]]
  OBVIOUS
<1>3. /\ tickets' \in [user : [Users -> SUBSET (Clients \X Nat)], ip : SUBSET Clients]
      /\ tickets'.ip = tickets.ip
      /\ tickets'.user[u] = tickets.user[u] \ {p}
      /\ \A v \in Users \ {u} : tickets'.user[v] = tickets.user[v]
  BY <1>1, <1>2
<1>4. \A v \in Users : /\ Fits(admitted.user[v], Within(tickets.user[v]), failed[v].n, MaxLoginAttempts)
                       /\ failed[v].n \in Nat
  BY <1>1 DEF Counters, Counted, CounterRec
<1>5. Fits(admitted.user[u], Within(tickets.user[u]) \ {p}, failed[u].n, MaxLoginAttempts)
  BY <1>1, <1>4, FitsCompare
<1>6. Within(tickets.user[u] \ {p}) = Within(tickets.user[u]) \ {p}
  BY WithinTickets
<1> QED BY <1>3, <1>4, <1>5, <1>6

LEMMA CountIPSound ==
  ASSUME IInv, NEW c \in Clients, CountIP(c)
  PROVE  IInv'
<1>1. /\ req[c].pc = "countIP" /\ req[c].cmd = "login" /\ Unmoved /\ failed' = failed
      /\ admitted' = admitted
  BY DEF CountIP, Login, At, Unmoved, store
<1> DEFINE k == IncrWithTTL(failedIP)
           u == req[c].user
           p == <<c, req[c].n>>
           r == [req[c] EXCEPT !.pc = "lookup"]
           Refused == Reply(c) /\ tickets' = [tickets EXCEPT !.user[u] = @ \ {p}]
           Passed == Go(c, r) /\ UNCHANGED file /\ req[c].n <= MaxLoginAttempts
<1>2. /\ Counters /\ u \in Users /\ req[c].n \in Nat
      /\ MaxLoginAttempts \in Nat /\ IPCeiling \in Nat
      /\ tickets \in [user : [Users -> SUBSET (Clients \X Nat)], ip : SUBSET Clients]
  BY FilesCounters, ReqTypes, Constants DEF Counters, Tallies
<1>3. failedIP \in CounterRec /\ failedIP.n \in Nat /\ Fits(admitted.ip, tickets.ip, failedIP.n, IPCeiling)
  BY <1>2 DEF Counters, Counted, CounterRec
<1>4. k \in CounterRec /\ k.n = failedIP.n + 1 /\ k.n \in Nat
  BY <1>3, Incr DEF CounterRec
<1>5. /\ Works \/ Fails
      /\ \/ failedIP' \in {failedIP, k} /\ Refused
         \/ failedIP' \in {failedIP, k} /\ Passed /\ UNCHANGED tickets
         \/ /\ failedIP' = k /\ k.n <= IPCeiling /\ Passed
            /\ tickets' = [tickets EXCEPT !.ip = @ \cup {c}]
  <2> HIDE DEF k
  <2>1. /\ (~(req[c].n > MaxLoginAttempts)) => req[c].n <= MaxLoginAttempts
        /\ (~(k.n > IPCeiling)) => k.n <= IPCeiling
    BY <1>2, <1>4
  <2> QED BY <2>1 DEF CountIP, Target, k
<1> HIDE DEF k, p
<1>6. Reply(c) \/ Passed
  BY <1>5
<1>7. Counters'
  <2>1. failedIP' \in CounterRec
    BY <1>3, <1>4, <1>5
  <2>2. failedIP' \in {failedIP, k} => Fits(admitted.ip, tickets.ip, failedIP'.n, IPCeiling)
    <3>1. failedIP.n <= k.n
      BY <1>3, <1>4
    <3>2. Fits(admitted.ip, tickets.ip, k.n, IPCeiling)
      BY <1>2, <1>3, <1>4, <3>1, FitsMore
    <3> QED BY <1>3, <3>2
  <2>3. CASE failedIP' \in {failedIP, k} /\ tickets' = [tickets EXCEPT !.user[u] = @ \ {p}]
    <3>1. /\ tickets' \in [user : [Users -> SUBSET (Clients \X Nat)], ip : SUBSET Clients]
          /\ tickets'.ip = tickets.ip
          /\ \A v \in Users :
               Fits(admitted.user[v], Within(tickets'.user[v]), failed[v].n, MaxLoginAttempts)
      BY <1>2, <2>3, TicketDropped
    <3> QED BY <1>1, <1>2, <2>1, <2>2, <2>3, <3>1 DEF Counters, Counted, Tallies
  <2>4. CASE failedIP' \in {failedIP, k} /\ UNCHANGED tickets
    BY <1>1, <1>2, <2>1, <2>2, <2>4 DEF Counters, Counted, Tallies
  <2>5. CASE failedIP' = k /\ k.n <= IPCeiling /\ tickets' = [tickets EXCEPT !.ip = @ \cup {c}]
    <3>1. Fits(admitted.ip, tickets.ip \cup {c}, failedIP.n + 1, IPCeiling)
      BY <1>2, <1>3, <1>4, <2>5, FitsIssue
    <3>2. /\ tickets' \in [user : [Users -> SUBSET (Clients \X Nat)], ip : SUBSET Clients]
          /\ tickets'.ip = tickets.ip \cup {c} /\ tickets'.user = tickets.user
      BY <1>2, <2>5
    <3> QED BY <1>1, <1>2, <1>4, <2>1, <2>5, <3>1, <3>2 DEF Counters, Counted, Tallies
  <2> QED BY <1>5, <2>3, <2>4, <2>5
<1>8. CASE Reply(c)
  BY <1>1, <1>5, <1>7, <1>8, QuietReply, Errors DEF Stored, Swept
<1>9. CASE Passed
  <2>1. "lookup" \in Points
    BY DEF Points
  <2>2. r \in ReqRec
    BY <2>1, ReqTypes DEF ReqRec
  <2>3. /\ r.pc = "lookup" /\ r.cmd = "login" /\ r.tok = req[c].tok /\ r.ids = req[c].ids
        /\ r.n = req[c].n
    BY <1>1, ReqTypes DEF ReqRec
  <2> HIDE DEF r
  <2>4. ReqOK(r)
    BY <1>1, <1>9, <2>2, <2>3, ReqTypes DEF ReqOK, Before, Issued, Stored, Swept
  <2>5. r.pc \notin Issued
    BY <2>3 DEF Issued
  <2> QED BY <1>1, <1>5, <1>7, <1>9, <2>3, <2>4, <2>5, LoginMove, Errors
<1> QED BY <1>6, <1>8, <1>9

LEMMA ClearFailedSound ==
  ASSUME IInv, NEW c \in Clients, ClearFailed(c)
  PROVE  IInv'
<1> DEFINE u == req[c].user
           r == [req[c] EXCEPT !.pc = "store"]
<1>1. /\ req[c].pc = "clear" /\ req[c].cmd = "login" /\ Unmoved /\ failedIP' = failedIP
      /\ errors' \in Nat /\ file' = file /\ Go(c, r)
  BY Errors DEF ClearFailed, Login, At, Unmoved, store
<1>2. \/ /\ failed' = [failed EXCEPT ![u] = Zero]
         /\ tickets' = [tickets EXCEPT !.user = [tickets.user EXCEPT ![u] = {}]]
         /\ admitted' = [admitted EXCEPT !.user = [admitted.user EXCEPT ![u] = 0]]
      \/ UNCHANGED <<failed, tickets, admitted>>
  BY DEF ClearFailed, Target
<1>3. "store" \in Points
  BY DEF Points
<1>4. r \in ReqRec
  BY <1>3, ReqTypes DEF ReqRec
<1>5. /\ r.pc = "store" /\ r.cmd = "login" /\ r.tok = req[c].tok /\ r.ids = req[c].ids
      /\ r.user = req[c].user /\ r.row = req[c].row
  BY <1>1, ReqTypes DEF ReqRec
<1> HIDE DEF r
<1>6. ReqOK(r)
  BY <1>1, <1>4, <1>5, ReqTypes DEF ReqOK, Before, Issued, Stored, Swept
<1>7. req[c].pc \in Issued
  BY <1>1 DEF Issued
<1>8. CASE UNCHANGED <<failed, tickets, admitted>>
  <2>1. Counters'
    BY <1>1, <1>8, CountersKept DEF counters
  <2> QED BY <1>1, <1>5, <1>6, <1>7, <2>1, LoginMove
<1>9. CASE ~UNCHANGED <<failed, tickets, admitted>>
  <2>1. Counters /\ u \in Users /\ MaxLoginAttempts \in Nat
    BY FilesCounters, ReqTypes, Constants
  <2> HIDE DEF u
  <2>2. /\ admitted \in [user : [Users -> Nat], ip : Nat] /\ failed \in [Users -> CounterRec]
        /\ tickets \in [user : [Users -> SUBSET (Clients \X Nat)], ip : SUBSET Clients]
    BY <2>1 DEF Counters, Tallies
  <2>3. /\ admitted' \in [user : [Users -> Nat], ip : Nat] /\ admitted'.ip = admitted.ip
        /\ admitted'.user[u] = 0
        /\ \A v \in Users \ {u} : admitted'.user[v] = admitted.user[v]
    BY <1>2, <1>9, <2>1, <2>2
  <2>4. /\ tickets' \in [user : [Users -> SUBSET (Clients \X Nat)], ip : SUBSET Clients]
        /\ tickets'.ip = tickets.ip /\ tickets'.user[u] = {}
        /\ \A v \in Users \ {u} : tickets'.user[v] = tickets.user[v]
    BY <1>2, <1>9, <2>1, <2>2
  <2>5. /\ failed' \in [Users -> CounterRec] /\ failed'[u].n = 0
        /\ \A v \in Users \ {u} : failed'[v] = failed[v]
    BY <1>2, <1>9, <2>1, <2>2, IdleRecs
  <2>6. Fits(0, Within({}), 0, MaxLoginAttempts)
    BY <2>1, FitsNone, WithinTickets
  <2>7. \A v \in Users :
          Fits(admitted'.user[v], Within(tickets'.user[v]), failed'[v].n, MaxLoginAttempts)
    BY <2>1, <2>3, <2>4, <2>5, <2>6 DEF Counters, Counted
  <2>8. Counters'
    BY <1>1, <2>1, <2>3, <2>4, <2>5, <2>7 DEF Counters, Counted, Tallies
  <2> QED BY <1>1, <1>5, <1>6, <1>7, <2>8, LoginMove
<1> QED BY <1>8, <1>9

-----------------------------------------------------------------------------
LEMMA AuthGetSound ==
  ASSUME IInv, NEW c \in Clients, AuthGet(c)
  PROVE  IInv'
<1>1. /\ req[c].pc = "auth" /\ Unmoved /\ UNCHANGED counters /\ errors' = errors
      /\ errors' \in Nat
  BY DEF AuthGet, At, Unmoved, store, counters, bounds, IInv, Types
<1>2. req[c].cmd # "login" /\ req[c].tok \in minted /\ req[c].tok \in Tokens
  BY <1>1, ReqTypes DEF ReqOK, Before, Issued, Stored, IInv, Types
<1> DEFINE t == req[c].tok
           r1 == [req[c] EXCEPT !.pc = "del", !.ids = {t}]
           r2 == [req[c] EXCEPT !.pc = "touch", !.got = sess[t], !.at = now]
<1>3. CASE Reply(c)
  BY <1>1, <1>3, QuietReply, CountersKept DEF Stored
<1>4. CASE Go(c, r1) /\ UNCHANGED file
  <2>1. "del" \in Points
    BY DEF Points
  <2>2. r1 \in ReqRec /\ r1.pc = "del" /\ r1.ids = {t} /\ r1.cmd = req[c].cmd /\ r1.tok = t
    BY <1>2, <2>1, ReqTypes DEF ReqRec
  <2> HIDE DEF r1
  <2>3. ReqOK(r1)
    BY <1>2, <2>2 DEF ReqOK, Before, Issued, Stored, Swept
  <2>4. r1.pc \notin Issued
    BY <2>2 DEF Issued
  <2> QED BY <1>1, <1>2, <1>4, <2>2, <2>3, <2>4, QuietMove
<1>5. CASE /\ Go(c, r2) /\ UNCHANGED file /\ Live(t)
           /\ ~(now - sess[t].created >= SessionAbsTimeout)
  <2>1. "touch" \in Points /\ now \in Nat /\ sess[t] \in SessRec /\ sess[t].created \in Nat
    BY <1>2 DEF Points, IInv, Types, SessRec
  <2>2. /\ r2 \in ReqRec /\ r2.pc = "touch" /\ r2.ids = req[c].ids /\ r2.cmd = req[c].cmd
        /\ r2.tok = t /\ r2.at = now /\ r2.got = sess[t]
    BY <1>2, <2>1, ReqTypes DEF ReqRec
  <2>3. now < sess[t].created + SessionAbsTimeout
    BY <1>5, <2>1, Constants
  <2> HIDE DEF r2
  <2>4. t \in Used
    BY <1>2, <1>5 DEF Used
  <2>5. r2.ids \subseteq minted /\ (r2.cmd = "revoke" => \E x \in minted : r2.ids = {x})
    BY <1>1, <2>2, ReqTypes DEF ReqOK
  <2>6. ReqOK(r2)
    BY <1>2, <2>2, <2>3, <2>4, <2>5 DEF ReqOK, Before, Issued, Stored, Swept
  <2>7. r2.pc \notin Issued
    BY <2>2 DEF Issued
  <2> QED BY <1>1, <1>2, <1>5, <2>2, <2>6, <2>7, QuietMove
<1> QED BY <1>3, <1>4, <1>5 DEF AuthGet

LEMMA UsedIssued == ASSUME IInv PROVE Used \subseteq minted /\ minted \subseteq Tokens /\ NoToken \notin Used
  BY Constants DEF IInv, Types, Used, SessionOK

LEMMA ListSessionsSound ==
  ASSUME IInv, NEW c \in Clients, ListSessions(c)
  PROVE  IInv'
<1> DEFINE ids == UNION {index[u] : u \in IF req[c].got.role = "admin" THEN known ELSE {Self(c)}}
           r == [req[c] EXCEPT !.pc = "peek", !.ids = ids]
<1>1. /\ req[c].pc = "scan" /\ Unmoved /\ UNCHANGED <<counters, file>> /\ errors' \in Nat
      /\ Go(c, r)
  BY DEF ListSessions, At, Unmoved, store, counters, bounds, IInv, Types
<1>2. req[c].cmd # "login" /\ req[c].tok \in minted \cup {NoToken}
  BY <1>1, ReqTypes DEF ReqOK, Before, Issued, Stored
<1>3. ids \subseteq minted
  <2>1. Self(c) \in Users /\ known \subseteq Users
    BY ReqTypes DEF Self, SessRec, IInv, Types
  <2> QED BY <2>1, UsedIssued DEF IInv
<1> HIDE DEF ids
<1>4. "peek" \in Points /\ ids \in SUBSET Tokens
  BY <1>3, UsedIssued DEF Points
<1>5. r \in ReqRec /\ r.pc = "peek" /\ r.ids = ids /\ r.cmd = req[c].cmd /\ r.tok = req[c].tok
  BY <1>4, ReqTypes DEF ReqRec
<1> HIDE DEF r
<1>6. ReqOK(r) /\ r.pc \notin Issued
  BY <1>2, <1>3, <1>5 DEF ReqOK, Before, Issued, Stored, Swept
<1> QED BY <1>1, <1>2, <1>5, <1>6, QuietMove

LEMMA RevokeEverySound ==
  ASSUME IInv, NEW c \in Clients, RevokeEvery(c)
  PROVE  IInv'
<1> DEFINE r == [req[c] EXCEPT !.pc = "list", !.todo = known]
<1>1. req[c].pc = "every" /\ Unmoved /\ UNCHANGED counters /\ errors' \in Nat
  BY Errors DEF RevokeEvery, At, Unmoved, store, counters
<1>2. req[c].cmd = "revoke-every" /\ req[c].tok \in minted \cup {NoToken} /\ req[c].ids \subseteq minted
  BY <1>1, ReqTypes DEF ReqOK
<1>3. CASE Reply(c)
  BY <1>1, <1>3, QuietReply, CountersKept DEF Stored
<1>4. CASE Go(c, r) /\ UNCHANGED file
  <2>1. "list" \in Points /\ known \in SUBSET Users
    BY DEF Points, IInv, Types
  <2>2. /\ r \in ReqRec /\ r.pc = "list" /\ r.ids = req[c].ids /\ r.cmd = req[c].cmd
        /\ r.tok = req[c].tok
    BY <2>1, ReqTypes DEF ReqRec
  <2> HIDE DEF r
  <2>3. ReqOK(r) /\ r.pc \notin Issued
    BY <1>2, <2>2 DEF ReqOK, Before, Issued, Stored, Swept
  <2> QED BY <1>1, <1>2, <1>4, <2>2, <2>3, QuietMove
<1> QED BY <1>3, <1>4 DEF RevokeEvery

LEMMA ReadRowSound ==
  ASSUME IInv, NEW c \in Clients, ReadRow(c)
  PROVE  IInv'
<1> DEFINE row == users[req[c].user]
           r == [req[c] EXCEPT !.pc = "update", !.row = row]
<1>1. req[c].pc = "row" /\ Unmoved /\ UNCHANGED counters /\ errors' \in Nat
  BY DEF ReadRow, At, Unmoved, store, counters, bounds, IInv, Types
<1>2. req[c].cmd \in Changes /\ req[c].tok \in minted \cup {NoToken} /\ req[c].ids \subseteq minted
  BY <1>1, ReqTypes DEF ReqOK
<1>3. CASE Reply(c)
  BY <1>1, <1>3, QuietReply, CountersKept DEF Stored
<1>4. CASE Go(c, r) /\ UNCHANGED file /\ Exists(req[c].user)
  <2>1. "update" \in Points /\ row \in RowRec
    BY ReqTypes DEF Points, IInv, Types
  <2>2. row.id # 0
    BY <1>4, ReqTypes DEF IInv, AccountsOK
  <2>3. /\ r \in ReqRec /\ r.pc = "update" /\ r.ids = req[c].ids /\ r.cmd = req[c].cmd
        /\ r.tok = req[c].tok /\ r.row = row
    BY <2>1, ReqTypes DEF ReqRec
  <2> HIDE DEF r, row
  <2>4. ReqOK(r) /\ r.pc \notin Issued /\ req[c].cmd # "login"
    BY <1>2, <2>2, <2>3 DEF ReqOK, Before, Issued, Stored, Swept, Changes
  <2> QED BY <1>1, <1>2, <1>4, <2>3, <2>4, QuietMove
<1> QED BY <1>3, <1>4 DEF ReadRow

LEMMA StatementSound ==
  ASSUME IInv, NEW c \in Clients, Statement(c)
  PROVE  IInv'
<1> DEFINE others == \E v \in Users \ {Target(c)} : Admin(v)
           r == [req[c] EXCEPT !.pc = "commit", !.others = others]
<1>1. req[c].pc = "update" /\ Unmoved /\ UNCHANGED counters /\ errors' \in Nat
  BY DEF Statement, At, Unmoved, store, counters, bounds, IInv, Types
<1>2. /\ req[c].cmd \in Changes /\ req[c].tok \in minted \cup {NoToken} /\ req[c].ids \subseteq minted
      /\ req[c].row.id # 0
  BY <1>1, ReqTypes DEF ReqOK
<1>3. CASE Reply(c)
  BY <1>1, <1>3, QuietReply, CountersKept DEF Stored
<1>4. CASE Go(c, r) /\ UNCHANGED file
  <2>1. "commit" \in Points /\ others \in BOOLEAN
    BY DEF Points
  <2> HIDE DEF others
  <2>2. /\ r \in ReqRec /\ r.pc = "commit" /\ r.ids = req[c].ids /\ r.cmd = req[c].cmd
        /\ r.tok = req[c].tok /\ r.row = req[c].row
    BY <2>1, ReqTypes DEF ReqRec
  <2> HIDE DEF r
  <2>3. ReqOK(r) /\ r.pc \notin Issued /\ req[c].cmd # "login"
    BY <1>2, <2>2 DEF ReqOK, Before, Issued, Stored, Swept, Changes
  <2> QED BY <1>1, <1>2, <1>4, <2>2, <2>3, QuietMove
<1> QED BY <1>3, <1>4 DEF Statement

-----------------------------------------------------------------------------
\* The types that a step of a handler can disturb.
LEMMA TypesMoved ==
  ASSUME IInv, NEW c \in Clients, NEW r \in ReqRec, Go(c, r),
         UNCHANGED <<users, now, edits>>, Counters', errors' \in Nat, FilesOK',
         sess' \in [Tokens -> SessRec], basis' \in [Tokens -> RowRec],
         index' \in [Users -> SUBSET Tokens], known' \subseteq Users,
         minted' \subseteq Tokens, dead' \subseteq minted', crossed' \subseteq Tokens
  PROVE  /\ Types' /\ Counted'
         /\ req'[c] = r /\ \A d \in Clients \ {c} : req'[d] = req[d]
<1>1. Types
  BY DEF IInv
<1>2. /\ req' \in [Clients -> ReqRec] /\ req'[c] = r
      /\ \A d \in Clients \ {c} : req'[d] = req[d]
  BY <1>1 DEF Go, Types
<1>3. file' \in [Profiles -> Tokens \cup {NoToken}]
  BY DEF FilesOK
<1>4. failed' \in [Users -> CounterRec] /\ failedIP' \in CounterRec /\ Tallies' /\ Counted'
  BY DEF Counters
<1>5. Types'
  BY <1>1, <1>2, <1>3, <1>4 DEF Types
<1> QED BY <1>2, <1>4, <1>5

LEMMA TypesKept ==
  ASSUME IInv, NEW c \in Clients, NEW r \in ReqRec, Go(c, r),
         UNCHANGED <<users, counters, now, edits>>, errors' \in Nat, FilesOK',
         sess' \in [Tokens -> SessRec], basis' \in [Tokens -> RowRec],
         index' \in [Users -> SUBSET Tokens], known' \subseteq Users,
         minted' \subseteq Tokens, dead' \subseteq minted', crossed' \subseteq Tokens
  PROVE  /\ Types' /\ Counted'
         /\ req'[c] = r /\ \A d \in Clients \ {c} : req'[d] = req[d]
<1>1. Counters'
  BY CountersKept
<1> QED BY <1>1, TypesMoved

\* A comparison turns a ticket into one more compared.
LEMMA CompareCounts ==
  ASSUME IInv, NEW c \in Clients, req[c].pc = "lookup", Compare(c), UNCHANGED <<failed, failedIP>>
  PROVE  Counters'
<1> DEFINE u == req[c].user
           p == <<c, req[c].n>>
           a == admitted.user[u] + IF p \in tickets.user[u] THEN 1 ELSE 0
           b == admitted.ip + IF c \in tickets.ip THEN 1 ELSE 0
<1>1. /\ admitted' = [user |-> [admitted.user EXCEPT ![u] = a], ip |-> b]
      /\ tickets' = [user |-> [tickets.user EXCEPT ![u] = tickets.user[u] \ {p}],
                     ip |-> tickets.ip \ {c}]
  BY DEF Compare, Target
<1>2. /\ Counters /\ u \in Users /\ req[c].n <= MaxLoginAttempts
      /\ MaxLoginAttempts \in Nat /\ IPCeiling \in Nat
      /\ failedIP.n \in Nat /\ failed[u].n \in Nat
  BY FilesCounters, ReqTypes, Constants DEF Counters, CounterRec, ReqOK
<1>3. p[2] <= MaxLoginAttempts
  BY <1>2
<1> HIDE DEF p, u
<1>4. /\ admitted.user \in [Users -> Nat] /\ admitted.ip \in Nat
      /\ tickets.user \in [Users -> SUBSET (Clients \X Nat)] /\ tickets.ip \in SUBSET Clients
  BY <1>2 DEF Counters, Tallies
<1>5. /\ Fits(admitted.user[u], Within(tickets.user[u]), failed[u].n, MaxLoginAttempts)
      /\ Fits(admitted.ip, tickets.ip, failedIP.n, IPCeiling)
  BY <1>2 DEF Counters, Counted
<1>6. Fits(a, Within(tickets.user[u] \ {p}), failed[u].n, MaxLoginAttempts) /\ a \in Nat
  <2>1. Within(tickets.user[u] \ {p}) = Within(tickets.user[u]) \ {p}
    BY WithinTickets
  <2>2. p \in tickets.user[u] => p \in Within(tickets.user[u])
    BY <1>3, WithinTickets
  <2>3. /\ Fits(admitted.user[u], Within(tickets.user[u]) \ {p}, failed[u].n, MaxLoginAttempts)
        /\ p \in Within(tickets.user[u]) =>
             Fits(admitted.user[u] + 1, Within(tickets.user[u]) \ {p}, failed[u].n, MaxLoginAttempts)
    BY <1>2, <1>5, FitsCompare
  <2>4. a = admitted.user[u] + 1 \/ a = admitted.user[u]
    BY <1>2, <1>4
  <2>5. p \in tickets.user[u] => a = admitted.user[u] + 1
    OBVIOUS
  <2>6. p \notin tickets.user[u] => a = admitted.user[u]
    BY <1>2, <1>4
  <2> HIDE DEF a
  <2>7. Fits(a, Within(tickets.user[u]) \ {p}, failed[u].n, MaxLoginAttempts)
    BY <2>2, <2>3, <2>5, <2>6
  <2> QED BY <2>1, <2>7 DEF Fits
<1>7. Fits(b, tickets.ip \ {c}, failedIP.n, IPCeiling) /\ b \in Nat
  <2>1. /\ Fits(admitted.ip, tickets.ip \ {c}, failedIP.n, IPCeiling)
        /\ c \in tickets.ip => Fits(admitted.ip + 1, tickets.ip \ {c}, failedIP.n, IPCeiling)
    BY <1>2, <1>5, FitsCompare
  <2>2. c \in tickets.ip => b = admitted.ip + 1
    OBVIOUS
  <2>3. c \notin tickets.ip => b = admitted.ip
    BY <1>4
  <2> HIDE DEF b
  <2>4. Fits(b, tickets.ip \ {c}, failedIP.n, IPCeiling)
    BY <2>1, <2>2, <2>3
  <2> QED BY <2>4 DEF Fits
<1> HIDE DEF a, b
<1>8. /\ Tallies' /\ admitted'.ip = b /\ tickets'.ip = tickets.ip \ {c}
      /\ admitted'.user[u] = a /\ tickets'.user[u] = tickets.user[u] \ {p}
      /\ \A v \in Users \ {u} : admitted'.user[v] = admitted.user[v] /\ tickets'.user[v] = tickets.user[v]
  BY <1>1, <1>2, <1>4, <1>6, <1>7 DEF Tallies
<1>9. ASSUME NEW v \in Users
      PROVE  Fits(admitted'.user[v], Within(tickets'.user[v]), failed'[v].n, MaxLoginAttempts)
  <2>1. CASE v = u
    BY <1>6, <1>8, <2>1
  <2>2. CASE v # u
    BY <1>2, <1>8, <2>2 DEF Counters, Counted
  <2> QED BY <2>1, <2>2
<1> QED BY <1>2, <1>7, <1>8, <1>9 DEF Counters, Counted

LEMMA LookUpSound ==
  ASSUME IInv, NEW c \in Clients, LookUp(c)
  PROVE  IInv'
<1>1. /\ req[c].pc = "lookup" /\ req[c].cmd = "login" /\ errors' = errors /\ errors' \in Nat
      /\ UNCHANGED <<users, sess, index, known, now, edits, basis, dead, crossed>>
      /\ UNCHANGED <<users, now, edits>>
  BY DEF LookUp, Login, At, store, bounds, IInv, Types
<1>c. Counters'
  BY <1>1, CompareCounts DEF LookUp
<1>2. CASE Reply(c) /\ UNCHANGED minted
  <2>1. Unmoved
    BY <1>1, <1>2 DEF Unmoved
  <2> QED BY <1>1, <1>c, <1>2, <2>1, QuietReply DEF Stored, Swept
<1>3. ASSUME NEW t \in Tokens \ minted, minted' = minted \cup {t},
             Exists(req[c].user), users[req[c].user].enabled,
             Go(c, [req[c] EXCEPT !.pc = "clear", !.row = users[req[c].user], !.tok = t]),
             UNCHANGED file
      PROVE  IInv'
  <2> DEFINE row == users[req[c].user]
             r == [req[c] EXCEPT !.pc = "clear", !.row = row, !.tok = t]
  <2>1. "clear" \in Points /\ row \in RowRec /\ row.role \in Roles /\ row.enabled
    BY <1>3, ReqTypes DEF Points, IInv, Types, AccountsOK
  <2>2. /\ r \in ReqRec /\ r.pc = "clear" /\ r.cmd = "login" /\ r.tok = t /\ r.row = row
        /\ r.user = req[c].user /\ r.ids = req[c].ids
    BY <1>1, <2>1, ReqTypes DEF ReqRec
  <2>3. Go(c, r)
    BY <1>3
  <2>4. users[req[c].user] = row
    OBVIOUS
  <2> HIDE DEF r, row
  <2>5. FilesOK'
    BY <1>3, FilesCounters DEF FilesOK
  <2>6. Types
    BY DEF IInv
  <2>7. /\ Types' /\ Counted' /\ req'[c] = r /\ \A d \in Clients \ {c} : req'[d] = req[d]
    <3>1. /\ sess' \in [Tokens -> SessRec] /\ basis' \in [Tokens -> RowRec]
          /\ index' \in [Users -> SUBSET Tokens] /\ known' \subseteq Users
          /\ minted' \subseteq Tokens /\ dead' \subseteq minted' /\ crossed' \subseteq Tokens
      BY <1>1, <1>3, <2>6 DEF Types
    <3> QED BY <1>1, <1>c, <2>2, <2>3, <2>5, <3>1, TypesMoved
  <2>8. Frame(NoToken) /\ Used' = Used
    BY <1>1, <1>3, <2>6, QuietFrame
  <2>9. t \notin Used /\ NoToken \notin Used
    BY UsedIssued
  <2>10. MovesOnly(c, NoToken)
    BY <1>1, <2>7, <2>8, <2>9 DEF MovesOnly
  <2>11. ReqOK(req[c])'
    <3>1. req[c].ids \subseteq minted
      BY ReqTypes DEF ReqOK
    <3> QED BY <1>3, <2>1, <2>2, <2>7, <2>8, <2>9, <3>1
            DEF ReqOK, Before, Issued, Stored, Swept
  <2>12. ~LoginOf(c)
    BY <1>1, ReqTypes DEF ReqOK, Before, LoginOf
  <2>13. KeepsToken(c)
    BY <2>2, <2>7 DEF KeepsToken
  <2>14. KeepsIndex(c)
    BY <1>1, <2>12 DEF KeepsIndex
  <2>15. KeepsSweep(c)
    BY <1>1, <2>2, <2>4, <2>7 DEF KeepsSweep, Meets, Swept
  <2>16. /\ \A u \in Users : index'[u] \subseteq Used'
         /\ \A x \in Tokens : SessionOK(x)'
    BY <1>1, <1>3, <2>8 DEF IInv, SessionOK, Live
  <2> QED
    BY <1>1, <2>5, <2>7, <2>8, <2>10, <2>11, <2>13, <2>14, <2>15, <2>16, HandlerStep
<1> QED BY <1>2, <1>3 DEF LookUp, Target

LEMMA StoreSessionSound ==
  ASSUME IInv, NEW c \in Clients, StoreSession(c)
  PROVE  IInv'
<1>1. /\ req[c].pc = "store" /\ req[c].cmd = "login" /\ errors' \in Nat
      /\ UNCHANGED <<index, known, minted, dead>>
      /\ UNCHANGED <<users, counters, now, edits>>
  BY Errors DEF StoreSession, Login, At
<1>2. CASE Reply(c) /\ UNCHANGED <<sess, basis, crossed>>
  <2>1. Unmoved
    BY <1>1, <1>2 DEF Unmoved
  <2> QED BY <1>1, <1>2, <2>1, QuietReply, CountersKept DEF Stored, Swept
<1> DEFINE s == req[c].tok
           next == [req[c] EXCEPT !.pc = "index"]
           new == NewSession(c)
<1>3. CASE /\ sess' = [sess EXCEPT ![s] = new]
           /\ basis' = [basis EXCEPT ![s] = req[c].row]
           /\ \/ Go(c, next) /\ UNCHANGED <<file, crossed>>
              \/ Reply(c) /\ crossed' = crossed \cup {s}
  <2>1. Types
    BY DEF IInv
  <2>2. /\ s \in Tokens /\ s \in minted /\ s \notin Used /\ LoginOf(c) /\ s # NoToken
        /\ req[c].row.enabled /\ req[c].row.role \in Roles /\ req[c].pc \in Issued
    BY <1>1, LoginFacts, ReqTypes DEF Issued, ReqOK, LoginOf
  <2>3. /\ new \in SessRec /\ new.user = req[c].user /\ new.exp = now + SessionAbsTimeout
        /\ new.exp > now /\ new # NoSess
    <3>1. now \in Nat /\ now + SessionAbsTimeout \in Nat /\ now + SessionAbsTimeout > now
      BY <2>1, Constants DEF Types
    <3>2. /\ new.user = req[c].user /\ new.exp = now + SessionAbsTimeout
      BY DEF NewSession, Target
    <3>3. new \in SessRec
      BY <2>2, <3>1, ReqTypes DEF NewSession, Target, SessRec
    <3>4. new # NoSess
      BY <3>1, <3>2, IdleRecs
    <3> QED BY <3>1, <3>2, <3>3, <3>4
  <2>4. "index" \in Points
    BY DEF Points
  <2>5. /\ next \in ReqRec /\ next.pc = "index" /\ next.cmd = "login" /\ next.tok = s
        /\ next.user = req[c].user /\ next.ids = req[c].ids
    BY <1>1, <2>4, ReqTypes DEF ReqRec
  <2> HIDE DEF next, s, new
  <2>r. PICK r \in {next, Idle} :
          /\ Go(c, r) /\ FilesOK' /\ r \in ReqRec
          /\ \/ r = next /\ crossed' = crossed
             \/ r = Idle /\ crossed' = crossed \cup {s}
    <3>1. CASE Go(c, next) /\ UNCHANGED <<file, crossed>>
      BY <1>1, <2>5, <3>1, FilesKept
    <3>2. CASE Reply(c) /\ crossed' = crossed \cup {s}
      BY <1>1, <3>2, ReplyFiles, IdleRecs
    <3> QED BY <1>3, <3>1, <3>2
  <2>6. FilesOK' /\ crossed \subseteq crossed' /\ crossed' \subseteq Tokens
    BY <2>r, <2>1, <2>2 DEF Types
  <2>7. /\ sess' \in [Tokens -> SessRec] /\ basis' \in [Tokens -> RowRec]
        /\ sess'[s] = new /\ basis'[s] = req[c].row
        /\ \A t \in Tokens \ {s} : sess'[t] = sess[t] /\ basis'[t] = basis[t]
    BY <1>3, <2>1, <2>2, <2>3, ReqTypes DEF Types
  <2>8. /\ Types' /\ Counted' /\ req'[c] = r /\ \A d \in Clients \ {c} : req'[d] = req[d]
    <3>1. /\ index' \in [Users -> SUBSET Tokens] /\ known' \subseteq Users
          /\ minted' \subseteq Tokens /\ dead' \subseteq minted' /\ crossed' \subseteq Tokens
      BY <1>1, <2>1, <2>6 DEF Types
    <3> QED BY <1>1, <2>r, <2>6, <2>7, <3>1, TypesKept
  <2>9. /\ sess'[s] # NoSess
        /\ \A t \in Tokens \ {s} : Live(t)' <=> Live(t)
    BY <2>2, <2>3, <2>7 DEF Live
  <2>10. Used' = Used \cup {s}
    BY <1>1, <2>2, <2>9 DEF Used, Live
  <2>11. Frame(s)
    <3>1. \A t \in Used : t \in Tokens \ {s}
      BY <2>2, UsedIssued
    <3>2. \A t \in Used : Live(t)' => Live(t) /\ sess'[t].user = sess[t].user
      BY <2>7, <3>1 DEF Live
    <3> QED BY <1>1, <2>2, <2>6, <2>10, <3>2 DEF Frame
  <2>12. MovesOnly(c, s)
    <3>1. (LoginOf(c)' /\ req'[c].tok = s) \/ s \in crossed'
      BY <2>2, <2>5, <2>r, <2>8 DEF LoginOf
    <3>2. req[c].tok = s
      BY DEF s
    <3> QED BY <1>1, <2>2, <2>3, <2>7, <2>8, <2>10, <3>1, <3>2 DEF MovesOnly
  <2>13. ReqOK(req[c])'
    <3>1. req[c].ids \subseteq minted
      BY ReqTypes DEF ReqOK
    <3>2. CASE r = next
      BY <1>1, <2>2, <2>3, <2>5, <2>7, <2>8, <2>10, <3>1, <3>2
         DEF ReqOK, Before, Issued, Stored, Swept, Live
    <3>3. CASE r = Idle
      BY <2>8, <3>3, IdleRecs DEF ReqOK, Before, Issued, Stored, Swept
    <3> QED BY <3>2, <3>3
  <2>14. KeepsToken(c)
    BY <2>2, <2>5, <2>8, IdleRecs DEF KeepsToken, LoginOf, s
  <2>15. KeepsIndex(c)
    <3>1. req[c].tok = s /\ ((LoginOf(c)' /\ req'[c].tok = s) \/ s \in crossed')
      BY <2>2, <2>5, <2>r, <2>8 DEF LoginOf, s
    <3> QED BY <1>1, <3>1 DEF KeepsIndex
  <2>16. KeepsSweep(c)
    BY <1>1, <2>5, <2>8, IdleRecs DEF KeepsSweep, Meets, Swept, Issued
  <2>17. \A u \in Users : index'[u] \subseteq Used'
    BY <1>1, <2>10 DEF IInv
  <2>18. ASSUME NEW t \in Tokens PROVE SessionOK(t)'
    <3>1. CASE t = s
      <4>1. s \in minted' /\ s \notin dead' /\ sess'[s].exp > now' /\ basis'[s].enabled
        BY <1>1, <2>2, <2>3, <2>7 DEF Used
      <4> QED BY <3>1, <4>1 DEF SessionOK
    <3>2. CASE t # s
      BY <1>1, <2>7, <2>9, <3>2 DEF IInv, SessionOK
    <3> QED BY <3>1, <3>2
  <2> QED
    BY <1>1, <2>6, <2>8, <2>11, <2>12, <2>13, <2>14, <2>15, <2>16, <2>17, <2>18, HandlerStep
<1> QED BY <1>2, <1>3 DEF StoreSession

-----------------------------------------------------------------------------
\* The steps that keep every session, and may move the indexes.
LEMMA SameSessions ==
  ASSUME IInv, UNCHANGED <<sess, dead, basis, minted, now>>, crossed \subseteq crossed',
         \A u \in Users : \A t \in index[u] :
           t \in index'[u] \/ ~Live(t) \/ sess[t].user # u \/ t \in crossed'
  PROVE  /\ Frame(NoToken) /\ Used' = Used /\ \A t \in Tokens : SessionOK(t)' /\ (Live(t)' <=> Live(t))
<1>1. Used' = Used /\ NoToken \notin Used
  BY UsedIssued DEF Used, Live
<1>2. Frame(NoToken)
  BY <1>1 DEF Frame, Live
<1>3. \A t \in Tokens : SessionOK(t)'
  BY DEF IInv, SessionOK, Live
<1> QED BY <1>1, <1>2, <1>3 DEF Live

\* The steps that delete one session.
LEMMA GoneSession ==
  ASSUME IInv, NEW t \in Used, sess' = [sess EXCEPT ![t] = NoSess], dead' = dead \cup {t},
         UNCHANGED <<index, basis, minted, now>>, crossed' = crossed
  PROVE  /\ Frame(NoToken) /\ Used' = Used /\ \A x \in Tokens : SessionOK(x)'
         /\ sess' \in [Tokens -> SessRec] /\ dead' \subseteq minted
         /\ \A x \in Tokens : Live(x)' => Live(x) /\ x # t /\ sess'[x] = sess[x]
<1>1. t \in minted /\ t \in Tokens /\ NoToken \notin Used
  BY UsedIssued
<1>2. Types
  BY DEF IInv
<1>3. sess' \in [Tokens -> SessRec] /\ sess'[t] = NoSess /\ \A x \in Tokens \ {t} : sess'[x] = sess[x]
  BY <1>1, <1>2, IdleRecs DEF Types
<1>4. \A x \in Tokens : Live(x)' => Live(x) /\ x # t /\ sess'[x] = sess[x]
  BY <1>3 DEF Live
<1>5. \A x \in Tokens \ {t} : Live(x)' <=> Live(x)
  BY <1>3 DEF Live
<1>6. Used' = Used
  BY <1>1, <1>4, <1>5 DEF Used
<1>7. Frame(NoToken)
  <2>1. \A x \in Used : Live(x)' => Live(x) /\ sess'[x].user = sess[x].user
    BY <1>4, UsedIssued
  <2> QED BY <1>1, <1>6, <2>1 DEF Frame
<1>8. \A x \in Tokens : SessionOK(x)'
  BY <1>4 DEF IInv, SessionOK
<1>9. dead' \subseteq minted
  BY <1>1, <1>2 DEF Types
<1> QED BY <1>3, <1>4, <1>6, <1>7, <1>8, <1>9

LEMMA IndexSessionSound ==
  ASSUME IInv, NEW c \in Clients, IndexSession(c)
  PROVE  IInv'
<1> DEFINE s == req[c].tok
           u == req[c].user
           r == [req[c] EXCEPT !.pc = "known"]
<1>1. /\ req[c].pc = "index" /\ req[c].cmd = "login" /\ errors' \in Nat /\ Go(c, r)
      /\ UNCHANGED <<sess, dead, basis, minted, now>> /\ known' = known
      /\ UNCHANGED <<users, counters, now, edits>> /\ UNCHANGED <<file, minted>>
      /\ \/ index' = [index EXCEPT ![u] = @ \cup {s}] /\ crossed' = crossed
         \/ crossed' = crossed \cup {s} /\ index' = index
  BY Errors DEF IndexSession, Login, At, counters, Target
<1>2. Types
  BY DEF IInv
<1>3. /\ s \in Tokens /\ s \in Used /\ s \in minted /\ LoginOf(c) /\ u \in Users /\ s # NoToken
      /\ Live(s) => sess[s].user = u
  BY <1>1, LoginFacts, UsedIssued, ReqTypes DEF Stored, ReqOK, LoginOf
<1>4. "known" \in Points
  BY DEF Points
<1>5. /\ r \in ReqRec /\ r.pc = "known" /\ r.cmd = "login" /\ r.tok = s /\ r.user = u
      /\ r.ids = req[c].ids
  BY <1>1, <1>4, ReqTypes DEF ReqRec
<1>6. req[c].tok = s /\ req[c].user = u
  OBVIOUS
<1> HIDE DEF r, s, u
<1>7. /\ index' \in [Users -> SUBSET Tokens] /\ crossed' \subseteq Tokens /\ crossed \subseteq crossed'
      /\ s \in index'[u] \/ s \in crossed'
      /\ \A v \in Users : index[v] \subseteq index'[v] /\ index'[v] \subseteq Used
  BY <1>1, <1>2, <1>3 DEF Types, IInv
<1>8. FilesOK'
  BY <1>1, FilesKept
<1>9. /\ Types' /\ Counted' /\ req'[c] = r /\ \A d \in Clients \ {c} : req'[d] = req[d]
  <2>1. /\ sess' \in [Tokens -> SessRec] /\ basis' \in [Tokens -> RowRec] /\ known' \subseteq Users
        /\ minted' \subseteq Tokens /\ dead' \subseteq minted'
    BY <1>1, <1>2 DEF Types
  <2> QED BY <1>1, <1>5, <1>7, <1>8, <2>1, TypesKept
<1>10. /\ Frame(NoToken) /\ Used' = Used
       /\ \A t \in Tokens : SessionOK(t)' /\ (Live(t)' <=> Live(t))
  BY <1>1, <1>7, SameSessions
<1>11. MovesOnly(c, NoToken)
  BY <1>1, <1>9, <1>10, UsedIssued DEF MovesOnly
<1>12. ReqOK(req[c])'
  <2>1. req[c].ids \subseteq minted
    BY ReqTypes DEF ReqOK
  <2> QED BY <1>1, <1>3, <1>5, <1>7, <1>9, <1>10, <2>1
          DEF ReqOK, Before, Issued, Stored, Swept, Live
<1>13. LoginOf(c)' /\ req'[c].tok = s
  BY <1>3, <1>5, <1>9 DEF LoginOf
<1>14. KeepsToken(c) /\ KeepsIndex(c)
  BY <1>1, <1>3, <1>6, <1>13 DEF KeepsToken, KeepsIndex
<1>15. KeepsSweep(c)
  BY <1>1, <1>5, <1>9 DEF KeepsSweep, Meets, Swept, Issued
<1> QED
  BY <1>1, <1>7, <1>8, <1>9, <1>10, <1>11, <1>12, <1>14, <1>15, HandlerStep

LEMMA FinishLoginSound ==
  ASSUME IInv, NEW c \in Clients, FinishLogin(c)
  PROVE  IInv'
<1> DEFINE s == req[c].tok
           u == req[c].user
<1>1. /\ req[c].pc = "known" /\ req[c].cmd = "login" /\ errors' \in Nat /\ Go(c, Idle)
      /\ UNCHANGED <<sess, dead, basis, minted, now>> /\ index' = index
      /\ UNCHANGED <<users, counters, now, edits>>
      /\ file' = [file EXCEPT ![req[c].prof] = s]
      /\ \/ known' = known \cup {u} /\ crossed' = crossed
         \/ crossed' = crossed \cup {s} /\ known' = known
  BY Errors DEF FinishLogin, Login, At, counters, Target, Go
<1>2. Types
  BY DEF IInv
<1>3. /\ s \in Tokens /\ s \in Used /\ s \in minted /\ LoginOf(c) /\ u \in Users
      /\ Live(s) /\ s \notin crossed => s \in index[u]
  BY <1>1, LoginFacts, UsedIssued, ReqTypes DEF Stored, ReqOK
<1>4. req[c].tok = s /\ req[c].user = u
  OBVIOUS
<1> HIDE DEF s, u
<1>5. /\ known' \subseteq Users /\ crossed' \subseteq Tokens /\ crossed \subseteq crossed'
      /\ u \in known' \/ s \in crossed'
      /\ known \subseteq known'
  BY <1>1, <1>2, <1>3 DEF Types
<1>6. FilesOK'
  BY <1>1, <1>3, FilesCounters DEF FilesOK
<1>7. /\ Types' /\ Counted' /\ req'[c] = Idle /\ \A d \in Clients \ {c} : req'[d] = req[d]
  <2>1. /\ sess' \in [Tokens -> SessRec] /\ basis' \in [Tokens -> RowRec]
        /\ index' \in [Users -> SUBSET Tokens]
        /\ minted' \subseteq Tokens /\ dead' \subseteq minted'
    BY <1>1, <1>2 DEF Types
  <2> QED BY <1>1, <1>5, <1>6, <2>1, TypesKept, IdleRecs
<1>8. /\ Frame(NoToken) /\ Used' = Used
      /\ \A t \in Tokens : SessionOK(t)' /\ (Live(t)' <=> Live(t))
  BY <1>1, <1>5, SameSessions
<1>9. MovesOnly(c, NoToken)
  BY <1>1, <1>7, <1>8, UsedIssued DEF MovesOnly
<1>10. ReqOK(req[c])'
  BY <1>7, IdleRecs DEF ReqOK, Before, Issued, Stored, Swept
<1>11. KeepsToken(c)
  BY <1>7, IdleRecs DEF KeepsToken, LoginOf
<1>12. KeepsIndex(c)
  BY <1>1, <1>3, <1>4, <1>5, <1>8 DEF KeepsIndex
<1>13. KeepsSweep(c)
  BY <1>1, <1>7, IdleRecs DEF KeepsSweep, Meets, Swept, Issued
<1>14. \A v \in Users : index'[v] \subseteq Used'
  BY <1>1, <1>8 DEF IInv
<1> QED
  BY <1>1, <1>6, <1>7, <1>8, <1>9, <1>10, <1>11, <1>12, <1>13, <1>14, HandlerStep

-----------------------------------------------------------------------------
\* A step of a command that keeps the tokens ever stored and changes no account.
LEMMA CommandStep ==
  ASSUME IInv, NEW c \in Clients, NEW r, Go(c, r), ReqOK(req[c])',
         req[c].cmd # "login", r.cmd # "login", r.pc \notin Issued,
         UNCHANGED <<users, counters, now, edits, basis, minted>>, errors' \in Nat, FilesOK',
         sess' \in [Tokens -> SessRec], index' \in [Users -> SUBSET Tokens], known' \subseteq Users,
         dead' \subseteq minted, crossed' \subseteq Tokens,
         Frame(NoToken), Used' = Used,
         \A t \in Tokens : SessionOK(t)',
         \A u \in Users : index'[u] \subseteq Used,
         \A u \in known \ known' : \A t \in Tokens :
           Live(t)' /\ sess'[t].user = u => t \in crossed',
         \A t \in Tokens \ crossed', u \in Users :
           Meets(req[c], t, u) /\ ((Live(t)' /\ sess'[t].user = u) \/ Awaits(t, u))
             => Meets(r, t, u)
  PROVE  IInv'
<1>1. req'[c] = r
  BY DEF IInv, Types, Go
<1>2. r \in ReqRec
  BY <1>1 DEF ReqOK
<1>3. /\ Types' /\ Counted' /\ \A d \in Clients \ {c} : req'[d] = req[d]
  <2>1. basis' \in [Tokens -> RowRec] /\ minted' \subseteq Tokens /\ dead' \subseteq minted'
    BY DEF IInv, Types
  <2> QED BY <1>2, <2>1, TypesKept
<1>4. MovesOnly(c, NoToken)
  BY <1>3, UsedIssued DEF MovesOnly
<1>5. KeepsToken(c) /\ KeepsIndex(c)
  BY <1>1 DEF KeepsToken, KeepsIndex, LoginOf
<1>6. KeepsSweep(c)
  BY <1>1 DEF KeepsSweep
<1> QED BY <1>3, <1>4, <1>5, <1>6, HandlerStep

LEMMA GoReq == ASSUME IInv, NEW c \in Clients, NEW r, Go(c, r) PROVE req'[c] = r
  BY DEF IInv, Types, Go

\* An idle record relies on nothing, in any state.
LEMMA IdleNext == ASSUME NEW c \in Clients, req'[c] = Idle PROVE ReqOK(req[c])'
  BY IdleRecs DEF ReqOK, Before, Issued, Stored, Swept

LEMMA RevokeSessionSound ==
  ASSUME IInv, NEW c \in Clients, RevokeSession(c)
  PROVE  IInv'
<1>1. /\ req[c].pc = "del" /\ errors' \in Nat /\ index' = index /\ known' = known
      /\ UNCHANGED <<users, counters, now, edits, basis, minted>>
  BY Errors DEF RevokeSession, At
<1>2. req[c].cmd # "login" /\ req[c].ids \subseteq minted /\ req[c].tok \in minted \cup {NoToken}
  BY <1>1, ReqTypes DEF ReqOK, Before, Issued, Stored
<1>3. Types
  BY DEF IInv
<1> DEFINE Deleted(t) == /\ sess' = [sess EXCEPT ![t] = NoSess] /\ crossed' = crossed
                         /\ dead' = IF Live(t) THEN dead \cup {t} ELSE dead
           Spared(t) == sess' = sess /\ dead' = dead /\ crossed' = crossed \cup {t}
           next(t) == [req[c] EXCEPT !.pc = "srem", !.user = sess[t].user]
<1>4. PICK t \in req[c].ids :
        /\ Deleted(t) \/ Spared(t)
        /\ (Live(t) /\ Go(c, next(t)) /\ UNCHANGED file) \/ Reply(c)
  BY DEF RevokeSession
<1>5. t \in minted /\ t \in Tokens /\ crossed \subseteq crossed' /\ crossed' \subseteq Tokens
  BY <1>2, <1>3, <1>4, UsedIssued DEF Types
<1>6. /\ Frame(NoToken) /\ Used' = Used /\ \A x \in Tokens : SessionOK(x)'
      /\ sess' \in [Tokens -> SessRec] /\ dead' \subseteq minted
  <2>1. CASE sess' = sess /\ dead' = dead
    BY <1>1, <1>3, <1>5, <2>1, SameSessions DEF Types
  <2>2. CASE Deleted(t) /\ ~Live(t)
    <3>1. sess' = sess
      BY <1>3, <1>5, <2>2 DEF Live, Types
    <3> QED BY <2>1, <2>2, <3>1
  <2>3. CASE Deleted(t) /\ Live(t)
    <3>1. t \in Used
      BY <1>5, <2>3 DEF Used
    <3> QED BY <1>1, <2>3, <3>1, GoneSession
  <2> QED BY <1>4, <2>1, <2>2, <2>3
<1>7. Live(t) => t \in dead' \cup crossed'
  BY <1>4
<1>8. \A x \in Tokens, u \in Users : ~Meets(req[c], x, u)
  BY <1>1 DEF Meets
<1>9. /\ index' \in [Users -> SUBSET Tokens] /\ known' \subseteq Users /\ crossed' \subseteq Tokens
      /\ \A u \in Users : index'[u] \subseteq Used
  BY <1>1, <1>3, <1>5 DEF Types, IInv
<1>10. CASE Live(t) /\ Go(c, next(t)) /\ UNCHANGED file
  <2> DEFINE r == next(t)
  <2>1. \E x \in minted : req[c].ids = {x}
    BY <1>1, ReqTypes DEF ReqOK
  <2>2. req[c].ids \subseteq dead' \cup crossed'
    BY <1>4, <1>7, <1>10, <2>1
  <2>3. "srem" \in Points /\ sess[t].user \in Users
    BY <1>3, <1>5 DEF Points, Types, SessRec
  <2>4. /\ r \in ReqRec /\ r.pc = "srem" /\ r.cmd = req[c].cmd /\ r.tok = req[c].tok
        /\ r.ids = req[c].ids /\ Go(c, r)
    BY <1>10, <2>3, ReqTypes DEF ReqRec
  <2> HIDE DEF r, next, Deleted, Spared
  <2>5. ReqOK(req[c])'
    BY <1>1, <1>2, <2>2, <2>4, GoReq DEF ReqOK, Before, Issued, Stored, Swept
  <2>6. FilesOK'
    BY <1>1, <1>10, FilesKept
  <2>7. r.pc \notin Issued /\ r.cmd # "login"
    BY <1>2, <2>4 DEF Issued
  <2> QED BY <1>1, <1>2, <1>6, <1>8, <1>9, <2>4, <2>5, <2>6, <2>7, CommandStep
<1>11. CASE Reply(c)
  <2> HIDE DEF next, Deleted, Spared
  <2>1. FilesOK' /\ Go(c, Idle)
    BY <1>1, <1>11, ReplyFiles
  <2>2. ReqOK(req[c])'
    BY <2>1, GoReq, IdleNext
  <2>3. Idle.pc \notin Issued /\ Idle.cmd # "login"
    BY IdleRecs DEF Issued
  <2> QED BY <1>1, <1>2, <1>6, <1>8, <1>9, <2>1, <2>2, <2>3, CommandStep
<1> QED BY <1>4, <1>10, <1>11

LEMMA RevokeUnindexSound ==
  ASSUME IInv, NEW c \in Clients, RevokeUnindex(c)
  PROVE  IInv'
<1> DEFINE u == req[c].user
<1>1. /\ req[c].pc = "srem" /\ errors' \in Nat /\ known' = known /\ sess' = sess /\ dead' = dead
      /\ index' = [index EXCEPT ![u] = @ \ req[c].ids] \/ index' = index
      /\ UNCHANGED <<users, counters, now, edits, basis, minted>> /\ crossed' = crossed
      /\ UNCHANGED <<sess, dead, basis, minted, now>> /\ Reply(c)
  BY Errors DEF RevokeUnindex, At, Target
<1>2. req[c].cmd # "login" /\ req[c].ids \subseteq dead \cup crossed /\ u \in Users
  BY <1>1, ReqTypes DEF ReqOK, Before, Issued, Stored
<1> HIDE DEF u
<1>3. Types
  BY DEF IInv
<1>4. /\ index' \in [Users -> SUBSET Tokens] /\ known' \subseteq Users /\ crossed' \subseteq Tokens
      /\ sess' \in [Tokens -> SessRec] /\ dead' \subseteq minted
      /\ \A v \in Users : index'[v] \subseteq Used
  BY <1>1, <1>2, <1>3 DEF Types, IInv
<1>5. \A v \in Users : \A t \in index[v] : t \in index'[v] \/ ~Live(t) \/ t \in crossed'
  <2>1. \A t \in req[c].ids : ~Live(t) \/ t \in crossed'
    BY <1>1, <1>2, <1>3, UsedIssued DEF IInv, SessionOK, Types
  <2> QED BY <1>1, <1>2, <1>3, <2>1 DEF Types
<1>6. Frame(NoToken) /\ Used' = Used /\ \A t \in Tokens : SessionOK(t)'
  BY <1>1, <1>5, SameSessions
<1>7. FilesOK' /\ Go(c, Idle)
  BY <1>1, ReplyFiles
<1>8. ReqOK(req[c])'
  BY <1>7, GoReq, IdleNext
<1>9. Idle.pc \notin Issued /\ Idle.cmd # "login"
  BY IdleRecs DEF Issued
<1>10. \A x \in Tokens, v \in Users : ~Meets(req[c], x, v)
  BY <1>1 DEF Meets
<1> QED BY <1>1, <1>2, <1>4, <1>6, <1>7, <1>8, <1>9, <1>10, CommandStep

LEMMA ListPruneSound ==
  ASSUME IInv, NEW c \in Clients, ListPrune(c)
  PROVE  IInv'
<1>1. /\ req[c].pc = "peek" /\ errors' \in Nat /\ known' = known /\ sess' = sess /\ dead' = dead
      /\ UNCHANGED <<users, counters, now, edits, basis, minted>> /\ crossed' = crossed
      /\ UNCHANGED <<sess, dead, basis, minted, now>>
  BY DEF ListPrune, At, bounds, IInv, Types
<1>2. req[c].cmd # "login" /\ req[c].ids \subseteq minted /\ req[c].tok \in minted \cup {NoToken}
  BY <1>1, ReqTypes DEF ReqOK, Before, Issued, Stored
<1>3. Types
  BY DEF IInv
<1>4. CASE Reply(c) /\ UNCHANGED index
  <2>1. Unmoved
    BY <1>1, <1>4 DEF Unmoved
  <2> QED BY <1>1, <1>4, <2>1, QuietReply, CountersKept DEF Stored
<1>5. ASSUME NEW t \in req[c].ids,
             index' = IF Live(t) THEN index ELSE [u \in Users |-> index[u] \ {t}],
             Go(c, [req[c] EXCEPT !.ids = @ \ {t}]), UNCHANGED file
      PROVE  IInv'
  <2> DEFINE r == [req[c] EXCEPT !.ids = @ \ {t}]
  <2>1. /\ r \in ReqRec /\ r.pc = "peek" /\ r.cmd = req[c].cmd /\ r.tok = req[c].tok
        /\ r.ids = req[c].ids \ {t} /\ Go(c, r)
    BY <1>1, <1>5, ReqTypes DEF ReqRec
  <2> HIDE DEF r
  <2>2. /\ index' \in [Users -> SUBSET Tokens] /\ known' \subseteq Users /\ crossed' \subseteq Tokens
        /\ sess' \in [Tokens -> SessRec] /\ dead' \subseteq minted
        /\ \A v \in Users : index'[v] \subseteq Used
    BY <1>1, <1>3, <1>5 DEF Types, IInv
  <2>3. \A v \in Users : \A x \in index[v] : x \in index'[v] \/ ~Live(x) \/ x \in crossed'
    BY <1>5
  <2>4. Frame(NoToken) /\ Used' = Used /\ \A x \in Tokens : SessionOK(x)'
    BY <1>1, <2>3, SameSessions
  <2>5. FilesOK'
    BY <1>1, <1>5, FilesKept
  <2>6. ReqOK(req[c])'
    BY <1>1, <1>2, <2>1, GoReq DEF ReqOK, Before, Issued, Stored, Swept
  <2>7. r.pc \notin Issued /\ r.cmd # "login"
    BY <1>2, <2>1 DEF Issued
  <2>8. \A x \in Tokens, v \in Users : ~Meets(req[c], x, v)
    BY <1>1 DEF Meets
  <2> QED BY <1>1, <1>2, <2>1, <2>2, <2>4, <2>5, <2>6, <2>7, <2>8, CommandStep
<1> QED BY <1>4, <1>5 DEF ListPrune

-----------------------------------------------------------------------------
\* A sweep accounts for every session of its user, stored or about to be.
LEMMA Accounts ==
  ASSUME IInv, NEW u \in Users
  PROVE  /\ SessionsOf(u) \subseteq Tokens
         /\ \A t \in Tokens : (Live(t) /\ sess[t].user = u) \/ Awaits(t, u) => t \in SessionsOf(u)
<1>1. \A d \in Clients : LoginOf(d) => req[d].tok \in Tokens
  BY ReqTypes DEF LoginOf
<1>2. \A d \in Clients : req[d].pc \in Issued => LoginOf(d)
  BY LoginFacts
<1> QED BY <1>1, <1>2 DEF SessionsOf, Awaits, Target

LEMMA SweepListSound ==
  ASSUME IInv, NEW c \in Clients, SweepList(c)
  PROVE  IInv'
<1>1. /\ req[c].pc = "list" /\ errors' \in Nat /\ known' = known /\ sess' = sess /\ dead' = dead
      /\ index' = index /\ UNCHANGED <<users, counters, now, edits, basis, minted>>
      /\ UNCHANGED <<sess, dead, basis, minted, now>>
  BY Errors DEF SweepList, At, store
<1>2. /\ req[c].cmd # "login" /\ req[c].ids \subseteq minted /\ req[c].tok \in minted \cup {NoToken}
      /\ req[c].cmd \in Swept => req[c].todo \subseteq {req[c].user}
  BY <1>1, ReqTypes DEF ReqOK, Before, Issued, Stored
<1>3. Types
  BY DEF IInv
<1>4. ASSUME NEW r, Go(c, r), FilesOK', ReqOK(req[c])', r.cmd # "login", r.pc \notin Issued,
             crossed \subseteq crossed', crossed' \subseteq Tokens,
             \A t \in Tokens \ crossed', v \in Users :
               Meets(req[c], t, v) /\ ((Live(t) /\ sess[t].user = v) \/ Awaits(t, v))
                 => Meets(r, t, v)
      PROVE  IInv'
  <2>1. /\ Frame(NoToken) /\ Used' = Used
        /\ \A t \in Tokens : SessionOK(t)' /\ (Live(t)' <=> Live(t))
    BY <1>1, <1>4, SameSessions
  <2>2. /\ index' \in [Users -> SUBSET Tokens] /\ known' \subseteq Users
        /\ sess' \in [Tokens -> SessRec] /\ dead' \subseteq minted
        /\ \A v \in Users : index'[v] \subseteq Used
    BY <1>1, <1>3 DEF Types, IInv
  <2>3. \A t \in Tokens \ crossed', v \in Users :
          Meets(req[c], t, v) /\ ((Live(t)' /\ sess'[t].user = v) \/ Awaits(t, v))
            => Meets(r, t, v)
    BY <1>1, <1>4, <2>1
  <2> QED BY <1>1, <1>2, <1>4, <2>1, <2>2, <2>3, CommandStep
<1>5. ASSUME NEW u \in req[c].todo, NEW ids \in SUBSET Used, crossed \subseteq crossed',
             crossed' \subseteq Tokens,
             Go(c, [req[c] EXCEPT !.pc = "sweep", !.user = u, !.ids = ids]), UNCHANGED file,
             req[c].cmd \notin Swept \/ SessionsOf(u) \subseteq crossed' \cup ids
      PROVE  IInv'
  <2> DEFINE r == [req[c] EXCEPT !.pc = "sweep", !.user = u, !.ids = ids]
  <2>1. "sweep" \in Points /\ u \in Users /\ ids \in SUBSET Tokens /\ ids \subseteq minted
    BY ReqTypes, UsedIssued DEF Points
  <2>2. /\ r \in ReqRec /\ r.pc = "sweep" /\ r.cmd = req[c].cmd /\ r.tok = req[c].tok
        /\ r.ids = ids /\ r.user = u /\ r.todo = req[c].todo /\ Go(c, r)
    BY <1>5, <2>1, ReqTypes DEF ReqRec
  <2> HIDE DEF r
  <2>3. req'[c] = r
    BY <2>2, GoReq
  <2>4. ids \subseteq Used'
    BY <1>1 DEF Used, Live
  <2>5. ReqOK(req[c])'
    BY <1>1, <1>2, <2>1, <2>2, <2>3, <2>4 DEF ReqOK, Before, Issued, Stored, Swept
  <2>6. r.pc \notin Issued /\ r.cmd # "login"
    BY <1>2, <2>2 DEF Issued
  <2>7. FilesOK'
    BY <1>1, <1>5, FilesKept
  <2>8. ASSUME NEW t \in Tokens \ crossed', NEW v \in Users, Meets(req[c], t, v),
               (Live(t) /\ sess[t].user = v) \/ Awaits(t, v)
        PROVE  Meets(r, t, v)
    <3>1. req[c].cmd \in Swept /\ v \in req[c].todo /\ req[c].user = v
      BY <1>1, <2>8 DEF Meets
    <3>2. v = u
      BY <1>2, <1>5, <3>1
    <3>3. t \in SessionsOf(u)
      BY <2>8, <3>2, Accounts
    <3> QED BY <1>5, <2>2, <2>8, <3>1, <3>2, <3>3 DEF Meets
  <2> QED BY <1>4, <1>5, <2>2, <2>5, <2>6, <2>7, <2>8
<1>6. ASSUME NEW u \in req[c].todo, Works,
             crossed' = crossed \cup (SessionsOf(u) \ index[u]),
             Go(c, [req[c] EXCEPT !.pc = "sweep", !.user = u, !.ids = index[u]]), UNCHANGED file
      PROVE  IInv'
  <2>1. u \in Users /\ index[u] \in SUBSET Used
    BY ReqTypes DEF IInv
  <2>2. crossed' \subseteq Tokens /\ crossed \subseteq crossed'
    BY <1>3, <1>6, <2>1, Accounts DEF Types
  <2>3. SessionsOf(u) \subseteq crossed' \cup index[u]
    BY <1>6
  <2> QED BY <1>5, <1>6, <2>1, <2>2, <2>3
<1>7. ASSUME NEW u \in req[c].todo, crossed' = crossed \cup SessionsOf(u)
      PROVE  u \in Users /\ crossed' \subseteq Tokens /\ crossed \subseteq crossed'
  BY <1>3, <1>7, Accounts, ReqTypes DEF Types
<1>8. ASSUME NEW u \in req[c].todo, Fails, crossed' = crossed \cup SessionsOf(u),
             Go(c, [req[c] EXCEPT !.pc = "sweep", !.user = u, !.ids = {}]), UNCHANGED file
      PROVE  IInv'
  <2>1. {} \in SUBSET Used /\ SessionsOf(u) \subseteq crossed' \cup {}
    BY <1>8
  <2>2. crossed' \subseteq Tokens /\ crossed \subseteq crossed'
    BY <1>7, <1>8
  <2> QED BY <1>5, <1>8, <2>1, <2>2
<1>9. ASSUME NEW u \in req[c].todo, Fails, crossed' = crossed \cup SessionsOf(u), Reply(c)
      PROVE  IInv'
  <2>1. FilesOK' /\ Go(c, Idle)
    BY <1>1, <1>9, ReplyFiles
  <2>2. ReqOK(req[c])'
    BY <2>1, GoReq, IdleNext
  <2>3. Idle.pc \notin Issued /\ Idle.cmd # "login"
    BY IdleRecs DEF Issued
  <2>4. ASSUME NEW t \in Tokens \ crossed', NEW v \in Users, Meets(req[c], t, v),
               (Live(t) /\ sess[t].user = v) \/ Awaits(t, v)
        PROVE  FALSE
    <3>1. req[c].cmd \in Swept /\ v \in req[c].todo /\ req[c].user = v
      BY <1>1, <2>4 DEF Meets
    <3>2. v = u
      BY <1>2, <1>9, <3>1
    <3> QED BY <1>9, <2>4, <3>2, Accounts
  <2> QED BY <1>4, <1>7, <1>9, <2>1, <2>2, <2>3, <2>4
<1>10. CASE /\ req[c].todo = {} /\ Go(c, [req[c] EXCEPT !.pc = "forget"])
            /\ UNCHANGED <<file, crossed>>
  <2> DEFINE r == [req[c] EXCEPT !.pc = "forget"]
  <2>1. "forget" \in Points
    BY DEF Points
  <2>2. /\ r \in ReqRec /\ r.pc = "forget" /\ r.cmd = req[c].cmd /\ r.tok = req[c].tok
        /\ r.ids = req[c].ids /\ Go(c, r)
    BY <1>10, <2>1, ReqTypes DEF ReqRec
  <2> HIDE DEF r
  <2>3. ReqOK(req[c])'
    BY <1>1, <1>2, <2>2, GoReq DEF ReqOK, Before, Issued, Stored, Swept
  <2>4. r.pc \notin Issued /\ r.cmd # "login"
    BY <1>2, <2>2 DEF Issued
  <2>5. FilesOK' /\ crossed' \subseteq Tokens /\ crossed' = crossed
    BY <1>1, <1>3, <1>10, FilesKept DEF Types
  <2>6. \A t \in Tokens, v \in Users : ~Meets(req[c], t, v)
    BY <1>1, <1>10 DEF Meets
  <2> QED BY <1>4, <2>2, <2>3, <2>4, <2>5, <2>6
<1> QED BY <1>6, <1>8, <1>9, <1>10 DEF SweepList

LEMMA SweepDelSound ==
  ASSUME IInv, NEW c \in Clients, SweepDel(c)
  PROVE  IInv'
<1>1. /\ req[c].pc = "sweep" /\ errors' \in Nat /\ known' = known
      /\ index' = index /\ UNCHANGED <<users, counters, now, edits, basis, minted>>
      /\ UNCHANGED <<file, minted>>
  BY Errors DEF SweepDel, At
<1>2. /\ req[c].cmd # "login" /\ req[c].ids \subseteq Used /\ req[c].tok \in minted \cup {NoToken}
      /\ req[c].cmd \in Swept => req[c].todo \subseteq {req[c].user}
  BY <1>1, ReqTypes DEF ReqOK, Before, Issued, Stored
<1>3. PICK t \in req[c].ids :
        /\ \/ sess' = [sess EXCEPT ![t] = NoSess] /\ dead' = dead \cup {t} /\ crossed' = crossed
           \/ crossed' = crossed \cup {t} /\ UNCHANGED <<sess, dead>>
        /\ Go(c, [req[c] EXCEPT !.ids = @ \ {t}])
  BY DEF SweepDel
<1> DEFINE r == [req[c] EXCEPT !.ids = @ \ {t}]
<1>4. /\ r \in ReqRec /\ r.pc = "sweep" /\ r.cmd = req[c].cmd /\ r.tok = req[c].tok
      /\ r.ids = req[c].ids \ {t} /\ r.user = req[c].user /\ r.todo = req[c].todo /\ Go(c, r)
  BY <1>1, <1>3, ReqTypes DEF ReqRec
<1> HIDE DEF r
<1>5. t \in Used /\ t \in Tokens
  BY <1>2, UsedIssued
<1>6. Types
  BY DEF IInv
<1>7. /\ Frame(NoToken) /\ Used' = Used /\ \A x \in Tokens : SessionOK(x)'
      /\ sess' \in [Tokens -> SessRec] /\ dead' \subseteq minted /\ crossed' \subseteq Tokens
      /\ \A x \in Tokens \ crossed' : Live(x)' => x # t
  <2>1. CASE /\ sess' = [sess EXCEPT ![t] = NoSess] /\ dead' = dead \cup {t} /\ crossed' = crossed
    BY <1>1, <1>5, <1>6, <2>1, GoneSession DEF Types
  <2>2. CASE crossed' = crossed \cup {t} /\ UNCHANGED <<sess, dead>>
    BY <1>1, <1>5, <1>6, <2>2, SameSessions DEF Types
  <2> QED BY <1>3, <2>1, <2>2
<1>8. ReqOK(req[c])'
  <2>1. r.ids \subseteq Used' /\ r.ids \subseteq minted'
    BY <1>1, <1>2, <1>4, <1>7, UsedIssued
  <2> QED BY <1>1, <1>2, <1>4, <2>1, GoReq DEF ReqOK, Before, Issued, Stored, Swept
<1>9. r.pc \notin Issued /\ r.cmd # "login"
  BY <1>2, <1>4 DEF Issued
<1>10. FilesOK'
  BY <1>1, FilesKept
<1>11. ASSUME NEW x \in Tokens \ crossed', NEW v \in Users, Meets(req[c], x, v),
              (Live(x)' /\ sess'[x].user = v) \/ Awaits(x, v)
       PROVE  Meets(r, x, v)
  <2>1. req[c].cmd \in Swept /\ req[c].user = v /\ x \in req[c].ids
    BY <1>1, <1>11 DEF Meets
  <2>2. ~Awaits(x, v)
    BY <1>2, <2>1, LoginFacts DEF Awaits
  <2>3. x # t
    BY <1>7, <1>11, <2>2
  <2> QED BY <1>4, <2>1, <2>3 DEF Meets
<1>12. /\ index' \in [Users -> SUBSET Tokens] /\ known' \subseteq Users
       /\ \A v \in Users : index'[v] \subseteq Used
  BY <1>1, <1>6 DEF Types, IInv
<1> QED
  BY <1>1, <1>2, <1>4, <1>7, <1>8, <1>9, <1>10, <1>11, <1>12, CommandStep

LEMMA SweepDropSound ==
  ASSUME IInv, NEW c \in Clients, SweepDrop(c)
  PROVE  IInv'
<1> DEFINE u == req[c].user
           r == [req[c] EXCEPT !.pc = "list", !.todo = @ \ {u}]
<1>1. /\ req[c].pc = "sweep" /\ req[c].ids = {} /\ errors' \in Nat /\ known' = known
      /\ sess' = sess /\ dead' = dead
      /\ \/ index' = [index EXCEPT ![u] = {}] /\ crossed' = crossed \cup SessionsOf(u)
         \/ index' = index /\ crossed' = crossed
      /\ UNCHANGED <<users, counters, now, edits, basis, minted>> /\ Go(c, r)
      /\ UNCHANGED <<sess, dead, basis, minted, now>> /\ UNCHANGED <<file, minted>>
  BY Errors DEF SweepDrop, At, Target
<1>2. /\ req[c].cmd # "login" /\ req[c].tok \in minted \cup {NoToken} /\ u \in Users
      /\ req[c].cmd \in Swept => req[c].todo \subseteq {u}
  BY <1>1, ReqTypes DEF ReqOK, Before, Issued, Stored
<1>3. "list" \in Points
  BY DEF Points
<1>4. /\ r \in ReqRec /\ r.pc = "list" /\ r.cmd = req[c].cmd /\ r.tok = req[c].tok
      /\ r.ids = {} /\ r.user = u /\ r.todo = req[c].todo \ {u}
  BY <1>1, <1>3, ReqTypes DEF ReqRec
<1> HIDE DEF r, u
<1>5. Types
  BY DEF IInv
<1>6. SessionsOf(u) \subseteq Tokens
  BY <1>2, Accounts
<1>7. /\ index' \in [Users -> SUBSET Tokens] /\ known' \subseteq Users /\ crossed' \subseteq Tokens
      /\ sess' \in [Tokens -> SessRec] /\ dead' \subseteq minted
      /\ \A v \in Users : index'[v] \subseteq Used
  BY <1>1, <1>2, <1>5, <1>6 DEF Types, IInv
<1>8. \A v \in Users : \A t \in index[v] :
        t \in index'[v] \/ ~Live(t) \/ sess[t].user # v \/ t \in crossed'
  <2>1. \A t \in index[u] : Live(t) /\ sess[t].user = u => t \in SessionsOf(u)
    BY <1>2, <1>5, Accounts DEF Types
  <2> QED BY <1>1, <1>2, <1>5, <2>1 DEF Types
<1>9. Frame(NoToken) /\ Used' = Used /\ \A t \in Tokens : SessionOK(t)'
  BY <1>1, <1>8, SameSessions
<1>10. ReqOK(req[c])'
  BY <1>1, <1>2, <1>4, GoReq DEF ReqOK, Before, Issued, Stored, Swept
<1>11. r.pc \notin Issued /\ r.cmd # "login"
  BY <1>2, <1>4 DEF Issued
<1>12. FilesOK'
  BY <1>1, FilesKept
<1>13. \A x \in Tokens, v \in Users : ~Meets(req[c], x, v)
  BY <1>1 DEF Meets
<1> QED BY <1>1, <1>2, <1>7, <1>9, <1>10, <1>11, <1>12, <1>13, CommandStep

LEMMA SweepForgetSound ==
  ASSUME IInv, NEW c \in Clients, SweepForget(c)
  PROVE  IInv'
<1> DEFINE gone == IF req[c].cmd = "revoke-every" THEN known ELSE {req[c].user}
<1>1. /\ req[c].pc = "forget" /\ errors' \in Nat
      /\ sess' = sess /\ dead' = dead /\ index' = index
      /\ \/ /\ known' = known \ gone
            /\ crossed' = crossed \cup UNION {SessionsOf(u) : u \in gone}
         \/ known' = known /\ crossed' = crossed
      /\ UNCHANGED <<users, counters, now, edits, basis, minted>> /\ Reply(c)
      /\ UNCHANGED <<sess, dead, basis, minted, now>>
  BY Errors DEF SweepForget, At, Target
<1>2. req[c].cmd # "login"
  BY <1>1, ReqTypes DEF ReqOK, Before, Issued, Stored
<1>3. Types
  BY DEF IInv
<1>4. gone \subseteq Users
  BY <1>3, ReqTypes DEF Types
<1> HIDE DEF gone
<1>5. /\ index' \in [Users -> SUBSET Tokens] /\ known' \subseteq Users /\ crossed' \subseteq Tokens
      /\ sess' \in [Tokens -> SessRec] /\ dead' \subseteq minted
      /\ \A v \in Users : index'[v] \subseteq Used
  <2>1. UNION {SessionsOf(u) : u \in gone} \subseteq Tokens
    BY <1>4, Accounts
  <2> QED BY <1>1, <1>3, <2>1 DEF Types, IInv
<1>6. /\ Frame(NoToken) /\ Used' = Used
      /\ \A t \in Tokens : SessionOK(t)' /\ (Live(t)' <=> Live(t))
  BY <1>1, SameSessions
<1>7. FilesOK' /\ Go(c, Idle)
  BY <1>1, ReplyFiles
<1>8. ReqOK(req[c])'
  BY <1>7, GoReq, IdleNext
<1>9. Idle.pc \notin Issued /\ Idle.cmd # "login"
  BY IdleRecs DEF Issued
<1>10. \A x \in Tokens, v \in Users : ~Meets(req[c], x, v)
  BY <1>1 DEF Meets
<1>11. \A u \in known \ known' : \A t \in Tokens : Live(t)' /\ sess'[t].user = u => t \in crossed'
  <2>1. SUFFICES ASSUME NEW u \in gone, NEW t \in Tokens, Live(t), sess[t].user = u,
                        crossed' = crossed \cup UNION {SessionsOf(v) : v \in gone}
                 PROVE  t \in crossed'
    BY <1>1, <1>6
  <2>2. t \in SessionsOf(u)
    BY <1>4, <2>1, Accounts
  <2> QED BY <2>1, <2>2
<1> QED BY <1>1, <1>2, <1>5, <1>6, <1>7, <1>8, <1>9, <1>10, <1>11, CommandStep

-----------------------------------------------------------------------------
\* What Dispatch hands a handler over to.
Dispatched(r) ==
  /\ r \in ReqRec /\ r.cmd # "login" /\ r.tok \in minted \cup {NoToken} /\ r.ids \subseteq minted
  /\ r.pc \in {"del", "insert", "scan", "list", "every", "row"}
  /\ r.pc = "del" => \E t \in minted : r.ids = {t}
  /\ r.pc = "row" => r.cmd \in Changes
  /\ r.pc = "every" => r.cmd = "revoke-every"
  /\ r.pc = "list" => r.cmd \notin Swept

LEMMA DispatchTo ==
  ASSUME IInv, NEW c \in Clients, req[c].pc = "touch", Dispatch(c)
  PROVE  Reply(c) \/ (UNCHANGED file /\ \E r : Go(c, r) /\ Dispatched(r))
<1> DEFINE r == req[c]
           own == IF r.got.role # "admin" THEN Self(c) ELSE r.user
<1>1. /\ r.cmd # "login" /\ r.tok \in minted /\ r.ids \subseteq minted
      /\ r.cmd = "revoke" => \E t \in minted : r.ids = {t}
  BY ReqTypes, UsedIssued DEF ReqOK, Before, Issued, Stored
<1>2. /\ "del" \in Points /\ "insert" \in Points /\ "scan" \in Points /\ "list" \in Points
      /\ "every" \in Points /\ "row" \in Points /\ "revoke-all" \in Commands
  BY DEF Points, Commands
<1>3. own \in Users /\ r.tok \in Tokens
  BY <1>1, ReqTypes, UsedIssued DEF Self, SessRec
<1> HIDE DEF own
<1>4. CASE r.cmd = "whoami"
  BY <1>4 DEF Dispatch
<1>5. CASE r.cmd = "logout"
  <2> DEFINE n == [r EXCEPT !.pc = "del", !.ids = {r.tok}]
  <2>1. Go(c, n) /\ UNCHANGED file
    BY <1>5 DEF Dispatch
  <2>2. n \in ReqRec /\ n.pc = "del" /\ n.ids = {r.tok} /\ n.cmd = r.cmd /\ n.tok = r.tok
    BY <1>2, <1>3, ReqTypes DEF ReqRec
  <2>3. Dispatched(n)
    BY <1>1, <2>2 DEF Dispatched
  <2> QED BY <2>1, <2>3
<1>6. CASE r.cmd = "revoke"
  <2> DEFINE n == [r EXCEPT !.pc = "del"]
  <2>1. Go(c, n) /\ UNCHANGED file
    BY <1>6 DEF Dispatch
  <2>2. n \in ReqRec /\ n.pc = "del" /\ n.ids = r.ids /\ n.cmd = r.cmd /\ n.tok = r.tok
    BY <1>2, ReqTypes DEF ReqRec
  <2>3. Dispatched(n)
    BY <1>1, <1>6, <2>2 DEF Dispatched
  <2> QED BY <2>1, <2>3
<1>7. CASE r.cmd = "create"
  <2> DEFINE n == [r EXCEPT !.pc = "insert"]
  <2>1. Go(c, n) /\ UNCHANGED file
    BY <1>7 DEF Dispatch
  <2>2. n \in ReqRec /\ n.pc = "insert" /\ n.ids = r.ids /\ n.cmd = r.cmd /\ n.tok = r.tok
    BY <1>2, ReqTypes DEF ReqRec
  <2>3. Dispatched(n)
    BY <1>1, <2>2 DEF Dispatched
  <2> QED BY <2>1, <2>3
<1>8. CASE r.cmd = "list"
  <2> DEFINE n == [r EXCEPT !.pc = "scan"]
  <2>1. Go(c, n) /\ UNCHANGED file
    BY <1>8 DEF Dispatch
  <2>2. n \in ReqRec /\ n.pc = "scan" /\ n.ids = r.ids /\ n.cmd = r.cmd /\ n.tok = r.tok
    BY <1>2, ReqTypes DEF ReqRec
  <2>3. Dispatched(n)
    BY <1>1, <2>2 DEF Dispatched
  <2> QED BY <2>1, <2>3
<1>9. CASE r.cmd = "revoke-all"
  <2> DEFINE n == [r EXCEPT !.pc = "list", !.todo = {own}]
  <2>1. Go(c, n) /\ UNCHANGED file
    BY <1>9 DEF Dispatch, own
  <2>2. n \in ReqRec /\ n.pc = "list" /\ n.ids = r.ids /\ n.cmd = r.cmd /\ n.tok = r.tok
    BY <1>2, <1>3, ReqTypes DEF ReqRec
  <2>3. Dispatched(n)
    BY <1>1, <1>9, <2>2 DEF Dispatched, Swept
  <2> QED BY <2>1, <2>3
<1>10. CASE r.cmd = "revoke-every" /\ r.got.role = "admin"
  <2> DEFINE n == [r EXCEPT !.pc = "every"]
  <2>1. Go(c, n) /\ UNCHANGED file
    BY <1>10 DEF Dispatch
  <2>2. n \in ReqRec /\ n.pc = "every" /\ n.ids = r.ids /\ n.cmd = r.cmd /\ n.tok = r.tok
    BY <1>2, ReqTypes DEF ReqRec
  <2>3. Dispatched(n)
    BY <1>1, <1>10, <2>2 DEF Dispatched
  <2> QED BY <2>1, <2>3
<1>11. CASE r.cmd = "revoke-every" /\ r.got.role # "admin"
  <2> DEFINE n == [r EXCEPT !.pc = "list", !.cmd = "revoke-all", !.todo = {own}]
  <2>1. Go(c, n) /\ UNCHANGED file
    BY <1>11 DEF Dispatch, own
  <2>2. n \in ReqRec /\ n.pc = "list" /\ n.ids = r.ids /\ n.cmd = "revoke-all" /\ n.tok = r.tok
    BY <1>2, <1>3, ReqTypes DEF ReqRec
  <2>3. Dispatched(n)
    BY <1>1, <2>2 DEF Dispatched, Swept
  <2> QED BY <2>1, <2>3
<1>12. CASE r.cmd \in Changes
  <2> DEFINE n == [r EXCEPT !.pc = "row"]
  <2>1. Go(c, n) /\ UNCHANGED file
    BY <1>12 DEF Dispatch, Changes
  <2>2. n \in ReqRec /\ n.pc = "row" /\ n.ids = r.ids /\ n.cmd = r.cmd /\ n.tok = r.tok
    BY <1>2, ReqTypes DEF ReqRec
  <2>3. Dispatched(n)
    BY <1>1, <1>12, <2>2 DEF Dispatched
  <2> QED BY <2>1, <2>3
<1>13. \/ r.cmd \in {"whoami", "logout", "revoke", "create", "list", "revoke-all", "revoke-every"}
       \/ r.cmd \in Changes
  BY <1>1, ReqTypes DEF Commands, Changes
<1> QED
  BY <1>4, <1>5, <1>6, <1>7, <1>8, <1>9, <1>10, <1>11, <1>12, <1>13

LEMMA AuthTouchSound ==
  ASSUME IInv, NEW c \in Clients, AuthTouch(c)
  PROVE  IInv'
<1> DEFINE s == req[c].tok
           new == Refreshed(c)
<1>1. /\ req[c].pc = "touch" /\ errors' \in Nat /\ known' = known /\ dead' = dead
      /\ index' = index /\ crossed' = crossed
      /\ UNCHANGED <<users, counters, now, edits, basis, minted>>
  BY DEF AuthTouch, At, bounds, IInv, Types
<1>2. /\ req[c].cmd # "login" /\ s \in Used /\ s \in Tokens
      /\ Live(s) => sess[s].user = req[c].got.user
      /\ req[c].at < req[c].got.created + SessionAbsTimeout
  BY <1>1, ReqTypes, UsedIssued DEF ReqOK, Before, Issued, Stored
<1>3. Types
  BY DEF IInv
<1>4. \A x \in Tokens, v \in Users : ~Meets(req[c], x, v)
  BY <1>1 DEF Meets
<1>5. CASE Reply(c) /\ UNCHANGED sess
  <2>1. Unmoved
    BY <1>1, <1>5 DEF Unmoved
  <2> QED BY <1>1, <1>5, <2>1, QuietReply, CountersKept DEF Stored
<1>6. CASE /\ Live(s) /\ sess' = [sess EXCEPT ![s] = new]
           /\ Dispatch(c) \/ Reply(c)
  <2>1. /\ new \in SessRec /\ new.user = sess[s].user /\ new.exp > now /\ new # NoSess
    <3> DEFINE g == req[c].got
               e == now + g.created + SessionAbsTimeout - req[c].at
    <3>1. g \in SessRec /\ g.created \in Nat /\ req[c].at \in Nat /\ now \in Nat
      BY <1>3, ReqTypes DEF SessRec, Types
    <3>2. e \in Nat /\ e > now
      BY <1>2, <3>1, Constants
    <3>3. new = [g EXCEPT !.active = req[c].at, !.exp = e]
      BY DEF Refreshed
    <3> HIDE DEF e
    <3>4. new \in SessRec /\ new.user = g.user /\ new.exp = e
      BY <3>1, <3>2, <3>3 DEF SessRec
    <3>5. new # NoSess
      BY <3>1, <3>2, <3>4, IdleRecs
    <3> QED BY <1>2, <1>6, <3>2, <3>4, <3>5
  <2> HIDE DEF new
  <2>2. /\ sess' \in [Tokens -> SessRec] /\ sess'[s] = new
        /\ \A x \in Tokens \ {s} : sess'[x] = sess[x]
    BY <1>2, <1>3, <1>6, <2>1 DEF Types
  <2>3. \A x \in Tokens : (Live(x)' <=> Live(x)) /\ sess'[x].user = sess[x].user
    <3>1. \A x \in Tokens \ {s} : (Live(x)' <=> Live(x)) /\ sess'[x].user = sess[x].user
      BY <2>2 DEF Live
    <3>2. ASSUME NEW x \in Tokens, x = s PROVE (Live(x)' <=> Live(x)) /\ sess'[x].user = sess[x].user
      BY <1>6, <2>1, <2>2, <3>2 DEF Live
    <3> QED BY <3>1, <3>2
  <2>4. Used' = Used
    BY <1>1, <2>3 DEF Used
  <2>5. Frame(NoToken)
    BY <1>1, <2>3, <2>4, UsedIssued DEF Frame
  <2>6. \A x \in Tokens : SessionOK(x)'
    <3>1. ASSUME NEW x \in Tokens, Live(x)'
          PROVE  x \in minted' /\ x \notin dead' /\ sess'[x].exp > now' /\ basis'[x].enabled
      <4>1. Live(x) /\ SessionOK(x)
        BY <2>3, <3>1 DEF IInv
      <4>2. CASE x = s
        BY <1>1, <2>1, <2>2, <4>1, <4>2 DEF SessionOK
      <4>3. CASE x # s
        BY <1>1, <2>2, <4>1, <4>3 DEF SessionOK
      <4> QED BY <4>2, <4>3
    <3> QED BY <3>1 DEF SessionOK
  <2>7. /\ index' \in [Users -> SUBSET Tokens] /\ known' \subseteq Users /\ crossed' \subseteq Tokens
        /\ dead' \subseteq minted /\ \A u \in Users : index'[u] \subseteq Used
    BY <1>1, <1>3 DEF Types, IInv
  <2>8. ASSUME NEW r, Go(c, r), ReqOK(req[c])', r.cmd # "login", r.pc \notin Issued, FilesOK'
        PROVE  IInv'
    BY <1>1, <1>2, <1>4, <2>2, <2>4, <2>5, <2>6, <2>7, <2>8, CommandStep
  <2>9. CASE Reply(c)
    <3>1. FilesOK' /\ Go(c, Idle)
      BY <1>1, <2>9, ReplyFiles
    <3>2. ReqOK(req[c])'
      BY <3>1, GoReq, IdleNext
    <3>3. Idle.pc \notin Issued /\ Idle.cmd # "login"
      BY IdleRecs DEF Issued
    <3> QED BY <2>8, <3>1, <3>2, <3>3
  <2>10. ASSUME NEW r, Go(c, r), Dispatched(r), UNCHANGED file PROVE IInv'
    <3>1. FilesOK' /\ req'[c] = r
      BY <1>1, <2>10, FilesKept, GoReq
    <3>2. ReqOK(req[c])'
      BY <1>1, <2>10, <3>1 DEF ReqOK, Dispatched, Before, Issued, Stored, Swept
    <3>3. r.pc \notin Issued /\ r.cmd # "login"
      BY <2>10 DEF Dispatched, Issued
    <3> QED BY <2>8, <2>10, <3>1, <3>2, <3>3
  <2> QED BY <1>1, <1>6, <2>9, <2>10, DispatchTo
<1> QED BY <1>5, <1>6 DEF AuthTouch

-----------------------------------------------------------------------------
\* An account may change when a sweep of all its sessions begins with the change, or when
\* it was disabled or missing: no session or login was of that row, so each was met before.
LEMMA AccountMet ==
  ASSUME IInv, NEW u \in Users, NEW row \in RowRec, users' = [users EXCEPT ![u] = row],
         UNCHANGED <<sess, basis, crossed>>,
         \A d \in Clients : \A t \in Tokens, v \in Users :
           Meets(req[d], t, v) => Meets(req'[d], t, v),
         \A d \in Clients : req'[d].pc \in Issued => req'[d] = req[d],
         \/ \E d \in Clients : \A t \in Tokens : Meets(req'[d], t, u)
         \/ ~users[u].enabled
         \/ row = users[u]
  PROVE  StaleMet'
<1>1. Types
  BY DEF IInv
<1>2. users'[u] = row /\ \A v \in Users \ {u} : users'[v] = users[v]
  BY <1>1 DEF Types
<1>3. ASSUME NEW t \in Tokens, NEW v \in Users, Met(t, v)
      PROVE  \E d \in Clients : Meets(req'[d], t, v)
  BY <1>3 DEF Met
<1>4. ASSUME NEW t \in Tokens, NEW v \in Users, NEW old \in RowRec, old.enabled,
             users'[v] # old, users[v] # old => Met(t, v)
      PROVE  \E d \in Clients : Meets(req'[d], t, v)
  <2>1. CASE users[v] # old
    BY <1>3, <1>4, <2>1
  <2>2. CASE users[v] = old
    <3>1. v = u /\ row # users[u] /\ users[u].enabled
      BY <1>2, <1>4, <2>2
    <3> QED BY <3>1
  <2> QED BY <2>1, <2>2
<1>5. ASSUME NEW t \in Tokens, t \notin crossed', Live(t)', users'[sess'[t].user] # basis'[t]
      PROVE  \E d \in Clients : Meets(req'[d], t, sess'[t].user)
  <2>1. /\ Live(t) /\ sess'[t] = sess[t] /\ basis'[t] = basis[t] /\ t \notin crossed
        /\ sess[t].user \in Users /\ basis[t] \in RowRec
    BY <1>1, <1>5 DEF Live, Types, SessRec
  <2>2. basis[t].enabled
    BY <2>1 DEF IInv, SessionOK
  <2>3. users[sess[t].user] # basis[t] => Met(t, sess[t].user)
    BY <2>1 DEF IInv, StaleMet
  <2> QED BY <1>4, <1>5, <2>1, <2>2, <2>3
<1>6. ASSUME NEW d \in Clients, req'[d].pc \in Issued, req'[d].tok \notin crossed',
             users'[req'[d].user] # req'[d].row
      PROVE  \E e \in Clients : Meets(req'[e], req'[d].tok, req'[d].user)
  <2>1. req'[d] = req[d] /\ req[d].pc \in Issued /\ req[d].tok \notin crossed
    BY <1>6
  <2>2. req[d].tok \in Tokens /\ req[d].user \in Users /\ req[d].row \in RowRec /\ req[d].row.enabled
    BY <2>1, LoginFacts, ReqTypes DEF ReqOK
  <2>3. users[req[d].user] # req[d].row => Met(req[d].tok, req[d].user)
    BY <2>1 DEF IInv, StaleMet
  <2> QED BY <1>4, <1>6, <2>1, <2>2, <2>3
<1> QED BY <1>5, <1>6 DEF StaleMet, Met, Live

\* A step that changes one account and moves at most one handler.
LEMMA AccountStep ==
  ASSUME IInv, NEW u \in Users, NEW row \in RowRec, users' = [users EXCEPT ![u] = row],
         edits' \in Nat, edits <= edits',
         row # NoUser => row.role \in Roles /\ row.id \in 1 .. edits',
         UNCHANGED <<sess, index, known, counters, now, minted, basis, dead, crossed, errors>>,
         FilesOK', req' \in [Clients -> ReqRec],
         \A d \in Clients : ReqOK(req'[d]),
         \A d \in Clients : req'[d] # req[d] =>
           /\ req[d].cmd # "login" /\ req'[d].cmd # "login"
           /\ req[d].pc \notin {"list", "sweep"} /\ req'[d].pc \notin Issued,
         \/ \E d \in Clients : \A t \in Tokens : Meets(req'[d], t, u)
         \/ ~users[u].enabled
         \/ row = users[u]
  PROVE  IInv'
<1>1. Types
  BY DEF IInv
<1>2. users' \in [Users -> RowRec] /\ users'[u] = row /\ \A v \in Users \ {u} : users'[v] = users[v]
  BY <1>1 DEF Types
<1>3. Types'
  <2>1. file' \in [Profiles -> Tokens \cup {NoToken}]
    BY <1>1 DEF FilesOK, Types
  <2> QED BY <1>1, <1>2, <2>1 DEF Types, Tallies, counters
<1>4. AccountsOK'
  <2>1. SUFFICES ASSUME NEW v \in Users, users'[v] # NoUser
                 PROVE  users'[v].role \in Roles /\ users'[v].id \in 1 .. edits'
    BY DEF AccountsOK, Exists
  <2>2. CASE v = u
    BY <1>2, <2>1, <2>2
  <2>3. CASE v # u
    <3>1. users[v].role \in Roles /\ users[v].id \in 1 .. edits
      BY <1>2, <2>1, <2>3 DEF IInv, AccountsOK, Exists
    <3>2. edits \in Nat
      BY <1>1 DEF Types
    <3> QED BY <1>2, <2>3, <3>1, <3>2
  <2> QED BY <2>2, <2>3
<1>5. StaleMet'
  <2>1. \A d \in Clients : \A t \in Tokens, v \in Users :
          Meets(req[d], t, v) => Meets(req'[d], t, v)
    BY DEF Meets
  <2>2. \A d \in Clients : req'[d].pc \in Issued => req'[d] = req[d]
    OBVIOUS
  <2> QED BY <2>1, <2>2, AccountMet
<1>6. \A d \in Clients : (LoginOf(d)' <=> LoginOf(d)) /\ (LoginOf(d) => req'[d].tok = req[d].tok)
  <2>1. SUFFICES ASSUME NEW d \in Clients
                 PROVE  (LoginOf(d)' <=> LoginOf(d)) /\ (LoginOf(d) => req'[d].tok = req[d].tok)
    OBVIOUS
  <2>2. CASE req'[d] = req[d]
    BY <2>2 DEF LoginOf
  <2>3. CASE req'[d] # req[d]
    BY <2>3 DEF LoginOf
  <2> QED BY <2>2, <2>3
<1>7. OwnToken'
  BY <1>6 DEF IInv, OwnToken
<1>8. IndexedUnlessOwed'
  BY <1>6 DEF IInv, IndexedUnlessOwed, Live
<1>9. \A d \in Clients : ReqOK(req[d])'
  <2>1. Used' = Used
    BY DEF Used, Live
  <2> QED BY <2>1 DEF ReqOK, Live
<1>10. Counted' /\ \A t \in Tokens : SessionOK(t)'
  BY DEF IInv, Counted, counters, SessionOK, Live
<1>11. /\ \A p \in Profiles : file'[p] \in minted' \cup {NoToken}
       /\ \A v \in Users : index'[v] \subseteq Used'
  BY DEF FilesOK, IInv, Used, Live
<1> QED
  BY <1>3, <1>4, <1>5, <1>7, <1>8, <1>9, <1>10, <1>11 DEF IInv

LEMMA CreateAdminUserSound ==
  ASSUME IInv, NEW c \in Clients, CreateAdminUser(c)
  PROVE  IInv'
<1>1. /\ req[c].pc = "insert" /\ Reply(c) /\ errors' = errors /\ errors' \in Nat
      /\ UNCHANGED <<sess, index, known, counters, now, minted, basis, dead, crossed, errors>>
  BY DEF CreateAdminUser, At, store, IInv, Types
<1>2. CASE UNCHANGED <<users, edits>>
  <2>1. Unmoved
    BY <1>1, <1>2 DEF Unmoved
  <2> QED BY <1>1, <2>1, QuietReply, CountersKept DEF Stored
<1> DEFINE u == req[c].user
           row == [id |-> edits + 1, pw |-> edits + 1, role |-> Role[u], enabled |-> TRUE]
<1>3. CASE ~Exists(u) /\ users' = [users EXCEPT ![u] = row] /\ edits' = edits + 1
  <2>1. u \in Users /\ Role[u] \in Roles /\ edits \in Nat
    BY ReqTypes, Constants DEF IInv, Types
  <2>2. row \in RowRec /\ row.role \in Roles /\ row.id = edits + 1
    BY <2>1 DEF RowRec
  <2>3. ~users[u].enabled
    BY <1>3, IdleRecs DEF Exists
  <2> HIDE DEF u, row
  <2>4. /\ edits' \in Nat /\ edits <= edits' /\ row.id \in 1 .. edits'
    BY <1>3, <2>1, <2>2
  <2>5. FilesOK' /\ Go(c, Idle)
    BY <1>1, ReplyFiles
  <2>6. /\ req' \in [Clients -> ReqRec] /\ req'[c] = Idle
        /\ \A d \in Clients \ {c} : req'[d] = req[d]
    BY <2>5, IdleRecs DEF Go, IInv, Types
  <2>7. \A d \in Clients : ReqOK(req'[d])
    BY <2>6, IdleOK DEF IInv
  <2>8. req[c].cmd # "login" /\ Idle.cmd # "login" /\ Idle.pc \notin Issued
    BY <1>1, ReqTypes, IdleRecs DEF ReqOK, Before, Issued, Stored
  <2>9. \A d \in Clients : req'[d] # req[d] =>
          /\ req[d].cmd # "login" /\ req'[d].cmd # "login"
          /\ req[d].pc \notin {"list", "sweep"} /\ req'[d].pc \notin Issued
    BY <1>1, <2>6, <2>8
  <2> QED
    BY <1>1, <1>3, <2>1, <2>2, <2>3, <2>4, <2>5, <2>6, <2>7, <2>9, AccountStep
<1> QED BY <1>2, <1>3 DEF CreateAdminUser, Target

LEMMA BootstrapAdminSound ==
  ASSUME IInv, BootstrapAdmin
  PROVE  IInv'
<1> DEFINE row == [id |-> edits + 1, pw |-> edits + 1, role |-> "admin", enabled |-> TRUE]
<1>1. /\ ~Exists(Root) /\ users' = [users EXCEPT ![Root] = row] /\ edits' = edits + 1
      /\ UNCHANGED <<sess, index, known, counters, now, minted, basis, dead, crossed, errors>>
      /\ UNCHANGED <<file, minted>> /\ req' = req
  BY Constants DEF BootstrapAdmin, store
<1>2. edits \in Nat /\ req \in [Clients -> ReqRec]
  BY DEF IInv, Types
<1>3. row \in RowRec /\ row.role \in Roles /\ row.id = edits + 1
  BY <1>2 DEF RowRec, Roles
<1>4. ~users[Root].enabled
  BY <1>1, IdleRecs DEF Exists
<1> HIDE DEF row
<1>5. /\ edits' \in Nat /\ edits <= edits' /\ row.id \in 1 .. edits'
  BY <1>1, <1>2, <1>3
<1>6. FilesOK'
  BY <1>1, FilesKept
<1>7. \A d \in Clients : ReqOK(req'[d])
  BY <1>1 DEF IInv
<1> QED BY <1>1, <1>2, <1>3, <1>4, <1>5, <1>6, <1>7, Constants, AccountStep

LEMMA CommitSound ==
  ASSUME IInv, NEW c \in Clients, Commit(c)
  PROVE  IInv'
<1> DEFINE u == req[c].user
           old == users[u]
           row == Changed(c, old)
           sweep == [req[c] EXCEPT !.pc = "list", !.todo = {u}]
<1>1. /\ req[c].pc = "commit" /\ errors' = errors /\ errors' \in Nat
      /\ UNCHANGED <<sess, index, known, counters, now, minted, basis, dead, crossed, errors>>
  BY DEF Commit, At, store, IInv, Types
<1>2. CASE Reply(c) /\ UNCHANGED <<users, edits>>
  <2>1. Unmoved
    BY <1>1, <1>2 DEF Unmoved
  <2> QED BY <1>1, <1>2, <2>1, QuietReply, CountersKept DEF Stored
<1>3. CASE /\ Where(c, old, req[c].others)
           /\ users' = [users EXCEPT ![u] = row]
           /\ edits' = IF req[c].cmd = "password" THEN edits + 1 ELSE edits
           /\ IF req[c].cmd = "enable" THEN Reply(c) ELSE Go(c, sweep) /\ UNCHANGED file
  <2>1. /\ u \in Users /\ edits \in Nat /\ old \in RowRec /\ req[c].row.id # 0
        /\ req[c].cmd \in Changes /\ req[c].tok \in minted \cup {NoToken} /\ req[c].ids \subseteq minted
    BY <1>1, ReqTypes DEF IInv, Types, ReqOK
  <2>2. Exists(u)
    BY <1>3, <2>1, IdleRecs DEF Where, Exists
  <2>3. old.role \in Roles /\ old.id \in 1 .. edits
    BY <2>1, <2>2 DEF IInv, AccountsOK
  <2>4. edits' \in Nat /\ edits <= edits' /\ old.id \in 1 .. edits'
    BY <1>3, <2>1, <2>3
  <2>5. /\ row \in RowRec /\ (row # NoUser => row.role \in Roles /\ row.id \in 1 .. edits')
        /\ req[c].cmd = "enable" => ~old.enabled \/ row = old
    <3>1. CASE req[c].cmd = "delete"
      <4>1. row = NoUser
        BY <3>1 DEF Changed
      <4> QED BY <3>1, <4>1, IdleRecs
    <3>2. CASE req[c].cmd = "password"
      <4>1. row = [old EXCEPT !.pw = edits + 1]
        BY <3>2 DEF Changed
      <4> HIDE DEF row, old
      <4>2. row \in RowRec /\ row.role = old.role /\ row.id = old.id
        BY <2>1, <4>1 DEF RowRec
      <4> QED BY <2>3, <2>4, <3>2, <4>2
    <3>3. CASE req[c].cmd \in {"enable", "disable"}
      <4> DEFINE b == req[c].cmd = "enable"
      <4>1. row = [old EXCEPT !.enabled = b]
        BY <3>3 DEF Changed
      <4>2. b \in BOOLEAN /\ (req[c].cmd = "enable" => b = TRUE)
        OBVIOUS
      <4> HIDE DEF row, old, b
      <4>3. row \in RowRec /\ row.role = old.role /\ row.id = old.id
        BY <2>1, <4>1, <4>2 DEF RowRec
      <4>4. ASSUME req[c].cmd = "enable", old.enabled = TRUE PROVE row = old
        BY <2>1, <4>1, <4>2, <4>4 DEF RowRec
      <4>5. old.enabled \in BOOLEAN
        BY <2>1 DEF RowRec
      <4> QED BY <2>3, <2>4, <4>3, <4>4, <4>5
    <3> QED BY <2>1, <3>1, <3>2, <3>3 DEF Changes
  <2> HIDE DEF row
  <2>6. CASE req[c].cmd = "enable"
    <3>1. FilesOK' /\ Go(c, Idle)
      BY <1>1, <1>3, <2>6, ReplyFiles
    <3>2. /\ req' \in [Clients -> ReqRec] /\ req'[c] = Idle
          /\ \A d \in Clients \ {c} : req'[d] = req[d]
      BY <3>1, IdleRecs DEF Go, IInv, Types
    <3>3. \A d \in Clients : ReqOK(req'[d])
      BY <3>2, IdleOK DEF IInv
    <3>4. req[c].cmd # "login" /\ Idle.cmd # "login" /\ Idle.pc \notin Issued
      BY <2>6, IdleRecs DEF Issued
    <3>5. \A d \in Clients : req'[d] # req[d] =>
            /\ req[d].cmd # "login" /\ req'[d].cmd # "login"
            /\ req[d].pc \notin {"list", "sweep"} /\ req'[d].pc \notin Issued
      BY <1>1, <3>2, <3>4
    <3> QED
      BY <1>1, <1>3, <2>1, <2>4, <2>5, <2>6, <3>1, <3>2, <3>3, <3>5, AccountStep
  <2>7. CASE req[c].cmd # "enable"
    <3>1. "list" \in Points /\ req[c].cmd \in Swept
      BY <2>1, <2>7 DEF Points, Changes, Swept
    <3>2. /\ sweep \in ReqRec /\ sweep.pc = "list" /\ sweep.cmd = req[c].cmd /\ sweep.user = u
          /\ sweep.tok = req[c].tok /\ sweep.ids = req[c].ids /\ sweep.todo = {u}
      BY <2>1, <3>1, ReqTypes DEF ReqRec
    <3>3. Go(c, sweep) /\ file' = file
      BY <1>3, <2>7
    <3> HIDE DEF sweep
    <3>4. ReqOK(sweep)
      BY <2>1, <3>1, <3>2 DEF ReqOK, Before, Issued, Stored, Swept
    <3>5. /\ req' \in [Clients -> ReqRec] /\ req'[c] = sweep
          /\ \A d \in Clients \ {c} : req'[d] = req[d]
      BY <3>2, <3>3 DEF Go, IInv, Types
    <3>6. FilesOK'
      BY <1>1, <3>3, FilesKept
    <3>7. \A d \in Clients : ReqOK(req'[d])
      BY <3>4, <3>5 DEF IInv
    <3>8. req[c].cmd # "login" /\ sweep.cmd # "login" /\ sweep.pc \notin Issued
      BY <3>1, <3>2 DEF Issued, Swept
    <3>9. \A d \in Clients : req'[d] # req[d] =>
            /\ req[d].cmd # "login" /\ req'[d].cmd # "login"
            /\ req[d].pc \notin {"list", "sweep"} /\ req'[d].pc \notin Issued
      BY <1>1, <3>5, <3>8
    <3>10. \A t \in Tokens : Meets(req'[c], t, u)
      BY <3>1, <3>2, <3>5 DEF Meets
    <3> QED
      BY <1>1, <1>3, <2>1, <2>4, <2>5, <3>5, <3>6, <3>7, <3>9, <3>10, AccountStep
  <2> QED BY <2>6, <2>7
<1> QED BY <1>2, <1>3 DEF Commit, Target

-----------------------------------------------------------------------------
\* Time passes: sessions and counters lapse, and no handler moves.
LEMMA TickSound ==
  ASSUME IInv, Tick
  PROVE  IInv'
<1> DEFINE lapsed == {t \in Tokens : Live(t) /\ sess[t].exp <= now'}
           Kept(k) == IF k.exp <= now' THEN Zero ELSE k
<1>1. /\ now' = now + 1 /\ dead' = dead \cup lapsed
      /\ sess' = [t \in Tokens |-> IF t \in lapsed THEN NoSess ELSE sess[t]]
      /\ UNCHANGED <<users, index, known, req, file, minted, bounds, basis, crossed>>
  BY DEF Tick
<1>2. /\ failed' = [u \in Users |-> Kept(failed[u])] /\ failedIP' = Kept(failedIP)
      /\ tickets' = [user |-> [u \in Users |-> IF Kept(failed[u]) = Zero THEN {}
                                               ELSE tickets.user[u]],
                     ip |-> IF Kept(failedIP) = Zero THEN {} ELSE tickets.ip]
      /\ admitted' = [user |-> [u \in Users |-> IF Kept(failed[u]) = Zero THEN 0
                                                ELSE admitted.user[u]],
                      ip |-> IF Kept(failedIP) = Zero THEN 0 ELSE admitted.ip]
  BY DEF Tick
<1>3. Types
  BY DEF IInv
<1>4. \A k \in CounterRec : Kept(k) \in CounterRec /\ (Kept(k) = Zero \/ Kept(k) = k)
  BY IdleRecs
<1>5. Counters'
  <2>1. Counters
    BY FilesCounters
  <2>2. failed \in [Users -> CounterRec] /\ failedIP \in CounterRec
        /\ admitted.user \in [Users -> Nat] /\ admitted.ip \in Nat
        /\ tickets.user \in [Users -> SUBSET (Clients \X Nat)] /\ tickets.ip \in SUBSET Clients
    BY <2>1 DEF Counters, Tallies
  <2> HIDE DEF Kept
  <2>3. failed' \in [Users -> CounterRec] /\ failedIP' \in CounterRec
    BY <1>2, <1>4, <2>2
  <2>4. /\ admitted' \in [user : [Users -> Nat], ip : Nat]
        /\ \A u \in Users : admitted'.user[u] = IF failed'[u] = Zero THEN 0 ELSE admitted.user[u]
        /\ admitted'.ip = IF failedIP' = Zero THEN 0 ELSE admitted.ip
    BY <1>2, <2>2
  <2>5. /\ tickets' \in [user : [Users -> SUBSET (Clients \X Nat)], ip : SUBSET Clients]
        /\ \A u \in Users : tickets'.user[u] = IF failed'[u] = Zero THEN {} ELSE tickets.user[u]
        /\ tickets'.ip = IF failedIP' = Zero THEN {} ELSE tickets.ip
    BY <1>2, <2>2
  <2>6. Zero.n = 0 /\ Fits(0, Within({}), 0, MaxLoginAttempts) /\ Fits(0, {}, 0, IPCeiling)
    BY FitsNone, WithinTickets, Constants, IdleRecs
  <2>7. ASSUME NEW u \in Users
        PROVE  Fits(admitted'.user[u], Within(tickets'.user[u]), failed'[u].n, MaxLoginAttempts)
    <3>1. CASE failed'[u] = Zero
      BY <2>4, <2>5, <2>6, <3>1
    <3>2. CASE failed'[u] # Zero
      <4>1. failed'[u] = failed[u]
        BY <1>2, <1>4, <2>2, <3>2
      <4> QED BY <2>1, <2>4, <2>5, <3>2, <4>1 DEF Counters, Counted
    <3> QED BY <3>1, <3>2
  <2>8. Fits(admitted'.ip, tickets'.ip, failedIP'.n, IPCeiling)
    <3>1. CASE failedIP' = Zero
      BY <2>4, <2>5, <2>6, <3>1
    <3>2. CASE failedIP' # Zero
      <4>1. failedIP' = failedIP
        BY <1>2, <1>4, <2>2, <3>2
      <4> QED BY <2>1, <2>4, <2>5, <3>2, <4>1 DEF Counters, Counted
    <3> QED BY <3>1, <3>2
  <2> QED BY <2>3, <2>4, <2>5, <2>7, <2>8 DEF Counters, Counted, Tallies
<1>6. lapsed \subseteq Tokens /\ lapsed \subseteq Used /\ lapsed \subseteq minted
  BY UsedIssued DEF Used
<1>7. now \in Nat /\ now' \in Nat
  BY <1>1, <1>3 DEF Types
<1>8. \A t \in Tokens : Live(t)' => /\ Live(t) /\ sess'[t] = sess[t] /\ t \notin lapsed
                                    /\ sess[t].exp > now'
  <2>1. SUFFICES ASSUME NEW t \in Tokens, Live(t)'
                 PROVE  /\ Live(t) /\ sess'[t] = sess[t] /\ t \notin lapsed
                        /\ sess[t].exp > now'
    OBVIOUS
  <2>2. t \notin lapsed /\ sess'[t] = sess[t] /\ Live(t)
    BY <1>1, <2>1 DEF Live
  <2>3. ~(sess[t].exp <= now')
    BY <2>2
  <2>4. sess[t].exp \in Nat
    BY <1>3 DEF Types, SessRec
  <2> QED BY <1>7, <2>2, <2>3, <2>4
<1>9. \A t \in Tokens : Live(t) => Live(t)' \/ t \in lapsed
  BY <1>1 DEF Live
<1>10. sess' \in [Tokens -> SessRec]
  BY <1>1, <1>3, IdleRecs DEF Types
<1> HIDE DEF lapsed, Kept
<1>11. Used' = Used
  BY <1>1, <1>6, <1>8, <1>9 DEF Used
<1>12. Frame(NoToken)
  BY <1>1, <1>8, <1>11, UsedIssued DEF Frame
<1>13. Types'
  <2>1. edits' = edits /\ errors' = errors
    BY <1>1 DEF bounds
  <2> QED BY <1>1, <1>3, <1>5, <1>6, <1>7, <1>10, <2>1 DEF Types, Counters
<1>14. AccountsOK'
  BY <1>1 DEF IInv, AccountsOK, Exists, bounds
<1>15. \A t \in Tokens : SessionOK(t)'
  BY <1>1, <1>8 DEF IInv, SessionOK
<1>16. \A d \in Clients : ReqOK(req[d])'
  <2>1. SUFFICES ASSUME NEW d \in Clients PROVE ReqOK(req[d])'
    OBVIOUS
  <2>2. req[d].pc \in Issued => req[d].tok # NoToken
    BY LoginFacts, Constants
  <2>3. ReqOK(req[d]) /\ req'[d] = req[d]
    BY <1>1 DEF IInv
  <2> QED BY <1>12, <2>2, <2>3, ReqKept
<1>17. OwnToken'
  BY <1>1 DEF IInv, OwnToken, LoginOf
<1>18. IndexedUnlessOwed'
  BY <1>1, <1>8 DEF IInv, IndexedUnlessOwed, LoginOf
<1>19. StaleMet'
  BY <1>1, <1>8 DEF IInv, StaleMet, Met
<1>20. /\ \A p \in Profiles : file'[p] \in minted' \cup {NoToken}
       /\ \A v \in Users : index'[v] \subseteq Used'
  BY <1>1, <1>11 DEF IInv
<1>21. Counted'
  BY <1>5 DEF Counters
<1> QED
  BY <1>13, <1>14, <1>15, <1>16, <1>17, <1>18, <1>19, <1>20, <1>21 DEF IInv

LEMMA StutterSound ==
  ASSUME IInv, UNCHANGED vars
  PROVE  IInv'
<1>1. /\ UNCHANGED <<users, sess, index, known, failed, failedIP, tickets, admitted, now, req, file>>
      /\ UNCHANGED <<minted, edits, errors, basis, dead, crossed>>
  BY DEF vars, store, counters, bounds
<1>2. Types' /\ AccountsOK' /\ Counted'
  BY <1>1 DEF IInv, Types, Tallies, AccountsOK, Exists, Counted
<1>3. Used' = Used
  BY <1>1 DEF Used, Live
<1>4. /\ \A t \in Tokens : SessionOK(t)'
      /\ \A p \in Profiles : file'[p] \in minted' \cup {NoToken}
      /\ \A v \in Users : index'[v] \subseteq Used'
  BY <1>1, <1>3 DEF IInv, SessionOK, Live
<1>5. \A d \in Clients : ReqOK(req[d])'
  BY <1>1, <1>3 DEF IInv, ReqOK, Live
<1>6. OwnToken' /\ IndexedUnlessOwed'
  BY <1>1 DEF IInv, OwnToken, IndexedUnlessOwed, LoginOf, Live
<1>7. StaleMet'
  BY <1>1 DEF IInv, StaleMet, Met, Live
<1> QED BY <1>2, <1>4, <1>5, <1>6, <1>7 DEF IInv

LEMMA ServeSound ==
  ASSUME IInv, NEW c \in Clients, Serve(c)
  PROVE  IInv'
<1>1. CASE CheckLoginLockout(c) \/ CountUser(c) \/ CountIP(c) \/ LookUp(c) \/ ClearFailed(c)
  BY <1>1, CheckLoginLockoutSound, CountUserSound, CountIPSound, LookUpSound, ClearFailedSound
<1>2. CASE StoreSession(c) \/ IndexSession(c) \/ FinishLogin(c) \/ AuthGet(c) \/ AuthTouch(c)
  BY <1>2, StoreSessionSound, IndexSessionSound, FinishLoginSound, AuthGetSound, AuthTouchSound
<1>3. CASE RevokeSession(c) \/ RevokeUnindex(c) \/ ListSessions(c) \/ ListPrune(c)
  BY <1>3, RevokeSessionSound, RevokeUnindexSound, ListSessionsSound, ListPruneSound
<1>4. CASE RevokeEvery(c) \/ SweepList(c) \/ SweepDel(c) \/ SweepDrop(c) \/ SweepForget(c)
  BY <1>4, RevokeEverySound, SweepListSound, SweepDelSound, SweepDropSound, SweepForgetSound
<1>5. CASE CreateAdminUser(c) \/ ReadRow(c) \/ Statement(c) \/ Commit(c)
  BY <1>5, CreateAdminUserSound, ReadRowSound, StatementSound, CommitSound
<1> QED BY <1>1, <1>2, <1>3, <1>4, <1>5 DEF Serve

LEMMA NextSound == IInv /\ [Next]_vars => IInv'
<1> SUFFICES ASSUME IInv, [Next]_vars PROVE IInv'
  OBVIOUS
<1>1. CASE \E c \in Clients, p \in Profiles :
             \/ \E u \in Users, pw \in 1 .. edits : RunLogin(c, p, u, pw)
             \/ RunUser(c, p) \/ RunSession(c, p) \/ RunOwn(c, p)
  <2>1. PICK c \in Clients, p \in Profiles :
          \/ \E u \in Users, pw \in 1 .. edits : RunLogin(c, p, u, pw)
          \/ RunUser(c, p) \/ RunSession(c, p) \/ RunOwn(c, p)
    BY <1>1
  <2>2. CASE \E u \in Users, pw \in 1 .. edits : RunLogin(c, p, u, pw)
    BY <2>2, RunLoginSound
  <2>3. CASE RunUser(c, p) \/ RunSession(c, p) \/ RunOwn(c, p)
    BY <2>3, RunSound
  <2> QED BY <2>1, <2>2, <2>3
<1>2. CASE \E c \in Clients : Serve(c)
  BY <1>2, ServeSound
<1>3. CASE BootstrapAdmin \/ Tick
  BY <1>3, BootstrapAdminSound, TickSound
<1>4. CASE UNCHANGED vars
  BY <1>4, StutterSound
<1> QED BY <1>1, <1>2, <1>3, <1>4 DEF Next

-----------------------------------------------------------------------------
(* The inductive invariant holds of the logins, commands, sweeps and       *)
(* account changes, however they interleave.                               *)
THEOREM Inductive == Spec => []IInv
<1> QED BY InitSound, NextSound, PTL DEF Spec

(* A session that was revoked, swept or expired is never live again: the   *)
(* refresh of ValidateSession (SetXX, session.go:196) revives none, and no *)
(* login stores a token twice.                                             *)
THEOREM RevocationLasts == Spec => []RevokedForGood
<1>1. IInv => RevokedForGood
  BY DEF IInv, Types, SessionOK, RevokedForGood
<1> QED BY <1>1, Inductive, PTL

(* After a disable, a delete or a password change was served no session of *)
(* a login from before it is left, but those that crossed the sweep        *)
(* (admin_auth.go, RevokeAllUserSessions) or that an error kept from it.   *)
THEOREM SweepsCatchStale == Spec => []StaleSessionsSwept
<1>1. IInv => StaleSessionsSwept
  <2>1. SUFFICES ASSUME IInv, NEW t \in Tokens \ crossed, Live(t),
                        users[sess[t].user] # basis[t]
                 PROVE  Sweeping(sess[t].user)
    BY DEF StaleSessionsSwept
  <2>2. PICK c \in Clients : Meets(req[c], t, sess[t].user)
    BY <2>1 DEF IInv, StaleMet, Met
  <2> QED BY <2>2 DEF Meets, Sweeping, Swept
<1> QED BY <1>1, Inductive, PTL

(* Every session whose login is over is in its user's index, and the user  *)
(* in the set of users, so that a later "revoke all" finds it, unless the  *)
(* login crossed a sweep or a command of Redis failed at its login, at a   *)
(* sweep or at its revocation; and the stored values are well formed       *)
(* (CreateSession, RevokeSession, RevokeAllUserSessions; session.go).      *)
THEOREM SessionsFound == Spec => []SessionsIndexed
<1>1. ASSUME IInv PROVE SessionsIndexed
  <2>1. Types /\ AccountsOK /\ \A t \in Tokens : SessionOK(t)
    BY <1>1 DEF IInv
  <2>2. TypeOK
    <3>1. \A u \in Users : Exists(u) =>
            users[u].role \in DOMAIN rolePermissions /\ users[u].id \in 1 .. edits
      BY <2>1, Constants DEF AccountsOK
    <3>2. \A t \in Tokens : Live(t) => t \in minted /\ sess[t].exp > now
      BY <2>1 DEF SessionOK
    <3>3. index \in [Users -> SUBSET minted] /\ known \subseteq Users
      BY <1>1, <2>1, UsedIssued DEF IInv, Types
    <3>4. \A p \in Profiles : file[p] \in minted \cup {NoToken}
      BY <1>1 DEF IInv
    <3>5. failed \in [Users -> [n : Nat, exp : Nat]] /\ failedIP \in [n : Nat, exp : Nat]
      BY <2>1 DEF Types, CounterRec
    <3> QED BY <3>1, <3>2, <3>3, <3>4, <3>5 DEF TypeOK
  <2>3. IndexedUnlessOwed
    BY <1>1 DEF IInv
  <2> QED BY <2>2, <2>3 DEF SessionsIndexed, IndexedUnlessOwed
<1> QED BY <1>1, Inductive, PTL

(* Of the attempts a failure counter has counted since its last reset, no  *)
(* more have their password compared than the lockout allows, for a user   *)
(* and for an address (login.go:123-180): attempts are counted before they *)
(* are judged and compared after, so concurrent logins do not get past the *)
(* limit, whichever commands to Redis fail.                                *)
THEOREM LockoutNeverPassed == Spec => []LockoutHolds
<1>1. IInv => LockoutHolds
  BY FitsLimit, Constants DEF IInv, Counted, LockoutHolds
<1> QED BY <1>1, Inductive, PTL
=============================================================================
