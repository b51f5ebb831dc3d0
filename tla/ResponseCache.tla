--------------------------- MODULE ResponseCache ---------------------------
(***************************************************************************)
(* The response cache (internal/cache) as a pipeline stage of concurrent   *)
(* calls: exact and semantic lookups before the upstream call, the write   *)
(* in a goroutine after it, purges by pattern and by tag, and the erasure  *)
(* of a tenant across PostgreSQL, Redis, ClickHouse and the authentication *)
(* caches (internal/store/erasure.go).                                     *)
(*                                                                         *)
(* A hash is the tuple of what is hashed.  The vector of a text is the     *)
(* text, and Close and Near are the pairs of texts at least the route's    *)
(* threshold, at least 0.70 alike.  Redis keys are the records that their  *)
(* names spell out, so a pattern is a predicate on them.  Redis keeps for  *)
(* every key the ticks it has left to live, 0 for ever.                    *)
(***************************************************************************)
EXTENDS Naturals, Sequences, FiniteSets

CONSTANTS
    MaxCalls,       \* a bound
    Requests,       \* what a call may ask: tenant, route, user, params,
                    \* system, history, text, query, tags, optOut, tools, format
    Routes, Tenants,
    Configs,        \* [Routes -> the route's cache section]
    Close, Near,    \* sets of pairs of texts
    PurgeOptions,   \* tenant, route and tag of a purge, None where not given
    None,
    Slots,          \* 64 in the code
    Peers,          \* the other replicas
    MaxJobs, MaxFaults, MaxLate    \* bounds

ASSUME CacheAssumption ==
    /\ {Slots, MaxCalls} \subseteq Nat \ {0} /\ {Peers, MaxJobs, MaxFaults, MaxLate} \subseteq Nat
    /\ Configs # {}
    /\ \A f \in Configs, r \in Routes :
         /\ f[r].mode \in {"off", "shadow", "on"} /\ f[r].ttl \in Nat
         /\ {f[r].exact, f[r].semantic} \subseteq BOOLEAN
    /\ \A r \in Requests : r.tenant \in Tenants /\ r.route \in Routes
    /\ \A o \in PurgeOptions : o.tenant \in Tenants \cup {None} /\ o.route \in Routes \cup {None}

VARIABLES
    call,       \* per call: its control point, request, snapshot and state
    db,         \* cache entries in Redis, by key
    tagset,     \* tag sets in Redis, by tenant and tag
    job,        \* the purge or erasure that is running
    jobs,       \* how many were started
    orders,     \* purge messages on their way, and the options of the request
    purged,     \* history: those that finished without an error
    rows,       \* tenants in PostgreSQL
    cached,     \* positive authentication entries: replica and tenant
    late,       \* lookups that read a tenant's row and ended when it was gone
    notices,    \* tenant_erased messages on their way to a replica, or lost
    missed,     \* history: entries whose lookup read a row that is gone
    shadows,    \* shadow evidence handed to the recorder: calls
    faults

(* Calls are numbered in the order in which they begin.                    *)
Calls == 1..MaxCalls

(* Replica 0 runs the administrator's requests.                            *)
Replicas == 0..Peers

vars == <<call, db, tagset, job, jobs, orders, purged, rows, cached, late, notices, missed,
          shadows, faults>>
redis == <<db, tagset>>
auth == <<cached, late, notices, missed>>
admin == <<job, jobs, orders, purged, rows, auth>>

NoJob == [kind |-> "none"]
NoOrders == [left |-> 0, asked |-> None]
NewCall == [pc |-> "new", status |-> "miss", src |-> None]
NoPlan == [exact |-> FALSE, semantic |-> FALSE]

Init ==
    /\ call = [c \in Calls |-> NewCall]
    /\ db = <<>> /\ tagset = <<>>
    /\ job = NoJob /\ jobs = 0 /\ orders = NoOrders /\ purged = {}
    /\ rows = Tenants /\ cached = Replicas \X Tenants
    /\ late = 0 /\ notices = {} /\ missed = {}
    /\ shadows = {} /\ faults = 0

Fails == faults < MaxFaults /\ faults' = faults + 1
Works == faults' = faults

-----------------------------------------------------------------------------
(* Keys                                                                     *)

(* Everything but the last user message.                                   *)
ContextHash(r) == <<r.system, r.history>>

\* Mutant of Scope: the per-user partition without the context's hash.
ScopeUserOnly(r, g) ==
    <<g.version, r.route, r.tenant, IF g.perUser THEN r.user ELSE "", <<>>,
      r.params, r.system>>

(* What must agree for an answer to be reused.                             *)
Scope(r, g) ==
    <<g.version, r.route, r.tenant, IF g.perUser THEN r.user ELSE "",
      IF g.perUser THEN ContextHash(r) ELSE <<>>, r.params, r.system>>

ExactHash(r, g) == <<Scope(r, g), r.system, r.history, r.text>>
ExactKey(r, g) == [kind |-> "x", tenant |-> r.tenant, route |-> r.route,
                   hash |-> ExactHash(r, g)]

(* A semantic entry gets a new uuid.                                       *)
SemanticKey(c, r) == [kind |-> "s", tenant |-> r.tenant, route |-> r.route,
                      hash |-> <<c>>]

(* The text to embed: the header's, where clients may choose it.           *)
SemanticText(r, g) == IF g.allowClientKey /\ r.query # None THEN r.query ELSE r.text

Eligibility(r, g) ==
    IF g.mode = "off" \/ r.optOut \/ r.tools THEN NoPlan
    ELSE [exact |-> g.exact,
          semantic |-> g.semantic /\ ~r.format /\ r.history = None]

Bypassed(r, g) == g.mode # "off" /\ (r.optOut \/ r.tools)

-----------------------------------------------------------------------------
(* The two stores                                                           *)

Extend(f, x, v) == [y \in DOMAIN f \cup {x} |-> IF y = x THEN v ELSE f[y]]
Without(f, S) == [y \in DOMAIN f \ S |-> f[y]]

(* A write and the registration of its key in the tag sets of its tenant,  *)
(* in one transaction; the life of a tag set is that of its last member.   *)
Put(key, e, ttl) ==
    /\ db' = Extend(db, key, e)
    /\ LET sets == {<<key.tenant, t>> : t \in e.tags}
       IN tagset' = [s \in DOMAIN tagset \cup sets |->
                       IF s \notin sets THEN tagset[s]
                       ELSE [left |-> ttl,
                             members |-> {key} \cup (IF s \in DOMAIN tagset
                                                     THEN tagset[s].members ELSE {})]]

(* What is stored, with the life of the route's ttl.                       *)
Entry(c, g) ==
    [src |-> c, query |-> SemanticText(call[c].req, g), context |-> ContextHash(call[c].req),
     tags |-> call[c].req.tags, scope |-> Scope(call[c].req, g), left |-> g.ttl,
     born |-> jobs]

(* The index is filtered by tenant and scope; the search is approximate.   *)
Candidates(r, g) ==
    {k \in DOMAIN db : k.kind = "s" /\ k.tenant = r.tenant /\ db[k].scope = Scope(r, g)}

Alike(p, q, pairs) == p = q \/ {p, q} \in pairs

-----------------------------------------------------------------------------
(* Stage.Before                                                             *)

At(c, p) == call[c].pc = p
Step(c, fields) == call' = [call EXCEPT ![c] = fields]
Goto(c, p) == Step(c, IF p = "done"
                      THEN [call[c] EXCEPT !.pc = p, !.plan = NoPlan, !.embedded = FALSE]
                      ELSE [call[c] EXCEPT !.pc = p])
Hit(c, k, status) ==
    Step(c, [call[c] EXCEPT !.pc = "done", !.plan = NoPlan, !.embedded = FALSE,
                            !.src = db[k].src, !.status = status])

(* The tenant's key authenticates at some replica.                         *)
Admitted(t) == t \in rows \/ \E i \in Replicas : <<i, t>> \in cached

(* A tenant whose key still authenticates sends a request; the call keeps  *)
(* the snapshot g of its route.  Replicas load a new configuration each at *)
(* its own time, so that a call may meet any of Configs.                   *)
Begin(c, r, g) ==
    /\ At(c, "new") /\ \A d \in 1..c - 1 : ~At(d, "new")
    /\ Admitted(r.tenant)
    /\ LET plan == Eligibility(r, g)
       IN Step(c, [pc |-> IF plan.exact THEN "exact"
                          ELSE IF plan.semantic THEN "semantic" ELSE "upstream",
                   req |-> r, cfg |-> g, plan |-> plan,
                   status |-> IF Bypassed(r, g) THEN "bypass" ELSE "miss",
                   src |-> None, embedded |-> FALSE])
    /\ UNCHANGED <<db, tagset, admin, shadows, faults>>

AfterExact(c) == IF call[c].plan.semantic THEN "semantic" ELSE "upstream"

(* The exact lookup.  In shadow mode a found answer is only a candidate.   *)
LookExact(c) ==
    /\ At(c, "exact")
    /\ LET k == ExactKey(call[c].req, call[c].cfg)
       IN \/ Fails /\ Goto(c, AfterExact(c))
          \/ /\ Works /\ k \notin DOMAIN db
             /\ Goto(c, AfterExact(c))
          \/ /\ Works /\ k \in DOMAIN db /\ call[c].cfg.mode = "shadow"
             /\ Step(c, [call[c] EXCEPT !.pc = AfterExact(c), !.src = db[k].src])
          \/ /\ Works /\ k \in DOMAIN db /\ call[c].cfg.mode = "on"
             /\ Hit(c, k, "hit-exact")
    /\ UNCHANGED <<redis, admin, shadows>>

(* What the nearest entry is good for.                                     *)
Serves(c, k) ==
    LET r == call[c].req
        g == call[c].cfg
        text == SemanticText(r, g)
    IN CASE g.allowClientKey /\ db[k].context # ContextHash(r) -> "nothing"
         [] g.mode = "shadow" -> IF call[c].src = None /\ Alike(text, db[k].query, Close \cup Near)
                                 THEN "candidate" ELSE "nothing"
         [] g.mode = "on" -> IF Alike(text, db[k].query, Close) THEN "hit" ELSE "nothing"

(* The semantic lookup: embedding the text, then the nearest neighbour.    *)
LookSemantic(c) ==
    /\ At(c, "semantic")
    /\ \/ Fails /\ \E e \in BOOLEAN : Step(c, [call[c] EXCEPT !.pc = "upstream", !.embedded = e])
       \/ /\ Works /\ Candidates(call[c].req, call[c].cfg) = {}
          /\ Step(c, [call[c] EXCEPT !.pc = "upstream", !.embedded = TRUE])
       \/ /\ Works
          /\ \E k \in Candidates(call[c].req, call[c].cfg) :
               \/ /\ Serves(c, k) = "nothing"
                  /\ Step(c, [call[c] EXCEPT !.pc = "upstream", !.embedded = TRUE])
               \/ /\ Serves(c, k) = "candidate"
                  /\ Step(c, [call[c] EXCEPT !.pc = "upstream", !.embedded = TRUE,
                                             !.src = db[k].src])
               \/ /\ Serves(c, k) = "hit"
                  /\ Hit(c, k, "hit-semantic")
    /\ UNCHANGED <<redis, admin, shadows>>

-----------------------------------------------------------------------------
(* Stage.After                                                              *)

(* The calls whose writer holds a slot.                                    *)
Writing == {c \in Calls : call[c].pc \in {"put exact", "put semantic"}}

AfterPutExact(c) == IF call[c].embedded THEN "put semantic" ELSE "done"
FirstPut(c) == IF call[c].plan.exact THEN "put exact" ELSE AfterPutExact(c)

(* The provider answered, or the call failed: a shadow candidate is        *)
(* recorded, and a complete answer of at most max_entry_bytes goes to a    *)
(* writer if a slot is free.                                               *)
Upstream(c) ==
    /\ At(c, "upstream")
    /\ \/ Goto(c, "done") /\ UNCHANGED shadows            \* c.Err
       \/ /\ shadows' = IF call[c].src # None /\ (~call[c].cfg.consentRequired \/ call[c].req.consent)
                        THEN shadows \cup {c} ELSE shadows
          /\ \/ Goto(c, "done")                           \* not storable, too large
             \/ /\ call[c].status = "miss" /\ call[c].plan # NoPlan
                /\ Goto(c, IF Cardinality(Writing) < Slots THEN FirstPut(c) ELSE "done")
    /\ UNCHANGED <<redis, admin, faults>>

(* A write that fails may have been done: its reply was lost.              *)
Store(c, key) ==
    \/ Fails /\ UNCHANGED redis
    \/ (Works \/ Fails) /\ Put(key, Entry(c, call[c].cfg), call[c].cfg.ttl)

PutExact(c) ==
    /\ At(c, "put exact")
    /\ Store(c, ExactKey(call[c].req, call[c].cfg))
    /\ Goto(c, AfterPutExact(c))
    /\ UNCHANGED <<admin, shadows>>

PutSemantic(c) ==
    /\ At(c, "put semantic")
    /\ Store(c, SemanticKey(c, call[c].req))
    /\ Goto(c, "done")
    /\ UNCHANGED <<admin, shadows>>

-----------------------------------------------------------------------------
(* Purge and erasure                                                        *)

Fits(k, o) == o.tenant \in {None, k.tenant} /\ o.route \in {None, k.route}

(* The patterns of a purge in the order of the scans: exact entries, tag   *)
(* sets (not when the purge is limited to a route) and semantic entries.   *)
\* Mutant of Patterns: the semantic entries are not scanned.
PatternsExact(o) == IF o.route = None THEN <<"x", "tags">> ELSE <<"x">>

Patterns(o) == IF o.route = None THEN <<"x", "tags", "s">> ELSE <<"x", "s">>

Matching(o, p) ==
    IF p = "tags" THEN {s \in DOMAIN tagset : o.tenant \in {None, s[1]}}
    ELSE {k \in DOMAIN db : k.kind = p /\ Fits(k, o)}

OfTenant(t) == [tenant |-> t, route |-> None, tag |-> None]
Everything == OfTenant(None)

(* A purge or erasure begins when the last one and its messages are done.  *)
Idle == job = NoJob /\ orders = NoOrders /\ jobs < MaxJobs

Scanning(kind, o) ==
    [kind |-> kind, opt |-> o, asked |-> o, n |-> jobs + 1, at |-> 1, due |-> Matching(o, Patterns(o)[1]),
     failed |-> FALSE]

(* The other replicas are told that a purge was asked for, not of what.    *)
PublishPurge(o) == orders' = IF Peers > 0 THEN [left |-> Peers, asked |-> o] ELSE NoOrders

(* POST cache/purge without tags.                                          *)
PurgeByScan(o) ==
    /\ Idle /\ o.tag = None
    /\ jobs' = jobs + 1 /\ job' = Scanning("purge", o)
    /\ UNCHANGED <<call, redis, orders, purged, rows, auth, shadows, faults>>

(* A body that does not decode: nothing is purged here.                    *)
PurgeRefused ==
    /\ Idle /\ jobs' = jobs + 1
    /\ PublishPurge(None)
    /\ UNCHANGED <<call, redis, job, purged, rows, auth, shadows, faults>>

Unlink(keys, sets) == db' = Without(db, keys) /\ tagset' = Without(tagset, sets)

(* What a scan returns is unlinked.  It returns at least what was there    *)
(* when it began, and what was added since or not.                         *)
ScanBatch(x, tags) ==
    /\ job.kind \in {"purge", "peer", "erase redis"}
    /\ LET p == Patterns(job.opt)[job.at]
       IN /\ tags = (p = "tags")
          /\ x \in Matching(job.opt, p)
          /\ IF tags THEN Unlink({}, {x}) ELSE Unlink({x}, {})
    /\ job' = [job EXCEPT !.due = @ \ {x}]
    /\ UNCHANGED <<call, jobs, orders, purged, rows, auth, shadows, faults>>

Scanned == job.due \cap Matching(job.opt, Patterns(job.opt)[job.at]) = {}

NextPattern ==
    /\ job.kind \in {"purge", "peer", "erase redis"} /\ Scanned
    /\ job.at < Len(Patterns(job.opt))
    /\ job' = [job EXCEPT !.at = @ + 1, !.due = Matching(job.opt, Patterns(job.opt)[job.at + 1])]
    /\ UNCHANGED <<call, redis, jobs, orders, purged, rows, auth, shadows, faults>>

(* The purge returns: all scanned, or an error of Redis on the way.        *)
PurgeEnd ==
    /\ job.kind = "purge"
    /\ \/ Fails /\ UNCHANGED purged
       \/ /\ Works /\ Scanned /\ job.at = Len(Patterns(job.opt))
          /\ purged' = purged \cup {[kind |-> "purge", opt |-> job.opt, n |-> job.n]}
    /\ job' = NoJob /\ PublishPurge(job.asked)
    /\ UNCHANGED <<call, redis, jobs, rows, auth, shadows>>

OneOrderLess == orders' = IF orders.left = 1 THEN NoOrders ELSE [orders EXCEPT !.left = @ - 1]

(* A replica hears of the purge and runs the handler without a body; the   *)
(* answer is discarded.                                                    *)
PeerPurge ==
    /\ job = NoJob /\ orders.left > 0 /\ OneOrderLess
    /\ job' = [Scanning("peer", Everything) EXCEPT !.asked = orders.asked]
    /\ UNCHANGED <<call, redis, jobs, purged, rows, auth, shadows, faults>>

(* The message was not published, or does not reach a replica.             *)
PurgeUnheard ==
    /\ orders.left > 0 /\ OneOrderLess
    /\ UNCHANGED <<call, redis, job, jobs, purged, rows, auth, shadows, faults>>

PeerPurgeEnd ==
    /\ job.kind = "peer"
    /\ \/ Fails
       \/ Works /\ Scanned /\ job.at = Len(Patterns(job.opt))
    /\ job' = NoJob
    /\ UNCHANGED <<call, redis, jobs, orders, purged, rows, auth, shadows>>

(* POST cache/purge with a tag: the members of the tag's sets, those of    *)
(* the route if one is given, and the sets themselves.                     *)
PurgeByTags(o) ==
    /\ Idle /\ o.tag # None
    /\ jobs' = jobs + 1
    /\ LET sets == {s \in DOMAIN tagset : s[2] = o.tag /\ o.tenant \in {None, s[1]}}
       IN job' = [kind |-> "tags", opt |-> o, asked |-> o, n |-> jobs + 1, sets |-> sets,
                  keys |-> {k \in UNION {tagset[s].members : s \in sets} : o.route \in {None, k.route}}]
    /\ UNCHANGED <<call, redis, orders, purged, rows, auth, shadows, faults>>

(* One of the batches, in no particular order.                             *)
UnlinkTagged(keys, sets) ==
    /\ job.kind = "tags" /\ keys \cup sets # {}
    /\ keys \subseteq job.keys /\ sets \subseteq job.sets
    /\ Unlink(keys, sets)
    /\ job' = [job EXCEPT !.keys = @ \ keys, !.sets = @ \ sets]
    /\ UNCHANGED <<call, jobs, orders, purged, rows, auth, shadows, faults>>

TagsEnd ==
    /\ job.kind = "tags"
    /\ \/ Fails /\ UNCHANGED purged
       \/ /\ Works /\ job.keys = {} /\ job.sets = {}
          /\ purged' = purged \cup {[kind |-> "tags", opt |-> job.opt, n |-> job.n]}
    /\ job' = NoJob /\ PublishPurge(job.asked)
    /\ UNCHANGED <<call, redis, jobs, rows, auth, shadows>>

(* TenantEraser.Erase: every store is tried, whatever became of the others.*)
(* A failed transaction may have been committed.                           *)
ErasePostgres(t) ==
    /\ Idle /\ jobs' = jobs + 1
    /\ \E ok \in BOOLEAN :
         /\ rows' \in {rows \ {t}} \cup (IF ok THEN {} ELSE {rows})
         /\ IF ok THEN Works ELSE Fails
         /\ job' = [Scanning("erase redis", OfTenant(t))
                      EXCEPT !.failed = ~ok]
    /\ UNCHANGED <<call, redis, orders, purged, auth, shadows>>

EraseRedisEnd ==
    /\ job.kind = "erase redis"
    /\ \/ Fails /\ job' = [job EXCEPT !.kind = "erase rest", !.failed = TRUE]
       \/ /\ Works /\ Scanned /\ job.at = Len(Patterns(job.opt))
          /\ job' = [job EXCEPT !.kind = "erase rest"]
    /\ UNCHANGED <<call, redis, jobs, orders, purged, rows, auth, shadows>>

\* Mutant of Accepted: a failed publication is only logged.
AcceptedUnpublished(analytics, published) == ~job.failed /\ analytics

(* "accepted" in the receipt.                                              *)
Accepted(analytics, published) == ~job.failed /\ analytics /\ published

(* The ClickHouse mutation is submitted, the tenant evicted from this      *)
(* replica's authentication cache, and a message published that evicts it  *)
(* from the others'.  A submission or publication that fails may have been *)
(* done.                                                                   *)
EraseEnd ==
    /\ job.kind = "erase rest"
    /\ \E analytics, published \in BOOLEAN :
         /\ IF analytics /\ published THEN Works ELSE Fails
         /\ shadows' \in {{c \in shadows : call[c].req.tenant # job.opt.tenant}}
                           \cup (IF analytics THEN {} ELSE {shadows})
         /\ notices' \in {notices \cup (1..Peers) \X {job.opt.tenant}}
                           \cup (IF published THEN {} ELSE {notices})
         /\ purged' = IF Accepted(analytics, published)
                      THEN purged \cup {[kind |-> "erase", opt |-> job.opt, n |-> job.n]} ELSE purged
    /\ cached' = cached \ {<<0, job.opt.tenant>>} /\ missed' = missed \ {<<0, job.opt.tenant>>}
    /\ job' = NoJob
    /\ UNCHANGED <<call, redis, jobs, orders, rows, late>>

-----------------------------------------------------------------------------
(* The rest of the system                                                   *)

(* The authentication caches of the replicas (AuthCache has them in full). *)

(* A lookup that read the tenant's row ends and caches its key: the row is *)
(* still there, or is gone since.                                          *)
AuthStored(i, t) ==
    /\ <<i, t>> \notin cached /\ cached' = cached \cup {<<i, t>>}
    /\ \/ t \in rows /\ UNCHANGED <<late, missed>>
       \/ /\ t \notin rows /\ late < MaxLate /\ late' = late + 1
          /\ missed' = missed \cup {<<i, t>>}
    /\ UNCHANGED <<call, redis, job, jobs, orders, purged, rows, notices, shadows, faults>>

(* The message reaches a replica, which evicts the tenant.  One that is    *)
(* lost stays among the notices.                                           *)
EvictTenant(i, t) ==
    /\ <<i, t>> \in notices /\ notices' = notices \ {<<i, t>>}
    /\ cached' = cached \ {<<i, t>>} /\ missed' = missed \ {<<i, t>>}
    /\ UNCHANGED <<call, redis, job, jobs, orders, purged, rows, late, shadows, faults>>

(* An entry of a tenant that is gone expires.  Those of the others are     *)
(* not told apart from a lookup's answer.                                  *)
AuthExpires(i, t) ==
    /\ <<i, t>> \in cached /\ t \notin rows
    /\ cached' = cached \ {<<i, t>>} /\ missed' = missed \ {<<i, t>>}
    /\ UNCHANGED <<call, redis, job, jobs, orders, purged, rows, late, notices, shadows, faults>>

AuthStep(i, t) == AuthStored(i, t) \/ EvictTenant(i, t) \/ AuthExpires(i, t)

(* Redis lets a unit of time pass and drops what has expired.              *)
Aged(f) == [x \in {y \in DOMAIN f : f[y].left # 1} |->
              IF f[x].left = 0 THEN f[x] ELSE [f[x] EXCEPT !.left = @ - 1]]

Tick ==
    /\ db' = Aged(db) /\ tagset' = Aged(tagset)
    /\ UNCHANGED <<call, admin, shadows, faults>>

Next ==
    \/ \E c \in Calls, r \in Requests, f \in Configs : Begin(c, r, f[r.route])
    \/ \E c \in Calls : \/ LookExact(c) \/ LookSemantic(c) \/ Upstream(c)
                        \/ PutExact(c) \/ PutSemantic(c)
    \/ \E o \in PurgeOptions : PurgeByScan(o) \/ PurgeByTags(o)
    \/ \E x \in DOMAIN db : ScanBatch(x, FALSE)
    \/ \E x \in DOMAIN tagset : ScanBatch(x, TRUE)
    \/ \E t \in Tenants : ErasePostgres(t) \/ \E i \in Replicas : AuthStep(i, t)
    \/ PurgeRefused \/ NextPattern \/ PurgeEnd \/ PeerPurge \/ PurgeUnheard \/ PeerPurgeEnd
    \/ TagsEnd \/ EraseRedisEnd \/ EraseEnd
    \/ job.kind = "tags" /\ \E K \in SUBSET job.keys, S \in SUBSET job.sets : UnlinkTagged(K, S)
    \/ Tick

Spec == Init /\ [][Next]_vars

-----------------------------------------------------------------------------
(* Properties                                                               *)

(* The states are well formed; writers hold at most the slots there are.   *)
TypeOK ==
    /\ \A c \in Calls : call[c].pc \in {"new", "exact", "semantic", "upstream", "put exact",
                                        "put semantic", "done"}
    /\ \A k \in DOMAIN db : k.kind \in {"x", "s"} /\ k.tenant \in Tenants
    /\ \A s \in DOMAIN tagset : tagset[s].members # {}
    /\ Cardinality({c \in Calls : call[c].pc \in {"put exact", "put semantic"}}) <= Slots
    /\ rows \subseteq Tenants /\ cached \subseteq Replicas \X Tenants /\ jobs <= MaxJobs

(* An answer that is reused, or offered as a candidate in shadow mode,     *)
(* answers a request of the same tenant and route with the same            *)
(* parameters, system prompt and configuration version.  Where the cache   *)
(* is per user it is the same user's in the same context, also across a    *)
(* reload that switched per_user on.  An exact hit answers the same        *)
(* messages, a semantic one a similar query after the same earlier         *)
(* messages (keys.go Scope, stage.go Before).                              *)
AnswerFits ==
    TypeOK /\ \A c \in Calls : call[c].src # None =>
        LET r == call[c].req
            g == call[c].cfg
            s == call[call[c].src].req
            h == call[call[c].src].cfg
        IN /\ <<s.tenant, s.route, s.params, s.system, h.version>>
                = <<r.tenant, r.route, r.params, r.system, g.version>>
           /\ g.perUser => s.user = r.user /\ s.history = r.history
           /\ call[c].status = "hit-exact" => s.history = r.history /\ s.text = r.text
           /\ call[c].status = "hit-semantic" =>
                /\ s.history = r.history
                /\ Alike(SemanticText(r, g), SemanticText(s, h), Close)

(* After a purge by tenant or route, or an erasure, that reported no error *)
(* every entry it covers was written after it began: what was there is     *)
(* gone, and only the write of an answer that crossed it may be there      *)
(* (purge.go purgeByScan, erasure.go PurgeTenant, stage.go After).         *)
PurgedStaysGone ==
    \A p \in purged : p.kind # "tags" =>
        \A k \in DOMAIN db : Fits(k, p.opt) => db[k].born >= p.n

(* A receipt says "accepted" only of a tenant whose row is gone, with its  *)
(* eviction under way to every replica that has its key cached: whoever    *)
(* still admits the tenant has the message ahead of it or lost it, or      *)
(* cached the answer of a lookup that had read the row and ended after it  *)
(* was deleted.  The replica that ran the erasure waits for no message     *)
(* (erasure.go Erase, admin_cp.go handleTenantErase, middleware.go         *)
(* EvictTenant).                                                           *)
AcceptedIsLockedOut ==
    \A p \in purged : p.kind = "erase" =>
        /\ p.opt.tenant \notin rows
        /\ \A i \in Replicas : <<i, p.opt.tenant>> \in cached =>
              <<i, p.opt.tenant>> \in missed \/ (i # 0 /\ <<i, p.opt.tenant>> \in notices)

(* What the comment of PurgeOptions says of a purge by tag: the tagged     *)
(* entries are removed.                                                    *)
TaggedArePurged ==
    \A p \in purged : p.kind = "tags" =>
        \A k \in DOMAIN db : Fits(k, p.opt) /\ p.opt.tag \in db[k].tags => db[k].born >= p.n

(* What docs/admin-cli.md says of a purge: it removes the entries of the   *)
(* tenant or route it is limited to; other entries only expire.            *)
PurgeKeepsToScope ==
    [][job.kind \in {"purge", "peer"} =>
         \A k \in DOMAIN db \ DOMAIN db' :
            db[k].left = 1 \/ (job.asked # None /\ Fits(k, job.asked))]_vars

(* What docs/configuration.md says of allow_client_key: a semantic hit     *)
(* never crosses documents.                                                *)
DocumentsIsolated ==
    \A c \in Calls : call[c].status = "hit-semantic" =>
        Alike(call[c].req.text, call[call[c].src].req.text, Close)
=============================================================================
