------------------------ MODULE ResponseCacheProofs -------------------------
(***************************************************************************)
(* The response cache for any number of calls, tenants, routes and         *)
(* configurations, any similarity of texts, and any failures of the        *)
(* stores.                                                                 *)
(***************************************************************************)
EXTENDS ResponseCache, FiniteSetTheorems, TLAPS

Sections == {f[r] : f \in Configs, r \in Routes}

Points == {"exact", "semantic", "upstream", "put exact", "put semantic", "done"}

CallRec ==
  [pc : Points, req : Requests, cfg : Sections, plan : [exact : BOOLEAN, semantic : BOOLEAN],
   status : {"miss", "bypass", "hit-exact", "hit-semantic"}, src : Calls \cup {None},
   embedded : BOOLEAN]

Texts == {SemanticText(r, g) : r \in Requests, g \in Sections}
Contexts == {ContextHash(r) : r \in Requests}
Labels == {r.tags : r \in Requests}
Scopes == {Scope(r, g) : r \in Requests, g \in Sections}

EntryRec ==
  [src : Calls, query : Texts, context : Contexts, tags : Labels, scope : Scopes,
   left : Nat, born : Nat]

Keys == {ExactKey(r, g) : r \in Requests, g \in Sections}
          \cup {SemanticKey(c, r) : c \in Calls, r \in Requests}

SetRec == [left : Nat, members : SUBSET Keys]

Begun(c) == call[c] \in CallRec

\* What a call may rely on, by where it is.
CallOK(q) ==
  /\ q.pc = "semantic" \/ q.plan.semantic \/ q.embedded => q.req.history = None
  /\ q.pc = "put semantic" => q.embedded
  /\ q.pc \in {"exact", "semantic"} => q.cfg.mode # "off"
  /\ q.pc # "done" => q.status \in {"miss", "bypass"}

\* The answer to the request s under h fits the call q.
FitsCall(q, s, h) ==
  LET r == q.req
      g == q.cfg
  IN /\ <<s.tenant, s.route, s.params, s.system, h.version>>
          = <<r.tenant, r.route, r.params, r.system, g.version>>
     /\ g.perUser => s.user = r.user /\ s.history = r.history
     /\ q.status = "hit-exact" => s.history = r.history /\ s.text = r.text
     /\ q.status = "hit-semantic" =>
          /\ s.history = r.history
          /\ Alike(SemanticText(r, g), SemanticText(s, h), Close)

\* What the call q was answered with, if from the cache, fits it.
AnswerOK(q) ==
  q.src # None => Begun(q.src) /\ FitsCall(q, call[q.src].req, call[q.src].cfg)

\* The key k and the entry e are of the request s under h.
EntryOf(k, e, s, h) ==
  /\ k.kind \in {"x", "s"} /\ k.tenant = s.tenant
  /\ e.query = SemanticText(s, h) /\ e.scope = Scope(s, h)
  /\ k.kind = "x" => k.hash = ExactHash(s, h)
  /\ k.kind = "s" => s.history = None

\* A stored entry is the answer of the call it names, under a key of that call.
EntryOK(k) ==
  /\ db[k] \in EntryRec /\ db[k].born <= jobs /\ Begun(db[k].src)
  /\ EntryOf(k, db[k], call[db[k].src].req, call[db[k].src].cfg)

\* A scan of Redis, as a record.
ScanShape ==
  job = [kind |-> job.kind, opt |-> job.opt, asked |-> job.asked, n |-> job.n, at |-> job.at,
         due |-> job.due, failed |-> job.failed]

\* The scan has still to come to the key.
Ahead(k) ==
  \E i \in job.at .. Len(Patterns(job.opt)) :
    Patterns(job.opt)[i] = k.kind /\ (i = job.at => k \in job.due)

\* The entry was there when the purge or erasure n began.
Older(k, o, n) == Fits(k, o) /\ db[k].born < n

ScanOK ==
  job.kind \in {"purge", "peer", "erase redis", "erase rest"} =>
    /\ ScanShape /\ job.n \in Nat /\ job.at \in 1 .. Len(Patterns(job.opt))
    /\ job.failed \in BOOLEAN
    /\ job.kind # "peer" => job.n <= jobs
    /\ job.kind \in {"purge", "erase redis"} =>
         \A k \in DOMAIN db : Older(k, job.opt, job.n) => Ahead(k)
    /\ job.kind = "erase rest" /\ ~job.failed =>
         \A k \in DOMAIN db : ~Older(k, job.opt, job.n)
    /\ job.kind \in {"erase redis", "erase rest"} /\ ~job.failed => job.opt.tenant \notin rows

\* A purge by tag, as a record.
TagsOK ==
  job.kind = "tags" =>
    /\ job = [kind |-> job.kind, opt |-> job.opt, asked |-> job.asked, n |-> job.n,
              sets |-> job.sets, keys |-> job.keys]
    /\ job.n \in Nat /\ job.n <= jobs

\* The entries of the authentication caches that no message is to evict and
\* that were cached before their tenant's row was deleted.
Firm == cached \ (missed \cup {x \in notices : x[1] # 0})

\* The tenant is gone, and so is what was cached of it, or soon.
Locked(t) == t \notin rows /\ \A i \in Replicas : <<i, t>> \notin Firm

PurgedOK(p) ==
  /\ p.n \in Nat /\ p.n <= jobs
  /\ p.kind # "tags" => \A k \in DOMAIN db : ~Older(k, p.opt, p.n)
  /\ p.kind = "erase" => Locked(p.opt.tenant)

Types ==
  /\ call \in [Calls -> CallRec \cup {NewCall}]
  /\ jobs \in Nat /\ jobs <= MaxJobs /\ rows \subseteq Tenants
  /\ cached \subseteq Replicas \X Tenants
  /\ \A s \in DOMAIN tagset : tagset[s] \in SetRec /\ tagset[s].members # {}

\* The inductive invariant.
IInv ==
  /\ Types /\ Cardinality(Writing) <= Slots
  /\ \A k \in DOMAIN db : EntryOK(k)
  /\ \A c \in Calls : Begun(c) => CallOK(call[c]) /\ AnswerOK(call[c])
  /\ ScanOK /\ TagsOK
  /\ \A p \in purged : PurgedOK(p)

-----------------------------------------------------------------------------
\* The types of requests and of the sections of routes.
LEMMA Constants ==
  /\ Slots \in Nat /\ Slots > 0 /\ MaxCalls \in Nat /\ MaxJobs \in Nat /\ Peers \in Nat
  /\ \A r \in Requests : r.tenant \in Tenants /\ r.route \in Routes
  /\ \A f \in Configs, r \in Routes : f[r] \in Sections
  /\ \A g \in Sections : /\ g.mode \in {"off", "shadow", "on"} /\ g.ttl \in Nat
                         /\ g.exact \in BOOLEAN /\ g.semantic \in BOOLEAN
<1>1. /\ {Slots, MaxCalls} \subseteq Nat \ {0} /\ {Peers, MaxJobs, MaxFaults, MaxLate} \subseteq Nat
  BY CacheAssumption
<1>2. Slots \in Nat /\ Slots > 0 /\ MaxCalls \in Nat /\ MaxJobs \in Nat /\ Peers \in Nat
  BY <1>1
<1>3. \A g \in Sections : /\ g.mode \in {"off", "shadow", "on"} /\ g.ttl \in Nat
                          /\ g.exact \in BOOLEAN /\ g.semantic \in BOOLEAN
  BY CacheAssumption DEF Sections
<1> QED BY <1>2, <1>3, CacheAssumption DEF Sections

\* Sets of calls are finite, and grow by one call at a time.
LEMMA CallSets ==
  /\ IsFiniteSet(Calls)
  /\ \A S, T : T \subseteq Calls /\ S \subseteq T =>
       Cardinality(S) \in Nat /\ Cardinality(T) \in Nat /\ Cardinality(S) <= Cardinality(T)
  /\ \A S : \A c \in Calls : S \subseteq Calls => Cardinality(S \cup {c}) <= Cardinality(S) + 1
<1>1. IsFiniteSet(Calls)
  BY Constants, FS_Interval DEF Calls
<1>2. ASSUME NEW T, NEW S, T \subseteq Calls, S \subseteq T
      PROVE  Cardinality(S) \in Nat /\ Cardinality(T) \in Nat /\ Cardinality(S) <= Cardinality(T)
  <2>1. IsFiniteSet(T)
    BY <1>1, <1>2, FS_Subset
  <2>2. IsFiniteSet(S) /\ Cardinality(S) <= Cardinality(T)
    BY <1>2, <2>1, FS_Subset
  <2> QED BY <2>1, <2>2, FS_CardinalityType
<1>3. ASSUME NEW S, NEW c \in Calls, S \subseteq Calls
      PROVE  Cardinality(S \cup {c}) <= Cardinality(S) + 1
  <2>1. IsFiniteSet(S)
    BY <1>1, <1>3, FS_Subset
  <2>2. Cardinality(S) \in Nat
    BY <2>1, FS_CardinalityType
  <2> QED BY <2>1, <2>2, FS_AddElement
<1> QED BY <1>1, <1>2, <1>3

LEMMA InitSound == Init => IInv
<1> SUFFICES ASSUME Init PROVE IInv
  OBVIOUS
<1>1. /\ call = [c \in Calls |-> NewCall] /\ DOMAIN db = {} /\ DOMAIN tagset = {}
      /\ job = NoJob /\ jobs = 0 /\ purged = {} /\ rows = Tenants /\ cached = Replicas \X Tenants
  BY DEF Init
<1>2. NewCall.pc = "new" /\ NewCall \notin CallRec
  <2>1. NewCall.pc = "new"
    BY DEF NewCall
  <2>2. \A q \in CallRec : q.pc \in Points
    BY DEF CallRec
  <2>3. "new" \notin Points
    BY DEF Points
  <2> QED BY <2>1, <2>2, <2>3
<1>3. \A c \in Calls : call[c] = NewCall
  BY <1>1
<1>4. Writing = {}
  BY <1>2, <1>3 DEF Writing
<1>5. Cardinality(Writing) <= Slots
  BY <1>4, FS_EmptySet, Constants
<1>6. job.kind = "none"
  BY <1>1 DEF NoJob
<1>7. Types
  BY <1>1, <1>6, Constants DEF Types
<1>8. ScanOK /\ TagsOK
  BY <1>6 DEF ScanOK, TagsOK
<1> QED BY <1>1, <1>2, <1>3, <1>5, <1>7, <1>8 DEF IInv, Begun

-----------------------------------------------------------------------------
\* Calls keep their request and their snapshot.
CallsKept ==
  \A d \in Calls : Begun(d) => /\ call'[d] \in CallRec
                               /\ call'[d].req = call[d].req /\ call'[d].cfg = call[d].cfg

\* The entry is the one that was there.
Carried(k) ==
  /\ k \in DOMAIN db /\ db'[k] \in EntryRec
  /\ db'[k].src = db[k].src /\ db'[k].query = db[k].query /\ db'[k].scope = db[k].scope
  /\ db'[k].born = db[k].born

\* Only a tenant that is there gains access for good.
AccessKept ==
  /\ rows' \subseteq rows /\ cached' \subseteq Replicas \X Tenants
  /\ \A x \in Firm' : x \in Firm \/ x[2] \in rows

\* Redis holds what it held, or less, and what is written now; nobody gains access.
StoresKept ==
  /\ \A k \in DOMAIN db' : Carried(k) \/ (EntryOK(k)' /\ db'[k].born = jobs)
  /\ jobs' \in Nat /\ jobs <= jobs' /\ AccessKept

\* A step of one call.
LEMMA CallPart ==
  ASSUME IInv, NEW c \in Calls, NEW q \in CallRec, Step(c, q), CallOK(q), AnswerOK(q),
         Begun(c) => q.req = call[c].req /\ q.cfg = call[c].cfg
  PROVE  /\ call' \in [Calls -> CallRec \cup {NewCall}] /\ CallsKept
         /\ call'[c] = q /\ \A d \in Calls \ {c} : call'[d] = call[d]
         /\ \A d \in Calls : Begun(d)' => CallOK(call'[d]) /\ AnswerOK(call[d])'
<1>1. call \in [Calls -> CallRec \cup {NewCall}]
  BY DEF IInv, Types
<1>2. /\ call' \in [Calls -> CallRec \cup {NewCall}]
      /\ call'[c] = q /\ \A d \in Calls \ {c} : call'[d] = call[d]
  BY <1>1 DEF Step
<1>3. CallsKept
  BY <1>2 DEF CallsKept, Begun
<1>4. ASSUME NEW a \in CallRec, AnswerOK(a)
      PROVE  a.src # None => /\ call'[a.src] \in CallRec
                             /\ FitsCall(a, call'[a.src].req, call'[a.src].cfg)
  <2>1. a.src # None => a.src \in Calls
    BY DEF CallRec
  <2> QED BY <1>3, <1>4, <2>1 DEF AnswerOK, CallsKept
<1>5. ASSUME NEW d \in Calls, Begun(d)'
      PROVE  CallOK(call'[d]) /\ AnswerOK(call[d])'
  <2>1. CASE d = c
    BY <1>2, <1>4, <2>1 DEF AnswerOK, Begun
  <2>2. CASE d # c
    <3>1. call'[d] = call[d] /\ Begun(d)
      BY <1>2, <1>5, <2>2 DEF Begun
    <3>2. CallOK(call[d]) /\ AnswerOK(call[d]) /\ call[d] \in CallRec
      BY <3>1 DEF IInv, Begun
    <3> QED BY <1>4, <3>1, <3>2 DEF AnswerOK, Begun
  <2> QED BY <2>1, <2>2
<1> QED BY <1>2, <1>3, <1>5

\* Who is locked out stays so.
LEMMA LockedStays ==
  ASSUME NEW t, Locked(t), AccessKept
  PROVE  Locked(t)'
<1>1. t \notin rows /\ t \notin rows' /\ \A i \in Replicas : <<i, t>> \notin Firm
  BY DEF Locked, AccessKept
<1>2. ASSUME NEW i \in Replicas, <<i, t>> \in Firm' PROVE FALSE
  <2>1. <<i, t>>[2] = t
    OBVIOUS
  <2>2. <<i, t>> \in Firm \/ <<i, t>>[2] \in rows
    BY <1>2 DEF AccessKept
  <2> QED BY <1>1, <2>1, <2>2
<1>3. Replicas' = Replicas
  BY DEF Replicas
<1> QED BY <1>1, <1>2, <1>3 DEF Locked

\* Entries and finished purges stay as they are.
LEMMA StorePart ==
  ASSUME IInv, CallsKept, StoresKept
  PROVE  /\ \A k \in DOMAIN db' : EntryOK(k)'
         /\ \A o : \A k \in DOMAIN db', n \in Nat :
              Fits(k, o) /\ db'[k].born < n /\ n <= jobs => k \in DOMAIN db /\ Older(k, o, n)
         /\ \A p \in purged : PurgedOK(p)'
<1>1. jobs \in Nat
  BY DEF IInv, Types
<1>2. ASSUME NEW k \in DOMAIN db' PROVE EntryOK(k)'
  <2>1. CASE Carried(k)
    <3>1. EntryOK(k) /\ k \in DOMAIN db
      BY <2>1 DEF IInv, Carried
    <3>2. /\ db[k].src \in Calls /\ db[k].born \in Nat /\ db[k].born <= jobs
      BY <3>1 DEF EntryOK, EntryRec
    <3>3. /\ call'[db[k].src] \in CallRec /\ call'[db[k].src].req = call[db[k].src].req
          /\ call'[db[k].src].cfg = call[db[k].src].cfg
      BY <3>1, <3>2 DEF EntryOK, CallsKept
    <3>4. db'[k] \in EntryRec /\ db'[k].src = db[k].src /\ db'[k].born <= jobs'
      BY <1>1, <2>1, <3>2 DEF Carried, StoresKept
    <3>5. EntryOf(k, db'[k], call'[db'[k].src].req, call'[db'[k].src].cfg)
      BY <2>1, <3>1, <3>3 DEF Carried, EntryOK, EntryOf
    <3> QED BY <3>3, <3>4, <3>5 DEF EntryOK, Begun
  <2> QED BY <2>1 DEF StoresKept
<1>3. ASSUME NEW k \in DOMAIN db', NEW o, NEW n \in Nat, Fits(k, o), db'[k].born < n, n <= jobs
      PROVE  k \in DOMAIN db /\ Older(k, o, n)
  <2>1. Carried(k)
    BY <1>1, <1>3 DEF StoresKept
  <2> QED BY <1>3, <2>1 DEF Carried, Older
<1>4. ASSUME NEW p \in purged PROVE PurgedOK(p)'
  <2>1. PurgedOK(p)
    BY DEF IInv
  <2>2. p.n \in Nat /\ p.n <= jobs /\ p.n <= jobs'
    BY <1>1, <2>1 DEF PurgedOK, StoresKept
  <2>3. p.kind # "tags" => \A k \in DOMAIN db' : ~Older(k, p.opt, p.n)'
    BY <1>3, <2>1, <2>2 DEF PurgedOK, Older
  <2>4. p.kind = "erase" => Locked(p.opt.tenant)'
    BY <2>1, LockedStays DEF PurgedOK, StoresKept
  <2> QED BY <2>2, <2>3, <2>4 DEF PurgedOK
<1> QED BY <1>2, <1>3, <1>4

\* The scan under way stays as it is.
LEMMA ScanPart ==
  ASSUME IInv, CallsKept, StoresKept, job' = job
  PROVE  ScanOK' /\ TagsOK'
<1>0. TagsOK'
  <2>1. TagsOK /\ jobs \in Nat /\ jobs' \in Nat /\ jobs <= jobs'
    BY DEF StoresKept, IInv, Types
  <2> QED BY <2>1 DEF TagsOK
<1>1. SUFFICES ASSUME job.kind \in {"purge", "peer", "erase redis", "erase rest"} PROVE ScanOK'
  BY <1>0 DEF ScanOK
<1>2. /\ ScanShape /\ job.n \in Nat /\ job.at \in 1 .. Len(Patterns(job.opt))
      /\ job.failed \in BOOLEAN
      /\ job.kind # "peer" => job.n <= jobs
      /\ job.kind \in {"purge", "erase redis"} =>
           \A k \in DOMAIN db : Older(k, job.opt, job.n) => Ahead(k)
      /\ job.kind = "erase rest" /\ ~job.failed =>
           \A k \in DOMAIN db : ~Older(k, job.opt, job.n)
      /\ job.kind \in {"erase redis", "erase rest"} /\ ~job.failed => job.opt.tenant \notin rows
  BY <1>1 DEF IInv, ScanOK
<1>3. ScanShape'
  BY <1>2 DEF ScanShape
<1>4. job.kind # "peer" => job.n <= jobs'
  <2>1. job.n \in Nat /\ (job.kind # "peer" => job.n <= jobs)
    BY <1>2
  <2>2. jobs \in Nat /\ jobs' \in Nat /\ jobs <= jobs'
    BY DEF StoresKept, IInv, Types
  <2> QED BY <2>1, <2>2
<1>5. \A k \in DOMAIN db' :
        Fits(k, job.opt) /\ db'[k].born < job.n /\ job.n <= jobs
          => k \in DOMAIN db /\ Older(k, job.opt, job.n)
  <2>1. job.n \in Nat
    BY <1>2
  <2>2. \A o : \A k \in DOMAIN db', n \in Nat :
          Fits(k, o) /\ db'[k].born < n /\ n <= jobs => k \in DOMAIN db /\ Older(k, o, n)
    BY StorePart
  <2> QED BY <2>1, <2>2
<1>6. job.kind \in {"purge", "erase redis"} =>
        \A k \in DOMAIN db' : Older(k, job.opt, job.n)' => Ahead(k)'
  BY <1>2, <1>5 DEF Older, Ahead
<1>7. job.kind = "erase rest" /\ ~job.failed => \A k \in DOMAIN db' : ~Older(k, job.opt, job.n)'
  BY <1>2, <1>5 DEF Older
<1>8. job.kind \in {"erase redis", "erase rest"} /\ ~job.failed => job.opt.tenant \notin rows'
  BY <1>2 DEF StoresKept, AccessKept
<1> QED BY <1>2, <1>3, <1>4, <1>6, <1>7, <1>8 DEF ScanOK

-----------------------------------------------------------------------------
\* The authentication caches do not change.
LEMMA AuthKept ==
  ASSUME IInv, rows' \subseteq rows, UNCHANGED auth
  PROVE  AccessKept
<1>1. UNCHANGED <<cached, notices, missed>>
  BY DEF auth
<1>2. Firm' = Firm
  BY <1>1 DEF Firm
<1>3. cached' \subseteq Replicas \X Tenants
  BY <1>1 DEF IInv, Types
<1> QED BY <1>2, <1>3 DEF AccessKept

\* A step of neither the administration nor an authentication cache.
LEMMA SameAccess ==
  ASSUME IInv, UNCHANGED <<jobs, rows, auth>>
  PROVE  jobs' \in Nat /\ jobs <= jobs' /\ AccessKept
<1>1. jobs' \in Nat /\ jobs <= jobs'
  BY DEF IInv, Types
<1> QED BY <1>1, AuthKept

SlotFree == Cardinality(Writing) < Slots

\* A call that goes on as q to a write has a slot, or gets one.
HasSlot(c, q) == q.pc \in {"put exact", "put semantic"} => c \in Writing \/ SlotFree

\* The writers that a step of c leaves.
LEMMA Writers ==
  ASSUME IInv, NEW c \in Calls, \A d \in Calls \ {c} : call'[d] = call[d],
         HasSlot(c, call'[c])
  PROVE  Cardinality(Writing') <= Slots
<1>1. Writing \subseteq Calls /\ Cardinality(Writing) \in Nat /\ Cardinality(Writing) <= Slots
  <2>1. Writing \subseteq Calls
    BY DEF Writing
  <2> QED BY <2>1, CallSets DEF IInv
<1>2. Writing' \subseteq Writing \cup {c} /\ Writing' \subseteq Calls
  BY DEF Writing
<1>3. Cardinality(Writing') \in Nat /\ Slots \in Nat
  BY <1>2, CallSets, Constants
<1>4. CASE call'[c].pc \in {"put exact", "put semantic"} /\ c \notin Writing
  <2>1. Writing \cup {c} \subseteq Calls
    BY <1>1
  <2>2. Cardinality(Writing') <= Cardinality(Writing \cup {c}) /\ Cardinality(Writing \cup {c}) \in Nat
    BY <1>2, <2>1, CallSets
  <2>3. Cardinality(Writing \cup {c}) <= Cardinality(Writing) + 1
    BY <1>1, CallSets
  <2>4. Cardinality(Writing) < Slots
    BY <1>4 DEF SlotFree, HasSlot
  <2> QED BY <1>1, <1>3, <2>2, <2>3, <2>4
<1>5. CASE Writing' \subseteq Writing
  <2>1. Cardinality(Writing') <= Cardinality(Writing)
    BY <1>1, <1>5, CallSets
  <2> QED BY <1>1, <1>3, <2>1
<1> QED BY <1>2, <1>4, <1>5 DEF Writing

\* A step of one call that leaves Redis and the administration alone.
LEMMA QuietCall ==
  ASSUME IInv, NEW c \in Calls, NEW q \in CallRec, Step(c, q), CallOK(q), AnswerOK(q),
         Begun(c) => q.req = call[c].req /\ q.cfg = call[c].cfg,
         HasSlot(c, q),
         UNCHANGED <<db, tagset, job, jobs, purged, rows, auth>>
  PROVE  IInv'
<1>1. /\ call' \in [Calls -> CallRec \cup {NewCall}] /\ CallsKept
      /\ call'[c] = q /\ \A d \in Calls \ {c} : call'[d] = call[d]
      /\ \A d \in Calls : Begun(d)' => CallOK(call'[d]) /\ AnswerOK(call[d])'
  BY CallPart
<1>2. Types
  BY DEF IInv
<1>3. StoresKept
  <2>1. \A k \in DOMAIN db' : Carried(k)
    BY DEF IInv, EntryOK, Carried
  <2>2. jobs' \in Nat /\ jobs <= jobs' /\ AccessKept
    BY SameAccess
  <2> QED BY <2>1, <2>2 DEF StoresKept
<1>4. Types'
  BY <1>1, <1>2 DEF Types, auth
<1>5. Cardinality(Writing') <= Slots
  BY <1>1, Writers
<1>6. (\A k \in DOMAIN db' : EntryOK(k)') /\ (\A p \in purged : PurgedOK(p)')
  BY <1>1, <1>3, StorePart
<1>7. ScanOK' /\ TagsOK'
  BY <1>1, <1>3, ScanPart
<1> QED BY <1>1, <1>4, <1>5, <1>6, <1>7 DEF IInv

\* Calls that have begun, and those that have not.
LEMMA CallFacts ==
  ASSUME IInv, NEW c \in Calls
  PROVE  /\ call[c].pc = "new" => ~Begun(c)
         /\ call[c].pc # "new" =>
              /\ Begun(c) /\ call[c] \in CallRec /\ CallOK(call[c]) /\ AnswerOK(call[c])
              /\ call[c].req \in Requests /\ call[c].cfg \in Sections
              /\ call[c].plan \in [exact : BOOLEAN, semantic : BOOLEAN] /\ call[c].embedded \in BOOLEAN
<1>1. \A q \in CallRec : q.pc # "new"
  BY DEF CallRec, Points
<1>2. NewCall.pc = "new"
  BY DEF NewCall
<1>3. call[c] \in CallRec \cup {NewCall}
  BY DEF IInv, Types
<1>4. call[c].pc # "new" => call[c] \in CallRec
  BY <1>2, <1>3
<1>5. call[c] \in CallRec =>
        /\ call[c].req \in Requests /\ call[c].cfg \in Sections
        /\ call[c].plan \in [exact : BOOLEAN, semantic : BOOLEAN] /\ call[c].embedded \in BOOLEAN
  BY DEF CallRec
<1> QED BY <1>1, <1>4, <1>5 DEF IInv, Begun

\* Requests of one scope agree on what an answer may depend on.
LEMMA ScopeFits ==
  ASSUME NEW r, NEW g, NEW s, NEW h, Scope(r, g) = Scope(s, h)
  PROVE  /\ <<s.tenant, s.route, s.params, s.system, h.version>>
              = <<r.tenant, r.route, r.params, r.system, g.version>>
         /\ g.perUser => s.user = r.user /\ s.history = r.history
<1>1. /\ g.version = h.version /\ r.route = s.route /\ r.tenant = s.tenant
      /\ r.params = s.params /\ r.system = s.system
      /\ (IF g.perUser THEN r.user ELSE "") = (IF h.perUser THEN s.user ELSE "")
      /\ (IF g.perUser THEN ContextHash(r) ELSE <<>>) = (IF h.perUser THEN ContextHash(s) ELSE <<>>)
  BY DEF Scope
<1>2. ContextHash(r) # <<>> /\ ContextHash(s) # <<>>
  BY DEF ContextHash
<1>3. ASSUME g.perUser PROVE s.user = r.user /\ ContextHash(r) = ContextHash(s)
  BY <1>1, <1>2, <1>3
<1>4. ContextHash(r) = ContextHash(s) => r.history = s.history
  BY DEF ContextHash
<1> QED BY <1>1, <1>3, <1>4

LEMMA BeginSound ==
  ASSUME IInv, NEW c \in Calls, NEW r \in Requests, NEW f \in Configs, Begin(c, r, f[r.route])
  PROVE  IInv'
<1> DEFINE g == f[r.route]
           plan == Eligibility(r, g)
           q == [pc |-> IF plan.exact THEN "exact"
                        ELSE IF plan.semantic THEN "semantic" ELSE "upstream",
                 req |-> r, cfg |-> g, plan |-> plan,
                 status |-> IF Bypassed(r, g) THEN "bypass" ELSE "miss",
                 src |-> None, embedded |-> FALSE]
<1>1. Step(c, q) /\ call[c].pc = "new" /\ UNCHANGED <<db, tagset, job, jobs, purged, rows, auth>>
  BY DEF Begin, At, admin
<1>2. g \in Sections
  BY Constants
<1>3. g.exact \in BOOLEAN /\ g.semantic \in BOOLEAN
  BY <1>2, Constants
<1> HIDE DEF g
<1>4. /\ plan \in [exact : BOOLEAN, semantic : BOOLEAN]
      /\ plan.exact \/ plan.semantic => g.mode # "off"
      /\ plan.semantic => r.history = None
  BY <1>3 DEF Eligibility, NoPlan
<1> HIDE DEF plan
<1>5. q \in CallRec
  BY <1>2, <1>4 DEF CallRec, Points
<1>6. /\ q.req = r /\ q.cfg = g /\ q.plan = plan /\ q.embedded = FALSE /\ q.src = None
      /\ q.pc \in {"exact", "semantic", "upstream"} /\ q.status \in {"miss", "bypass"}
      /\ q.pc = "semantic" => plan.semantic
      /\ q.pc = "exact" => plan.exact
  BY DEF CallRec
<1> HIDE DEF q
<1>7. CallOK(q) /\ AnswerOK(q)
  BY <1>4, <1>6 DEF CallOK, AnswerOK
<1>8. ~Begun(c) /\ HasSlot(c, q)
  BY <1>1, <1>6, CallFacts DEF HasSlot
<1> QED BY <1>1, <1>5, <1>7, <1>8, QuietCall

\* The record with which a call goes on.
LEMMA GotoRec ==
  ASSUME IInv, NEW c \in Calls, Begun(c), call[c].pc # "done", NEW p \in Points,
         p = "semantic" => call[c].req.history = None /\ call[c].cfg.mode # "off",
         p = "exact" => call[c].cfg.mode # "off",
         p = "put semantic" => call[c].embedded,
         Goto(c, p)
  PROVE  \E q \in CallRec : /\ Step(c, q) /\ q.pc = p /\ CallOK(q) /\ AnswerOK(q)
                            /\ q.req = call[c].req /\ q.cfg = call[c].cfg
<1> DEFINE q == IF p = "done" THEN [call[c] EXCEPT !.pc = p, !.plan = NoPlan, !.embedded = FALSE]
                ELSE [call[c] EXCEPT !.pc = p]
<1>1. call[c] \in CallRec /\ CallOK(call[c]) /\ AnswerOK(call[c])
  BY CallFacts DEF Begun
<1>2. NoPlan \in [exact : BOOLEAN, semantic : BOOLEAN] /\ NoPlan.semantic = FALSE
  BY DEF NoPlan
<1>3. /\ q \in CallRec /\ q.pc = p /\ q.req = call[c].req /\ q.cfg = call[c].cfg
      /\ q.status = call[c].status /\ q.src = call[c].src
      /\ \/ q.plan = call[c].plan /\ q.embedded = call[c].embedded
         \/ q.plan = NoPlan /\ q.embedded = FALSE /\ p = "done"
  BY <1>1, <1>2 DEF CallRec
<1>4. Step(c, q)
  BY DEF Goto
<1> HIDE DEF q
<1>5. CallOK(q)
  BY <1>1, <1>2, <1>3 DEF CallOK
<1>6. AnswerOK(q)
  BY <1>1, <1>3 DEF AnswerOK, FitsCall
<1> QED BY <1>3, <1>4, <1>5, <1>6

\* What is known of a stored entry and of the call that wrote it.
LEMMA EntryFacts ==
  ASSUME IInv, NEW k \in DOMAIN db
  PROVE  /\ db[k] \in EntryRec /\ db[k].src \in Calls /\ Begun(db[k].src)
         /\ EntryOf(k, db[k], call[db[k].src].req, call[db[k].src].cfg)
<1>1. EntryOK(k)
  BY DEF IInv
<1>2. db[k] \in EntryRec => db[k].src \in Calls
  BY DEF EntryRec
<1> QED BY <1>1, <1>2 DEF EntryOK

\* An entry under the exact key of a request answers the same messages.
LEMMA ExactFits ==
  ASSUME NEW r, NEW g, NEW s, NEW h, ExactHash(r, g) = ExactHash(s, h)
  PROVE  Scope(r, g) = Scope(s, h) /\ s.history = r.history /\ s.text = r.text
BY DEF ExactHash

\* The record of a call that was answered, or given a candidate, from the entry k.
LEMMA Answered ==
  ASSUME IInv, NEW k \in DOMAIN db, NEW q \in CallRec, q.src = db[k].src,
         \/ k = ExactKey(q.req, q.cfg) /\ q.status # "hit-semantic"
         \/ /\ k.kind = "s" /\ db[k].scope = Scope(q.req, q.cfg) /\ q.req.history = None
            /\ q.status # "hit-exact"
            /\ q.status = "hit-semantic" => Alike(SemanticText(q.req, q.cfg), db[k].query, Close)
  PROVE  AnswerOK(q)
<1> DEFINE s == call[db[k].src].req
           h == call[db[k].src].cfg
<1>1. Begun(db[k].src) /\ EntryOf(k, db[k], s, h)
  BY EntryFacts
<1> SUFFICES FitsCall(q, s, h)
  BY <1>1 DEF AnswerOK
<1> HIDE DEF s, h
<1>2. CASE k = ExactKey(q.req, q.cfg) /\ q.status # "hit-semantic"
  <2>1. k.kind = "x" /\ k.hash = ExactHash(q.req, q.cfg)
    BY <1>2 DEF ExactKey
  <2>2. ExactHash(q.req, q.cfg) = ExactHash(s, h)
    BY <1>1, <2>1 DEF EntryOf
  <2>3. Scope(q.req, q.cfg) = Scope(s, h) /\ s.history = q.req.history /\ s.text = q.req.text
    BY <2>2, ExactFits
  <2> QED BY <1>2, <2>3, ScopeFits DEF FitsCall
<1>3. CASE /\ k.kind = "s" /\ db[k].scope = Scope(q.req, q.cfg) /\ q.req.history = None
           /\ q.status # "hit-exact"
           /\ q.status = "hit-semantic" => Alike(SemanticText(q.req, q.cfg), db[k].query, Close)
  <2>1. /\ Scope(q.req, q.cfg) = Scope(s, h) /\ s.history = q.req.history
        /\ db[k].query = SemanticText(s, h)
    BY <1>1, <1>3 DEF EntryOf
  <2> QED BY <1>3, <2>1, ScopeFits DEF FitsCall
<1> QED BY <1>2, <1>3

\* A call that goes on without an answer from the cache.
LEMMA GotoSound ==
  ASSUME IInv, NEW c \in Calls, Begun(c), call[c].pc # "done", NEW p \in Points,
         p = "semantic" => call[c].req.history = None /\ call[c].cfg.mode # "off",
         p = "exact" => call[c].cfg.mode # "off",
         p = "put semantic" => call[c].embedded,
         p \in {"put exact", "put semantic"} => SlotFree,
         Goto(c, p), UNCHANGED <<db, tagset, job, jobs, purged, rows, auth>>
  PROVE  IInv'
<1>1. PICK q \in CallRec : /\ Step(c, q) /\ q.pc = p /\ CallOK(q) /\ AnswerOK(q)
                           /\ q.req = call[c].req /\ q.cfg = call[c].cfg
  BY GotoRec
<1>2. HasSlot(c, q)
  BY <1>1 DEF HasSlot
<1> QED BY <1>1, <1>2, QuietCall

\* A call that takes the answer of the entry k, or notes it as a candidate.
LEMMA TakeSound ==
  ASSUME IInv, NEW c \in Calls, Begun(c), NEW k \in DOMAIN db, NEW q \in CallRec, Step(c, q),
         q.req = call[c].req, q.cfg = call[c].cfg, q.src = db[k].src, CallOK(q), AnswerOK(q),
         q.pc \in {"semantic", "upstream", "done"},
         UNCHANGED <<db, tagset, job, jobs, purged, rows, auth>>
  PROVE  IInv'
<1>1. HasSlot(c, q)
  BY DEF HasSlot
<1> QED BY <1>1, QuietCall

LEMMA LookExactSound ==
  ASSUME IInv, NEW c \in Calls, LookExact(c)
  PROVE  IInv'
<1> DEFINE k == ExactKey(call[c].req, call[c].cfg)
<1>1. call[c].pc = "exact" /\ UNCHANGED <<db, tagset, job, jobs, purged, rows, auth>>
  BY DEF LookExact, At, redis, admin
<1>2. /\ Begun(c) /\ call[c] \in CallRec /\ CallOK(call[c])
      /\ call[c].plan \in [exact : BOOLEAN, semantic : BOOLEAN] /\ call[c].embedded \in BOOLEAN
  BY <1>1, CallFacts
<1>3. call[c].cfg.mode # "off" /\ (call[c].plan.semantic => call[c].req.history = None)
  BY <1>1, <1>2 DEF CallOK
<1>4. /\ AfterExact(c) \in {"semantic", "upstream"} /\ AfterExact(c) \in Points
      /\ AfterExact(c) = "semantic" => call[c].req.history = None
  BY <1>3 DEF AfterExact, Points
<1>5. CASE Goto(c, AfterExact(c))
  BY <1>1, <1>2, <1>3, <1>4, <1>5, GotoSound
<1>6. CASE k \in DOMAIN db /\ Step(c, [call[c] EXCEPT !.pc = AfterExact(c), !.src = db[k].src])
  <2> DEFINE q == [call[c] EXCEPT !.pc = AfterExact(c), !.src = db[k].src]
  <2>1. db[k].src \in Calls
    BY <1>6, EntryFacts
  <2>2. /\ q \in CallRec /\ q.req = call[c].req /\ q.cfg = call[c].cfg /\ q.src = db[k].src
        /\ q.pc = AfterExact(c) /\ q.status = call[c].status /\ q.plan = call[c].plan
        /\ q.embedded = call[c].embedded /\ Step(c, q)
    BY <1>2, <1>4, <1>6, <2>1 DEF CallRec
  <2> HIDE DEF q
  <2>3. CallOK(q) /\ q.status # "hit-semantic"
    BY <1>1, <1>2, <1>3, <1>4, <2>2 DEF CallOK
  <2>4. AnswerOK(q)
    BY <1>6, <2>2, <2>3, Answered
  <2> QED BY <1>1, <1>2, <1>4, <1>6, <2>2, <2>3, <2>4, TakeSound
<1>7. CASE k \in DOMAIN db /\ Hit(c, k, "hit-exact")
  <2> DEFINE q == [call[c] EXCEPT !.pc = "done", !.plan = NoPlan, !.embedded = FALSE,
                                  !.src = db[k].src, !.status = "hit-exact"]
  <2>1. db[k].src \in Calls /\ Step(c, q)
    BY <1>7, EntryFacts DEF Hit
  <2>2. /\ q \in CallRec /\ q.req = call[c].req /\ q.cfg = call[c].cfg /\ q.src = db[k].src
        /\ q.pc = "done" /\ q.status = "hit-exact" /\ q.plan.semantic = FALSE
        /\ q.embedded = FALSE
    BY <1>2, <2>1 DEF CallRec, NoPlan, Points
  <2> HIDE DEF q
  <2>3. CallOK(q)
    BY <2>2 DEF CallOK
  <2>4. AnswerOK(q)
    BY <1>7, <2>2, Answered
  <2> QED BY <1>1, <1>2, <1>7, <2>1, <2>2, <2>3, <2>4, TakeSound
<1> QED BY <1>5, <1>6, <1>7 DEF LookExact

LEMMA LookSemanticSound ==
  ASSUME IInv, NEW c \in Calls, LookSemantic(c)
  PROVE  IInv'
<1>1. call[c].pc = "semantic" /\ UNCHANGED <<db, tagset, job, jobs, purged, rows, auth>>
  BY DEF LookSemantic, At, redis, admin
<1>2. /\ Begun(c) /\ call[c] \in CallRec /\ CallOK(call[c]) /\ AnswerOK(call[c])
      /\ call[c].plan \in [exact : BOOLEAN, semantic : BOOLEAN] /\ call[c].embedded \in BOOLEAN
      /\ call[c].cfg \in Sections
  BY <1>1, CallFacts
<1>3. call[c].req.history = None /\ call[c].status \in {"miss", "bypass"}
  BY <1>1, <1>2 DEF CallOK
<1>4. call[c].cfg.mode \in {"shadow", "on"}
  BY <1>1, <1>2, Constants DEF CallOK
<1>5. ASSUME NEW e \in BOOLEAN, Step(c, [call[c] EXCEPT !.pc = "upstream", !.embedded = e])
      PROVE  IInv'
  <2> DEFINE q == [call[c] EXCEPT !.pc = "upstream", !.embedded = e]
  <2>1. /\ q \in CallRec /\ q.req = call[c].req /\ q.cfg = call[c].cfg /\ q.src = call[c].src
        /\ q.pc = "upstream" /\ q.status = call[c].status /\ Step(c, q)
    BY <1>2, <1>5 DEF CallRec, Points
  <2> HIDE DEF q
  <2>2. CallOK(q)
    BY <1>3, <2>1 DEF CallOK
  <2>3. AnswerOK(q)
    BY <1>2, <2>1 DEF AnswerOK, FitsCall
  <2>4. HasSlot(c, q)
    BY <2>1 DEF HasSlot
  <2> QED BY <1>1, <2>1, <2>2, <2>3, <2>4, QuietCall
<1>6. ASSUME NEW k \in Candidates(call[c].req, call[c].cfg),
             Step(c, [call[c] EXCEPT !.pc = "upstream", !.embedded = TRUE, !.src = db[k].src])
      PROVE  IInv'
  <2> DEFINE q == [call[c] EXCEPT !.pc = "upstream", !.embedded = TRUE, !.src = db[k].src]
  <2>1. k \in DOMAIN db /\ k.kind = "s" /\ db[k].scope = Scope(call[c].req, call[c].cfg)
    BY <1>6 DEF Candidates
  <2>2. db[k].src \in Calls
    BY <2>1, EntryFacts
  <2>3. /\ q \in CallRec /\ q.req = call[c].req /\ q.cfg = call[c].cfg /\ q.src = db[k].src
        /\ q.pc = "upstream" /\ q.status = call[c].status /\ Step(c, q)
    BY <1>2, <1>6, <2>2 DEF CallRec, Points
  <2> HIDE DEF q
  <2>4. CallOK(q)
    BY <1>3, <2>3 DEF CallOK
  <2>5. AnswerOK(q)
    BY <1>3, <2>1, <2>3, Answered
  <2> QED BY <1>1, <1>2, <2>1, <2>3, <2>4, <2>5, TakeSound
<1>7. ASSUME NEW k \in Candidates(call[c].req, call[c].cfg), Serves(c, k) = "hit",
             Hit(c, k, "hit-semantic")
      PROVE  IInv'
  <2> DEFINE q == [call[c] EXCEPT !.pc = "done", !.plan = NoPlan, !.embedded = FALSE,
                                  !.src = db[k].src, !.status = "hit-semantic"]
  <2>1. k \in DOMAIN db /\ k.kind = "s" /\ db[k].scope = Scope(call[c].req, call[c].cfg)
    BY <1>7 DEF Candidates
  <2>2. db[k].src \in Calls /\ Step(c, q)
    BY <1>7, <2>1, EntryFacts DEF Hit
  <2>3. /\ q \in CallRec /\ q.req = call[c].req /\ q.cfg = call[c].cfg /\ q.src = db[k].src
        /\ q.pc = "done" /\ q.status = "hit-semantic" /\ q.plan.semantic = FALSE
        /\ q.embedded = FALSE
    BY <1>2, <2>2 DEF CallRec, NoPlan, Points
  <2> HIDE DEF q
  <2>4. Alike(SemanticText(call[c].req, call[c].cfg), db[k].query, Close)
    BY <1>4, <1>7 DEF Serves
  <2>5. CallOK(q)
    BY <2>3 DEF CallOK
  <2>6. AnswerOK(q)
    BY <1>3, <2>1, <2>3, <2>4, Answered
  <2> QED BY <1>1, <1>2, <2>1, <2>2, <2>3, <2>5, <2>6, TakeSound
<1> QED BY <1>5, <1>6, <1>7 DEF LookSemantic

LEMMA UpstreamSound ==
  ASSUME IInv, NEW c \in Calls, Upstream(c)
  PROVE  IInv'
<1>1. call[c].pc = "upstream" /\ UNCHANGED <<db, tagset, job, jobs, purged, rows, auth>>
  BY DEF Upstream, At, redis, admin
<1>2. Begun(c) /\ call[c].pc # "done"
  BY <1>1, CallFacts
<1>3. CASE Goto(c, "done")
  <2>1. "done" \in Points
    BY DEF Points
  <2> QED BY <1>1, <1>2, <1>3, <2>1, GotoSound
<1>4. CASE SlotFree /\ Goto(c, FirstPut(c))
  <2>1. FirstPut(c) \in {"put exact", "put semantic", "done"}
    BY DEF FirstPut, AfterPutExact
  <2>2. FirstPut(c) = "put semantic" => call[c].embedded
    BY DEF FirstPut, AfterPutExact
  <2>3. FirstPut(c) \in Points
    BY <2>1 DEF Points
  <2> QED BY <1>1, <1>2, <1>4, <2>1, <2>2, <2>3, GotoSound
<1>5. Goto(c, "done") \/ (SlotFree /\ Goto(c, FirstPut(c)))
  BY DEF Upstream, SlotFree
<1> QED BY <1>3, <1>4, <1>5

-----------------------------------------------------------------------------
\* What a writer stores.
LEMMA EntryWritten ==
  ASSUME IInv, NEW c \in Calls, Begun(c)
  PROVE  /\ Entry(c, call[c].cfg) \in EntryRec
         /\ Entry(c, call[c].cfg).src = c /\ Entry(c, call[c].cfg).born = jobs
         /\ Entry(c, call[c].cfg).query = SemanticText(call[c].req, call[c].cfg)
         /\ Entry(c, call[c].cfg).scope = Scope(call[c].req, call[c].cfg)
<1>1. call[c].req \in Requests /\ call[c].cfg \in Sections /\ jobs \in Nat
  BY DEF IInv, Types, Begun, CallRec
<1>2. call[c].cfg.ttl \in Nat
  BY <1>1, Constants
<1>3. /\ SemanticText(call[c].req, call[c].cfg) \in Texts /\ ContextHash(call[c].req) \in Contexts
      /\ call[c].req.tags \in Labels /\ Scope(call[c].req, call[c].cfg) \in Scopes
  BY <1>1 DEF Texts, Contexts, Labels, Scopes
<1> QED BY <1>1, <1>2, <1>3 DEF Entry, EntryRec

\* The tag sets after a write.
LEMMA TagsWritten ==
  ASSUME IInv, NEW k \in Keys, NEW e, NEW ttl \in Nat, Put(k, e, ttl)
  PROVE  \A s \in DOMAIN tagset' : tagset'[s] \in SetRec /\ tagset'[s].members # {}
<1> DEFINE sets == {<<k.tenant, t>> : t \in e.tags}
           New(s) == [left |-> ttl, members |-> {k} \cup (IF s \in DOMAIN tagset
                                                         THEN tagset[s].members ELSE {})]
<1>1. tagset' = [s \in DOMAIN tagset \cup sets |-> IF s \notin sets THEN tagset[s] ELSE New(s)]
  BY DEF Put
<1>2. \A s \in DOMAIN tagset : tagset[s] \in SetRec /\ tagset[s].members # {}
  BY DEF IInv, Types
<1>3. \A s : New(s) \in SetRec /\ New(s).members # {}
  BY <1>2 DEF SetRec
<1> HIDE DEF sets, New
<1> QED BY <1>1, <1>2, <1>3

\* A write of the entry of a call under one of its keys.
LEMMA PutSound ==
  ASSUME IInv, NEW c \in Calls, Begun(c), c \in Writing, NEW k \in Keys,
         Put(k, Entry(c, call[c].cfg), call[c].cfg.ttl),
         EntryOf(k, Entry(c, call[c].cfg), call[c].req, call[c].cfg),
         NEW p \in {"put semantic", "done"}, p = "put semantic" => call[c].embedded, Goto(c, p),
         UNCHANGED <<job, jobs, purged, rows, auth>>
  PROVE  IInv'
<1> DEFINE e == Entry(c, call[c].cfg)
<1>1. p \in Points /\ call[c].pc # "done"
  BY DEF Points, Writing
<1>2. PICK q \in CallRec : /\ Step(c, q) /\ q.pc = p /\ CallOK(q) /\ AnswerOK(q)
                           /\ q.req = call[c].req /\ q.cfg = call[c].cfg
  BY <1>1, GotoRec
<1>3. /\ call' \in [Calls -> CallRec \cup {NewCall}] /\ CallsKept
      /\ call'[c] = q /\ \A d \in Calls \ {c} : call'[d] = call[d]
      /\ \A d \in Calls : Begun(d)' => CallOK(call'[d]) /\ AnswerOK(call[d])'
  BY <1>2, CallPart
<1>4. /\ e \in EntryRec /\ e.src = c /\ e.born = jobs
  BY EntryWritten
<1>5. DOMAIN db' = DOMAIN db \cup {k} /\ db'[k] = e /\ \A j \in DOMAIN db \ {k} : db'[j] = db[j]
  BY DEF Put, Extend
<1>6. EntryOf(k, e, call[c].req, call[c].cfg)
  OBVIOUS
<1> HIDE DEF e
<1>7. Types /\ jobs \in Nat /\ jobs' = jobs /\ rows' = rows /\ cached' = cached
  BY DEF IInv, Types, auth
<1>8. EntryOK(k)' /\ db'[k].born = jobs
  <2>1. db'[k] \in EntryRec /\ db'[k].src = c /\ db'[k].born = jobs /\ db'[k].born <= jobs'
    BY <1>4, <1>5, <1>7, SameAccess
  <2>2. call'[c] \in CallRec /\ EntryOf(k, db'[k], call'[c].req, call'[c].cfg)
    BY <1>2, <1>3, <1>5, <1>6
  <2> QED BY <2>1, <2>2 DEF EntryOK, Begun
<1>9. StoresKept
  <2>1. ASSUME NEW j \in DOMAIN db', j # k PROVE Carried(j)
    <3>1. j \in DOMAIN db /\ db'[j] = db[j]
      BY <1>5, <2>1
    <3> QED BY <3>1, EntryFacts DEF Carried
  <2>2. jobs' \in Nat /\ jobs <= jobs' /\ AccessKept
    BY <1>7, SameAccess
  <2> QED BY <1>8, <2>1, <2>2 DEF StoresKept
<1>10. Types'
  <2>1. call[c].cfg.ttl \in Nat
    BY Constants DEF Begun, CallRec
  <2>2. \A s \in DOMAIN tagset' : tagset'[s] \in SetRec /\ tagset'[s].members # {}
    BY <2>1, TagsWritten
  <2> QED BY <1>3, <1>7, <2>2 DEF Types
<1>11. Cardinality(Writing') <= Slots
  <2>1. HasSlot(c, call'[c])
    BY DEF HasSlot
  <2> QED BY <1>3, <2>1, Writers
<1>12. (\A j \in DOMAIN db' : EntryOK(j)') /\ (\A x \in purged : PurgedOK(x)')
  BY <1>3, <1>9, StorePart
<1>13. ScanOK' /\ TagsOK'
  BY <1>3, <1>9, ScanPart
<1> QED BY <1>3, <1>10, <1>11, <1>12, <1>13 DEF IInv

\* A write that failed.
LEMMA PutFailed ==
  ASSUME IInv, NEW c \in Calls, Begun(c), c \in Writing,
         NEW p \in {"put semantic", "done"}, p = "put semantic" => call[c].embedded, Goto(c, p),
         UNCHANGED <<db, tagset, job, jobs, purged, rows, auth>>
  PROVE  IInv'
<1>1. p \in Points /\ call[c].pc # "done"
  BY DEF Points, Writing
<1>2. PICK q \in CallRec : /\ Step(c, q) /\ q.pc = p /\ CallOK(q) /\ AnswerOK(q)
                           /\ q.req = call[c].req /\ q.cfg = call[c].cfg
  BY <1>1, GotoRec
<1>3. HasSlot(c, q)
  BY DEF HasSlot
<1> QED BY <1>2, <1>3, QuietCall

LEMMA PutExactSound ==
  ASSUME IInv, NEW c \in Calls, PutExact(c)
  PROVE  IInv'
<1> DEFINE k == ExactKey(call[c].req, call[c].cfg)
<1>1. /\ call[c].pc = "put exact" /\ UNCHANGED <<job, jobs, purged, rows, auth>>
      /\ Goto(c, AfterPutExact(c))
  BY DEF PutExact, At, admin
<1>2. /\ Begun(c) /\ call[c].req \in Requests /\ call[c].cfg \in Sections /\ c \in Writing
  BY <1>1, CallFacts DEF Writing
<1>3. /\ AfterPutExact(c) \in {"put semantic", "done"}
      /\ AfterPutExact(c) = "put semantic" => call[c].embedded
  BY DEF AfterPutExact
<1>4. CASE UNCHANGED <<db, tagset>>
  BY <1>1, <1>2, <1>3, <1>4, PutFailed
<1>5. CASE Put(k, Entry(c, call[c].cfg), call[c].cfg.ttl)
  <2>1. k \in Keys
    BY <1>2 DEF Keys
  <2>2. k.kind = "x" /\ k.tenant = call[c].req.tenant /\ k.hash = ExactHash(call[c].req, call[c].cfg)
    BY DEF ExactKey
  <2>3. EntryOf(k, Entry(c, call[c].cfg), call[c].req, call[c].cfg)
    BY <1>2, <2>2, EntryWritten DEF EntryOf
  <2> QED BY <1>1, <1>2, <1>3, <1>5, <2>1, <2>3, PutSound
<1> QED BY <1>4, <1>5 DEF PutExact, Store, redis

LEMMA PutSemanticSound ==
  ASSUME IInv, NEW c \in Calls, PutSemantic(c)
  PROVE  IInv'
<1> DEFINE k == SemanticKey(c, call[c].req)
<1>1. /\ call[c].pc = "put semantic" /\ UNCHANGED <<job, jobs, purged, rows, auth>>
      /\ Goto(c, "done")
  BY DEF PutSemantic, At, admin
<1>2. /\ Begun(c) /\ call[c].req \in Requests /\ call[c].cfg \in Sections /\ c \in Writing
      /\ CallOK(call[c])
  BY <1>1, CallFacts DEF Writing
<1>3. CASE UNCHANGED <<db, tagset>>
  BY <1>1, <1>2, <1>3, PutFailed
<1>4. CASE Put(k, Entry(c, call[c].cfg), call[c].cfg.ttl)
  <2>1. k \in Keys
    BY <1>2 DEF Keys
  <2>2. k.kind = "s" /\ k.tenant = call[c].req.tenant /\ call[c].req.history = None
    BY <1>1, <1>2 DEF SemanticKey, CallOK
  <2>3. EntryOf(k, Entry(c, call[c].cfg), call[c].req, call[c].cfg)
    BY <1>2, <2>2, EntryWritten DEF EntryOf
  <2> QED BY <1>1, <1>2, <1>4, <2>1, <2>3, PutSound
<1> QED BY <1>3, <1>4 DEF PutSemantic, Store, redis

-----------------------------------------------------------------------------
\* A step of the administration or of the clock: no call moves.
LEMMA AdminSound ==
  ASSUME IInv, call' = call, StoresKept, jobs' <= MaxJobs,
         \A s \in DOMAIN tagset' : tagset'[s] \in SetRec /\ tagset'[s].members # {},
         ScanOK', TagsOK', \A p \in purged' : p \in purged \/ PurgedOK(p)'
  PROVE  IInv'
<1>1. CallsKept
  BY DEF CallsKept, Begun
<1>2. (\A k \in DOMAIN db' : EntryOK(k)') /\ (\A p \in purged : PurgedOK(p)')
  BY <1>1, StorePart
<1>3. Types'
  BY DEF IInv, Types, StoresKept, AccessKept
<1>4. Cardinality(Writing') <= Slots
  BY DEF IInv, Writing
<1>5. \A c \in Calls : Begun(c)' => CallOK(call'[c]) /\ AnswerOK(call[c])'
  BY DEF IInv, Begun, AnswerOK
<1> QED BY <1>2, <1>3, <1>4, <1>5 DEF IInv

\* Redis loses entries and tag sets, and those that remain do not change.
Shrinks ==
  /\ \A k \in DOMAIN db' : k \in DOMAIN db /\ db'[k] = db[k]
  /\ \A s \in DOMAIN tagset' : s \in DOMAIN tagset /\ tagset'[s] = tagset[s]

LEMMA ShrinkPart ==
  ASSUME IInv, Shrinks, jobs' \in Nat, jobs <= jobs', AccessKept
  PROVE  /\ StoresKept
         /\ \A s \in DOMAIN tagset' : tagset'[s] \in SetRec /\ tagset'[s].members # {}
<1>1. \A k \in DOMAIN db' : Carried(k)
  BY EntryFacts DEF Shrinks, Carried
<1>2. \A s \in DOMAIN tagset' : tagset'[s] \in SetRec /\ tagset'[s].members # {}
  BY DEF Shrinks, IInv, Types
<1> QED BY <1>1, <1>2 DEF StoresKept

\* A step of a purge or an erasure that takes from Redis, or leaves it as it is.
LEMMA ShrinkSound ==
  ASSUME IInv, call' = call, Shrinks, jobs' \in Nat, jobs <= jobs', jobs' <= MaxJobs,
         AccessKept,
         ScanOK', TagsOK', \A p \in purged' : p \in purged \/ PurgedOK(p)'
  PROVE  IInv'
BY ShrinkPart, AdminSound

\* The jobs that were started, and the next one.
LEMMA JobCount ==
  ASSUME IInv
  PROVE  /\ jobs \in Nat /\ jobs <= MaxJobs /\ jobs + 1 \in Nat /\ jobs <= jobs + 1 /\ jobs <= jobs
         /\ jobs + 1 <= jobs + 1
         /\ Idle => jobs + 1 <= MaxJobs /\ job = NoJob
<1>1. jobs \in Nat /\ jobs <= MaxJobs /\ MaxJobs \in Nat
  BY Constants DEF IInv, Types
<1>2. jobs < MaxJobs => jobs + 1 <= MaxJobs
  BY <1>1
<1> QED BY <1>1, <1>2 DEF Idle

\* Without a job there is nothing to say of it.
LEMMA NoScan == job' = NoJob => ScanOK' /\ TagsOK'
BY DEF NoJob, ScanOK, TagsOK

\* A purge scans exact entries first and semantic ones last.
LEMMA PatternFacts ==
  ASSUME NEW o
  PROVE  /\ Len(Patterns(o)) \in Nat /\ Len(Patterns(o)) >= 1
         /\ Patterns(o)[1] = "x" /\ Patterns(o)[Len(Patterns(o))] = "s"
         /\ \A i \in 1 .. Len(Patterns(o)) : Patterns(o)[i] \in {"x", "s", "tags"}
         /\ \A i \in 1 .. Len(Patterns(o)) : Patterns(o)[i] = "x" => i = 1
<1>1. CASE o.route = None
  BY <1>1 DEF Patterns
<1>2. CASE o.route # None
  BY <1>2 DEF Patterns
<1> QED BY <1>1, <1>2

\* Places in a list of patterns.
LEMMA Places ==
  /\ \A n \in Nat : n >= 1 => 1 \in 1 .. n /\ n \in 1 .. n
  /\ \A n \in Nat : \A i \in 1 .. n : i \in Nat
  /\ \A n \in Nat : \A i \in n .. n : i = n
  /\ \A n \in Nat : \A a \in 1 .. n : a < n =>
       a + 1 \in 1 .. n /\ \A i \in a .. n : i # a => i \in (a + 1) .. n
OBVIOUS

\* A scan begins: every entry is ahead of it.
LEMMA ScanBegins ==
  ASSUME IInv, db' = db, NEW kind \in {"purge", "peer", "erase redis"}, NEW o, NEW a, NEW b \in BOOLEAN,
         job' = [kind |-> kind, opt |-> o, asked |-> a, n |-> jobs + 1, at |-> 1,
                 due |-> Matching(o, Patterns(o)[1]), failed |-> b],
         kind # "peer" => jobs' = jobs + 1,
         kind = "erase redis" /\ ~b => o.tenant \notin rows'
  PROVE  ScanOK' /\ TagsOK'
<1>1. /\ job'.kind = kind /\ job'.opt = o /\ job'.n = jobs + 1 /\ job'.at = 1
      /\ job'.due = Matching(o, Patterns(o)[1]) /\ job'.failed = b
  OBVIOUS
<1>2. ScanShape'
  BY DEF ScanShape
<1>3. job'.n \in Nat /\ (job'.kind # "peer" => job'.n <= jobs')
  <2>1. jobs + 1 \in Nat /\ jobs + 1 <= jobs + 1
    BY JobCount
  <2> QED BY <1>1, <2>1
<1>4. 1 \in 1 .. Len(Patterns(o)) /\ Len(Patterns(o)) \in 1 .. Len(Patterns(o))
  <2>1. Len(Patterns(o)) \in Nat /\ Len(Patterns(o)) >= 1
    BY PatternFacts
  <2> QED BY <2>1, Places
<1>5. ASSUME NEW k \in DOMAIN db', Fits(k, o) PROVE Ahead(k)'
  <2>1. k \in DOMAIN db /\ k.kind \in {"x", "s"}
    BY EntryFacts DEF EntryOf
  <2>2. CASE k.kind = "x"
    <3>1. k \in Matching(o, "x") /\ Patterns(o)[1] = "x"
      BY <1>5, <2>1, <2>2, PatternFacts DEF Matching
    <3> QED BY <1>1, <1>4, <2>2, <3>1 DEF Ahead
  <2>3. CASE k.kind = "s"
    <3>1. Patterns(o)[1] = "x" /\ Patterns(o)[Len(Patterns(o))] = "s"
      BY PatternFacts
    <3> QED BY <1>1, <1>4, <2>3, <3>1 DEF Ahead
  <2> QED BY <2>1, <2>2, <2>3
<1>6. ScanOK'
  BY <1>1, <1>2, <1>3, <1>4, <1>5 DEF ScanOK, Older
<1>7. TagsOK'
  BY <1>1 DEF TagsOK
<1> QED BY <1>6, <1>7

\* The scan under way.
LEMMA ScanFacts ==
  ASSUME IInv, job.kind \in {"purge", "peer", "erase redis", "erase rest"}
  PROVE  /\ job = [kind |-> job.kind, opt |-> job.opt, asked |-> job.asked, n |-> job.n,
                   at |-> job.at, due |-> job.due, failed |-> job.failed]
         /\ job.n \in Nat /\ job.at \in 1 .. Len(Patterns(job.opt)) /\ job.at \in Nat
         /\ Len(Patterns(job.opt)) \in Nat /\ job.failed \in BOOLEAN
         /\ job.kind # "peer" => job.n <= jobs
         /\ job.kind \in {"purge", "erase redis"} =>
              \A k \in DOMAIN db : Older(k, job.opt, job.n) => Ahead(k)
         /\ job.kind = "erase rest" /\ ~job.failed =>
              \A k \in DOMAIN db : ~Older(k, job.opt, job.n)
         /\ job.kind \in {"erase redis", "erase rest"} /\ ~job.failed => job.opt.tenant \notin rows
<1>1. ScanOK
  BY DEF IInv
<1>2. Len(Patterns(job.opt)) \in Nat
  BY PatternFacts
<1>3. \A i \in 1 .. Len(Patterns(job.opt)) : i \in Nat
  BY <1>2, Places
<1> QED BY <1>1, <1>2, <1>3 DEF ScanOK, ScanShape

\* When the last pattern is scanned nothing older is left.
LEMMA ScanEnds ==
  ASSUME IInv, job.kind \in {"purge", "erase redis"}, Scanned, job.at = Len(Patterns(job.opt))
  PROVE  \A k \in DOMAIN db : ~Older(k, job.opt, job.n)
<1> SUFFICES ASSUME NEW k \in DOMAIN db, Older(k, job.opt, job.n) PROVE FALSE
  OBVIOUS
<1>1. Ahead(k) /\ job.at \in Nat
  BY ScanFacts
<1>2. PICK i \in job.at .. Len(Patterns(job.opt)) :
        Patterns(job.opt)[i] = k.kind /\ (i = job.at => k \in job.due)
  BY <1>1 DEF Ahead
<1>3. i = job.at
  BY <1>1, <1>2, Places
<1>4. k.kind # "tags"
  BY EntryFacts DEF EntryOf
<1>5. k \in Matching(job.opt, Patterns(job.opt)[job.at])
  BY <1>2, <1>3, <1>4 DEF Matching, Older
<1> QED BY <1>2, <1>3, <1>5 DEF Scanned

\* A scan goes on: its bounds hold whatever pattern it is at.
LEMMA ScanGoesOn ==
  ASSUME IInv, job.kind \in {"purge", "peer", "erase redis"}, jobs' = jobs, rows' = rows,
         NEW i \in 1 .. Len(Patterns(job.opt)), NEW due,
         job' = [job EXCEPT !.at = i, !.due = due], Shrinks,
         \A k \in DOMAIN db' : Fits(k, job.opt) /\ Ahead(k) => Ahead(k)'
  PROVE  ScanOK' /\ TagsOK'
<1>1. /\ job = [kind |-> job.kind, opt |-> job.opt, asked |-> job.asked, n |-> job.n,
                at |-> job.at, due |-> job.due, failed |-> job.failed]
      /\ job.n \in Nat /\ job.failed \in BOOLEAN
      /\ job.kind # "peer" => job.n <= jobs
      /\ job.kind \in {"purge", "erase redis"} =>
           \A k \in DOMAIN db : Older(k, job.opt, job.n) => Ahead(k)
      /\ job.kind = "erase redis" /\ ~job.failed => job.opt.tenant \notin rows
  BY ScanFacts
<1>2. job' = [kind |-> job.kind, opt |-> job.opt, asked |-> job.asked, n |-> job.n,
              at |-> i, due |-> due, failed |-> job.failed]
  BY <1>1
<1>3. /\ job'.kind = job.kind /\ job'.opt = job.opt /\ job'.n = job.n /\ job'.at = i
      /\ job'.failed = job.failed
  BY <1>2
<1>4. ScanShape'
  BY <1>2 DEF ScanShape
<1>5. job.kind \in {"purge", "erase redis"} =>
        \A k \in DOMAIN db' : Older(k, job.opt, job.n)' => Ahead(k)'
  BY <1>1, <1>3 DEF Shrinks, Older
<1>6. ScanOK'
  BY <1>1, <1>3, <1>4, <1>5 DEF ScanOK
<1> QED BY <1>3, <1>6 DEF TagsOK

LEMMA ScanBatchSound ==
  ASSUME IInv, NEW x, NEW tags \in BOOLEAN, ScanBatch(x, tags)
  PROVE  IInv'
<1> DEFINE p == Patterns(job.opt)[job.at]
<1>1. /\ job.kind \in {"purge", "peer", "erase redis"} /\ tags = (p = "tags")
      /\ IF tags THEN Unlink({}, {x}) ELSE Unlink({x}, {})
      /\ job' = [job EXCEPT !.due = job.due \ {x}]
      /\ UNCHANGED <<call, jobs, purged, rows, auth>>
  BY DEF ScanBatch
<1>2. Shrinks /\ (~tags => x \notin DOMAIN db')
  BY <1>1 DEF Shrinks, Unlink, Without
<1>3. /\ job = [kind |-> job.kind, opt |-> job.opt, asked |-> job.asked, n |-> job.n,
                at |-> job.at, due |-> job.due, failed |-> job.failed]
      /\ job.at \in 1 .. Len(Patterns(job.opt))
  BY <1>1, ScanFacts
<1>4. job' = [job EXCEPT !.at = job.at, !.due = job.due \ {x}]
  BY <1>1, <1>3
<1>5. job'.opt = job.opt /\ job'.at = job.at /\ job'.due = job.due \ {x}
  BY <1>1, <1>3
<1>6. ASSUME NEW k \in DOMAIN db', Ahead(k) PROVE Ahead(k)'
  <2>1. PICK i \in job.at .. Len(Patterns(job.opt)) :
          Patterns(job.opt)[i] = k.kind /\ (i = job.at => k \in job.due)
    BY <1>6 DEF Ahead
  <2>2. k.kind # "tags"
    BY <1>2, EntryFacts DEF Shrinks, EntryOf
  <2>3. i = job.at => k # x
    BY <1>1, <1>2, <2>1, <2>2
  <2> QED BY <1>5, <2>1, <2>3 DEF Ahead
<1>7. ScanOK' /\ TagsOK'
  BY <1>1, <1>2, <1>3, <1>4, <1>6, ScanGoesOn
<1>8. jobs' \in Nat /\ jobs <= jobs' /\ jobs' <= MaxJobs
  BY <1>1, JobCount
<1> QED BY <1>1, <1>2, <1>7, <1>8, AuthKept, ShrinkSound

LEMMA NextPatternSound ==
  ASSUME IInv, NextPattern
  PROVE  IInv'
<1> DEFINE at == job.at + 1
           due == Matching(job.opt, Patterns(job.opt)[job.at + 1])
<1>1. /\ job.kind \in {"purge", "peer", "erase redis"} /\ Scanned /\ job.at < Len(Patterns(job.opt))
      /\ job' = [job EXCEPT !.at = at, !.due = due]
      /\ UNCHANGED <<call, db, tagset, jobs, purged, rows, auth>>
  BY DEF NextPattern, redis
<1>2. Shrinks
  BY <1>1 DEF Shrinks
<1>3. /\ job = [kind |-> job.kind, opt |-> job.opt, asked |-> job.asked, n |-> job.n,
                at |-> job.at, due |-> job.due, failed |-> job.failed]
      /\ job.at \in 1 .. Len(Patterns(job.opt)) /\ Len(Patterns(job.opt)) \in Nat
  BY <1>1, ScanFacts
<1>4. /\ at \in 1 .. Len(Patterns(job.opt))
      /\ \A i \in job.at .. Len(Patterns(job.opt)) : i # job.at => i \in at .. Len(Patterns(job.opt))
  BY <1>1, <1>3, Places
<1>5. job'.opt = job.opt /\ job'.at = at /\ job'.due = due
  BY <1>1, <1>3
<1>6. ASSUME NEW k \in DOMAIN db', Fits(k, job.opt), Ahead(k) PROVE Ahead(k)'
  <2>1. PICK i \in job.at .. Len(Patterns(job.opt)) :
          Patterns(job.opt)[i] = k.kind /\ (i = job.at => k \in job.due)
    BY <1>6 DEF Ahead
  <2>2. k.kind # "tags" /\ k \in DOMAIN db
    BY <1>1, EntryFacts DEF EntryOf
  <2>3. \A j : Patterns(job.opt)[j] = k.kind => k \in Matching(job.opt, Patterns(job.opt)[j])
    BY <1>6, <2>2 DEF Matching
  <2>4. i # job.at
    BY <1>1, <2>1, <2>3 DEF Scanned
  <2>5. i \in at .. Len(Patterns(job.opt)) /\ (i = at => k \in due)
    BY <1>4, <2>1, <2>3, <2>4
  <2> HIDE DEF at, due
  <2> QED BY <1>5, <2>1, <2>5 DEF Ahead
<1> HIDE DEF at, due
<1>7. ScanOK' /\ TagsOK'
  BY <1>1, <1>2, <1>4, <1>6, ScanGoesOn
<1>8. jobs' \in Nat /\ jobs <= jobs' /\ jobs' <= MaxJobs
  BY <1>1, JobCount
<1> QED BY <1>1, <1>2, <1>7, <1>8, AuthKept, ShrinkSound

\* A step that leaves Redis alone.
LEMMA RedisKept == UNCHANGED <<db, tagset>> => Shrinks
BY DEF Shrinks

LEMMA PurgeByScanSound ==
  ASSUME IInv, NEW o, PurgeByScan(o)
  PROVE  IInv'
<1>1. /\ Idle /\ jobs' = jobs + 1 /\ job' = Scanning("purge", o)
      /\ UNCHANGED <<call, db, tagset, purged, rows, auth>>
  BY DEF PurgeByScan, redis
<1>2. ScanOK' /\ TagsOK'
  BY <1>1, ScanBegins DEF Scanning
<1>3. jobs' \in Nat /\ jobs <= jobs' /\ jobs' <= MaxJobs
  BY <1>1, JobCount
<1> QED BY <1>1, <1>2, <1>3, RedisKept, AuthKept, ShrinkSound

LEMMA PurgeRefusedSound ==
  ASSUME IInv, PurgeRefused
  PROVE  IInv'
<1>1. /\ Idle /\ jobs' = jobs + 1 /\ UNCHANGED <<call, db, tagset, job, purged, rows, auth>>
  BY DEF PurgeRefused, redis
<1>2. jobs' \in Nat /\ jobs <= jobs' /\ jobs' <= MaxJobs /\ job' = NoJob
  BY <1>1, JobCount
<1> QED BY <1>1, <1>2, NoScan, RedisKept, AuthKept, ShrinkSound

\* A purge that reports success, and an erasure that is accepted.
LEMMA PurgeRecorded ==
  ASSUME IInv, Shrinks, jobs' = jobs, NEW p, p.n \in Nat, p.n <= jobs,
         p.kind # "tags" => \A k \in DOMAIN db : ~Older(k, p.opt, p.n),
         p.kind = "erase" => Locked(p.opt.tenant)'
  PROVE  PurgedOK(p)'
<1>1. p.kind # "tags" => \A k \in DOMAIN db' : ~Older(k, p.opt, p.n)'
  BY DEF Shrinks, Older
<1> QED BY <1>1 DEF PurgedOK

LEMMA PurgeEndSound ==
  ASSUME IInv, PurgeEnd
  PROVE  IInv'
<1>1. job.kind = "purge" /\ job' = NoJob /\ UNCHANGED <<call, db, tagset, jobs, rows, auth>>
  BY DEF PurgeEnd, redis
<1>2. Shrinks /\ jobs' \in Nat /\ jobs <= jobs' /\ jobs' <= MaxJobs
  BY <1>1, JobCount, RedisKept
<1>3. CASE purged' = purged
  BY <1>1, <1>2, <1>3, NoScan, AuthKept, ShrinkSound
<1>4. CASE /\ Scanned /\ job.at = Len(Patterns(job.opt))
           /\ purged' = purged \cup {[kind |-> "purge", opt |-> job.opt, n |-> job.n]}
  <2>1. \A k \in DOMAIN db : ~Older(k, job.opt, job.n)
    BY <1>1, <1>4, ScanEnds
  <2>2. job.n \in Nat /\ job.n <= jobs
    BY <1>1, ScanFacts
  <2>3. ASSUME NEW p, p = [kind |-> "purge", opt |-> job.opt, n |-> job.n] PROVE PurgedOK(p)'
    <3>1. p.kind = "purge" /\ p.opt = job.opt /\ p.n = job.n
      BY <2>3
    <3> QED BY <1>1, <1>2, <2>1, <2>2, <3>1, PurgeRecorded
  <2>4. \A p \in purged' : p \in purged \/ PurgedOK(p)'
    BY <1>4, <2>3
  <2> QED BY <1>1, <1>2, <2>4, NoScan, AuthKept, ShrinkSound
<1> QED BY <1>3, <1>4 DEF PurgeEnd

LEMMA PeerPurgeSound ==
  ASSUME IInv, PeerPurge
  PROVE  IInv'
<1>1. /\ job' = [Scanning("peer", Everything) EXCEPT !.asked = orders.asked]
      /\ UNCHANGED <<call, db, tagset, jobs, purged, rows, auth>>
  BY DEF PeerPurge, redis
<1>2. ScanOK' /\ TagsOK'
  <2>1. job' = [kind |-> "peer", opt |-> Everything, asked |-> orders.asked, n |-> jobs + 1, at |-> 1,
                due |-> Matching(Everything, Patterns(Everything)[1]), failed |-> FALSE]
    BY <1>1 DEF Scanning
  <2> QED BY <1>1, <2>1, ScanBegins
<1>3. jobs' \in Nat /\ jobs <= jobs' /\ jobs' <= MaxJobs
  BY <1>1, JobCount
<1> QED BY <1>1, <1>2, <1>3, RedisKept, AuthKept, ShrinkSound

LEMMA PurgeUnheardSound ==
  ASSUME IInv, PurgeUnheard
  PROVE  IInv'
<1>1. UNCHANGED <<call, db, tagset, job, jobs, purged, rows, auth>>
  BY DEF PurgeUnheard, redis
<1>2. Shrinks /\ jobs' \in Nat /\ jobs <= jobs' /\ jobs' <= MaxJobs
  BY <1>1, JobCount, RedisKept
<1>3. CallsKept /\ StoresKept
  BY <1>1, <1>2, AuthKept, ShrinkPart DEF CallsKept, Begun
<1> QED BY <1>1, <1>2, <1>3, ScanPart, AuthKept, ShrinkSound

LEMMA PeerPurgeEndSound ==
  ASSUME IInv, PeerPurgeEnd
  PROVE  IInv'
<1>1. job' = NoJob /\ UNCHANGED <<call, db, tagset, jobs, purged, rows, auth>>
  BY DEF PeerPurgeEnd, redis
<1>2. jobs' \in Nat /\ jobs <= jobs' /\ jobs' <= MaxJobs
  BY <1>1, JobCount
<1> QED BY <1>1, <1>2, NoScan, RedisKept, AuthKept, ShrinkSound

LEMMA PurgeByTagsSound ==
  ASSUME IInv, NEW o, PurgeByTags(o)
  PROVE  IInv'
<1> DEFINE sets == {s \in DOMAIN tagset : s[2] = o.tag /\ o.tenant \in {None, s[1]}}
           keys == {k \in UNION {tagset[s].members : s \in sets} : o.route \in {None, k.route}}
<1>1. /\ Idle /\ jobs' = jobs + 1
      /\ job' = [kind |-> "tags", opt |-> o, asked |-> o, n |-> jobs + 1, sets |-> sets, keys |-> keys]
      /\ UNCHANGED <<call, db, tagset, purged, rows, auth>>
  BY DEF PurgeByTags, redis
<1> HIDE DEF sets, keys
<1>2. jobs + 1 \in Nat /\ jobs + 1 <= jobs' /\ jobs' \in Nat /\ jobs <= jobs' /\ jobs' <= MaxJobs
  BY <1>1, JobCount
<1>3. TagsOK' /\ job'.kind = "tags"
  BY <1>1, <1>2 DEF TagsOK
<1>4. ScanOK'
  BY <1>3 DEF ScanOK
<1> QED BY <1>1, <1>2, <1>3, <1>4, RedisKept, AuthKept, ShrinkSound

LEMMA UnlinkTaggedSound ==
  ASSUME IInv, NEW keys, NEW sets, UnlinkTagged(keys, sets)
  PROVE  IInv'
<1>1. /\ job.kind = "tags" /\ Unlink(keys, sets)
      /\ job' = [job EXCEPT !.keys = job.keys \ keys, !.sets = job.sets \ sets]
      /\ UNCHANGED <<call, jobs, purged, rows, auth>>
  BY DEF UnlinkTagged
<1>2. Shrinks
  BY <1>1 DEF Shrinks, Unlink, Without
<1>3. /\ job = [kind |-> job.kind, opt |-> job.opt, asked |-> job.asked, n |-> job.n,
                sets |-> job.sets, keys |-> job.keys]
      /\ job.n \in Nat /\ job.n <= jobs
  BY <1>1 DEF IInv, TagsOK
<1>4. job' = [kind |-> "tags", opt |-> job.opt, asked |-> job.asked, n |-> job.n,
              sets |-> job.sets \ sets, keys |-> job.keys \ keys]
  BY <1>1, <1>3
<1>5. TagsOK' /\ job'.kind = "tags"
  BY <1>1, <1>3, <1>4 DEF TagsOK
<1>6. ScanOK'
  BY <1>5 DEF ScanOK
<1>7. jobs' \in Nat /\ jobs <= jobs' /\ jobs' <= MaxJobs
  BY <1>1, JobCount
<1> QED BY <1>1, <1>2, <1>5, <1>6, <1>7, AuthKept, ShrinkSound

LEMMA TagsEndSound ==
  ASSUME IInv, TagsEnd
  PROVE  IInv'
<1>1. job.kind = "tags" /\ job' = NoJob /\ UNCHANGED <<call, db, tagset, jobs, rows, auth>>
  BY DEF TagsEnd, redis
<1>2. Shrinks /\ jobs' \in Nat /\ jobs <= jobs' /\ jobs' <= MaxJobs
  BY <1>1, JobCount, RedisKept
<1>3. job.n \in Nat /\ job.n <= jobs
  BY <1>1 DEF IInv, TagsOK
<1>4. ASSUME NEW p, p = [kind |-> "tags", opt |-> job.opt, n |-> job.n] PROVE PurgedOK(p)'
  <2>1. p.kind = "tags" /\ p.n = job.n
    BY <1>4
  <2> QED BY <1>1, <1>2, <1>3, <2>1, PurgeRecorded
<1>5. \A p \in purged' : p \in purged \/ PurgedOK(p)'
  BY <1>4 DEF TagsEnd
<1> QED BY <1>1, <1>2, <1>5, NoScan, AuthKept, ShrinkSound

LEMMA ErasePostgresSound ==
  ASSUME IInv, NEW t, ErasePostgres(t)
  PROVE  IInv'
<1>1. /\ Idle /\ jobs' = jobs + 1 /\ UNCHANGED <<call, db, tagset, purged, auth>>
  BY DEF ErasePostgres, redis
<1>2. PICK ok \in BOOLEAN :
        /\ rows' \in {rows \ {t}} \cup (IF ok THEN {} ELSE {rows})
        /\ job' = [Scanning("erase redis", OfTenant(t)) EXCEPT !.failed = ~ok]
  BY DEF ErasePostgres
<1>3. job' = [kind |-> "erase redis", opt |-> OfTenant(t), asked |-> OfTenant(t), n |-> jobs + 1,
              at |-> 1, due |-> Matching(OfTenant(t), Patterns(OfTenant(t))[1]), failed |-> ~ok]
  BY <1>2 DEF Scanning
<1>4. OfTenant(t).tenant = t /\ (ok => t \notin rows') /\ rows' \subseteq rows
  BY <1>2 DEF OfTenant
<1>5. ScanOK' /\ TagsOK'
  <2>1. (~ok) \in BOOLEAN /\ (~(~ok) => OfTenant(t).tenant \notin rows')
    BY <1>4
  <2> QED BY <1>1, <1>3, <2>1, ScanBegins
<1>6. jobs' \in Nat /\ jobs <= jobs' /\ jobs' <= MaxJobs
  BY <1>1, JobCount
<1> QED BY <1>1, <1>4, <1>5, <1>6, RedisKept, AuthKept, ShrinkSound

LEMMA EraseRedisEndSound ==
  ASSUME IInv, EraseRedisEnd
  PROVE  IInv'
<1>1. job.kind = "erase redis" /\ UNCHANGED <<call, db, tagset, jobs, purged, rows, auth>>
  BY DEF EraseRedisEnd, redis
<1>2. /\ job = [kind |-> job.kind, opt |-> job.opt, asked |-> job.asked, n |-> job.n,
                at |-> job.at, due |-> job.due, failed |-> job.failed]
      /\ job.n \in Nat /\ job.at \in 1 .. Len(Patterns(job.opt)) /\ job.failed \in BOOLEAN
      /\ job.n <= jobs /\ (~job.failed => job.opt.tenant \notin rows)
  BY <1>1, ScanFacts
<1>3. PICK b \in BOOLEAN :
        /\ job' = [kind |-> "erase rest", opt |-> job.opt, asked |-> job.asked, n |-> job.n,
                   at |-> job.at, due |-> job.due, failed |-> b]
        /\ ~b => ~job.failed /\ Scanned /\ job.at = Len(Patterns(job.opt))
  <2>1. CASE job' = [job EXCEPT !.kind = "erase rest", !.failed = TRUE]
    BY <1>2, <2>1
  <2>2. CASE /\ Scanned /\ job.at = Len(Patterns(job.opt))
             /\ job' = [job EXCEPT !.kind = "erase rest"]
    BY <1>2, <2>2
  <2> QED BY <2>1, <2>2 DEF EraseRedisEnd
<1>4. ~b => \A k \in DOMAIN db : ~Older(k, job.opt, job.n)
  BY <1>1, <1>3, ScanEnds
<1>5. /\ job'.kind = "erase rest" /\ job'.opt = job.opt /\ job'.n = job.n /\ job'.at = job.at
      /\ job'.failed = b
  BY <1>3
<1>6. ScanShape'
  BY <1>3 DEF ScanShape
<1>7. ~b => \A k \in DOMAIN db' : ~Older(k, job.opt, job.n)'
  BY <1>1, <1>4, <1>5 DEF Older
<1>8. ScanOK' /\ TagsOK'
  BY <1>1, <1>2, <1>3, <1>5, <1>6, <1>7 DEF ScanOK, TagsOK
<1>9. jobs' \in Nat /\ jobs <= jobs' /\ jobs' <= MaxJobs
  BY <1>1, JobCount
<1> QED BY <1>1, <1>8, <1>9, RedisKept, AuthKept, ShrinkSound

LEMMA EraseEndSound ==
  ASSUME IInv, EraseEnd
  PROVE  IInv'
<1>1. job.kind = "erase rest" /\ job' = NoJob /\ UNCHANGED <<call, db, tagset, jobs, rows>>
  BY DEF EraseEnd, redis
<1>2. Shrinks /\ jobs' \in Nat /\ jobs <= jobs' /\ jobs' <= MaxJobs
  BY <1>1, JobCount, RedisKept
<1>3. PICK analytics \in BOOLEAN, published \in BOOLEAN :
        /\ notices' \in {notices \cup (1..Peers) \X {job.opt.tenant}}
                          \cup (IF published THEN {} ELSE {notices})
        /\ purged' = IF Accepted(analytics, published)
                     THEN purged \cup {[kind |-> "erase", opt |-> job.opt, n |-> job.n]} ELSE purged
  BY DEF EraseEnd
<1>4. /\ AccessKept
      /\ published /\ job.opt.tenant \notin rows =>
           job.opt.tenant \notin rows' /\ \A i \in Replicas : <<i, job.opt.tenant>> \notin Firm'
  <2> DEFINE t == job.opt.tenant
  <2>1. /\ cached' = cached \ {<<0, t>>} /\ missed' = missed \ {<<0, t>>} /\ rows' = rows
        /\ cached \subseteq Replicas \X Tenants
    BY DEF EraseEnd, IInv, Types
  <2>2. /\ notices \subseteq notices'
        /\ published => notices' = notices \cup (1..Peers) \X {t}
    BY <1>3
  <2> HIDE DEF t
  <2>3. Firm' \subseteq Firm
    BY <2>1, <2>2 DEF Firm
  <2>4. ASSUME published, NEW i \in Replicas PROVE <<i, t>> \notin Firm'
    <3>1. CASE i = 0
      BY <2>1, <3>1 DEF Firm
    <3>2. CASE i # 0
      <4>1. i \in 1..Peers
        BY <2>4, <3>2, Constants DEF Replicas
      <4>2. <<i, t>> \in notices' /\ <<i, t>>[1] # 0
        BY <2>2, <2>4, <3>2, <4>1
      <4> QED BY <4>2 DEF Firm
    <3> QED BY <3>1, <3>2
  <2>5. published /\ t \notin rows => t \notin rows' /\ \A i \in Replicas : <<i, t>> \notin Firm'
    BY <2>1, <2>4
  <2> QED BY <2>1, <2>3, <2>5 DEF AccessKept, t
<1>5. CASE Accepted(analytics, published)
  <2>1. ~job.failed /\ published
    BY <1>5 DEF Accepted
  <2>2. /\ job.n \in Nat /\ job.n <= jobs /\ job.opt.tenant \notin rows
        /\ \A k \in DOMAIN db : ~Older(k, job.opt, job.n)
    BY <1>1, <2>1, ScanFacts
  <2>4. ASSUME NEW p, p = [kind |-> "erase", opt |-> job.opt, n |-> job.n] PROVE PurgedOK(p)'
    <3>1. p.kind = "erase" /\ p.opt = job.opt /\ p.n = job.n
      BY <2>4
    <3>2. Locked(p.opt.tenant)'
      <4>1. p.opt.tenant \notin rows' /\ \A i \in Replicas : <<i, p.opt.tenant>> \notin Firm'
        BY <1>4, <2>1, <2>2, <3>1
      <4>2. Replicas' = Replicas
        BY DEF Replicas
      <4> QED BY <4>1, <4>2 DEF Locked
    <3> QED BY <1>1, <1>2, <2>2, <3>1, <3>2, PurgeRecorded
  <2>5. \A p \in purged' : p \in purged \/ PurgedOK(p)'
    BY <1>3, <1>5, <2>4
  <2> QED BY <1>1, <1>2, <1>4, <2>5, NoScan, ShrinkSound
<1>6. CASE ~Accepted(analytics, published)
  <2>1. purged' = purged
    BY <1>3, <1>6
  <2> QED BY <1>1, <1>2, <1>4, <2>1, NoScan, ShrinkSound
<1> QED BY <1>5, <1>6

\* A step of the authentication cache of one replica.
LEMMA AuthStepSound ==
  ASSUME IInv, NEW i \in Replicas, NEW t \in Tenants, AuthStep(i, t)
  PROVE  IInv'
<1>1. UNCHANGED <<call, db, tagset, job, jobs, purged, rows>>
  BY DEF AuthStep, AuthStored, EvictTenant, AuthExpires, redis
<1>2. cached \subseteq Replicas \X Tenants /\ <<i, t>> \in Replicas \X Tenants /\ <<i, t>>[2] = t
  BY DEF IInv, Types
<1>3. /\ cached' \subseteq Replicas \X Tenants
      /\ \A x \in Firm' : x \in Firm \/ x[2] \in rows
  <2>1. CASE AuthStored(i, t)
    <3>1. /\ cached' = cached \cup {<<i, t>>} /\ notices' = notices
          /\ (t \in rows /\ missed' = missed) \/ missed' = missed \cup {<<i, t>>}
      BY <2>1 DEF AuthStored
    <3> QED BY <1>2, <3>1 DEF Firm
  <2>2. CASE EvictTenant(i, t)
    <3>1. /\ cached' = cached \ {<<i, t>>} /\ notices' = notices \ {<<i, t>>}
          /\ missed' = missed \ {<<i, t>>}
      BY <2>2 DEF EvictTenant
    <3> QED BY <1>2, <3>1 DEF Firm
  <2>3. CASE AuthExpires(i, t)
    <3>1. /\ cached' = cached \ {<<i, t>>} /\ notices' = notices
          /\ missed' = missed \ {<<i, t>>}
      BY <2>3 DEF AuthExpires
    <3> QED BY <1>2, <3>1 DEF Firm
  <2> QED BY <2>1, <2>2, <2>3 DEF AuthStep
<1>4. AccessKept
  BY <1>1, <1>3 DEF AccessKept
<1>5. Shrinks /\ jobs' \in Nat /\ jobs <= jobs' /\ jobs' <= MaxJobs
  BY <1>1, JobCount, RedisKept
<1>6. CallsKept /\ StoresKept
  BY <1>1, <1>4, <1>5, ShrinkPart DEF CallsKept, Begun
<1> QED BY <1>1, <1>4, <1>5, <1>6, ScanPart, ShrinkSound

\* What ages keeps all but the time it has left.
LEMMA Ages ==
  /\ \A e \in EntryRec : e.left # 0 =>
       /\ [e EXCEPT !.left = e.left - 1] \in EntryRec
       /\ [e EXCEPT !.left = e.left - 1].src = e.src /\ [e EXCEPT !.left = e.left - 1].query = e.query
       /\ [e EXCEPT !.left = e.left - 1].scope = e.scope /\ [e EXCEPT !.left = e.left - 1].born = e.born
  /\ \A s \in SetRec : s.left # 0 =>
       /\ [s EXCEPT !.left = s.left - 1] \in SetRec
       /\ [s EXCEPT !.left = s.left - 1].members = s.members
<1>1. \A n \in Nat : n # 0 => n - 1 \in Nat
  OBVIOUS
<1>2. ASSUME NEW e \in EntryRec, e.left # 0
      PROVE  /\ [e EXCEPT !.left = e.left - 1] \in EntryRec
             /\ [e EXCEPT !.left = e.left - 1].src = e.src
             /\ [e EXCEPT !.left = e.left - 1].query = e.query
             /\ [e EXCEPT !.left = e.left - 1].scope = e.scope
             /\ [e EXCEPT !.left = e.left - 1].born = e.born
  <2> DEFINE n == e.left - 1
  <2>1. n \in Nat
    BY <1>1, <1>2 DEF EntryRec
  <2> HIDE DEF n
  <2>2. /\ [e EXCEPT !.left = n] \in EntryRec /\ [e EXCEPT !.left = n].src = e.src
        /\ [e EXCEPT !.left = n].query = e.query /\ [e EXCEPT !.left = n].scope = e.scope
        /\ [e EXCEPT !.left = n].born = e.born
    BY <2>1 DEF EntryRec
  <2> QED BY <2>2 DEF n
<1>3. ASSUME NEW s \in SetRec, s.left # 0
      PROVE  /\ [s EXCEPT !.left = s.left - 1] \in SetRec
             /\ [s EXCEPT !.left = s.left - 1].members = s.members
  <2> DEFINE n == s.left - 1
  <2>1. n \in Nat
    BY <1>1, <1>3 DEF SetRec
  <2> HIDE DEF n
  <2>2. [s EXCEPT !.left = n] \in SetRec /\ [s EXCEPT !.left = n].members = s.members
    BY <2>1 DEF SetRec
  <2> QED BY <2>2 DEF n
<1> QED BY <1>2, <1>3

LEMMA TickSound ==
  ASSUME IInv, Tick
  PROVE  IInv'
<1>1. /\ db' = Aged(db) /\ tagset' = Aged(tagset)
      /\ UNCHANGED <<call, job, jobs, purged, rows, auth>>
  BY DEF Tick, admin
<1>2. jobs' \in Nat /\ jobs <= jobs' /\ jobs' <= MaxJobs
  BY <1>1, JobCount
<1>3. \A k \in DOMAIN db' : Carried(k)
  <2>1. ASSUME NEW k \in DOMAIN db' PROVE Carried(k)
    <3>1. /\ k \in DOMAIN db
          /\ db'[k] = IF db[k].left = 0 THEN db[k] ELSE [db[k] EXCEPT !.left = db[k].left - 1]
      BY <1>1, <2>1 DEF Aged
    <3>2. db[k] \in EntryRec
      BY <3>1, EntryFacts
    <3> QED BY <3>1, <3>2, Ages DEF Carried
  <2> QED BY <2>1
<1>4. \A s \in DOMAIN tagset' : tagset'[s] \in SetRec /\ tagset'[s].members # {}
  <2>1. ASSUME NEW s \in DOMAIN tagset'
        PROVE  tagset'[s] \in SetRec /\ tagset'[s].members # {}
    <3>1. /\ s \in DOMAIN tagset
          /\ tagset'[s] = IF tagset[s].left = 0 THEN tagset[s]
                          ELSE [tagset[s] EXCEPT !.left = tagset[s].left - 1]
      BY <1>1, <2>1 DEF Aged
    <3>2. tagset[s] \in SetRec /\ tagset[s].members # {}
      BY <3>1 DEF IInv, Types
    <3> QED BY <3>1, <3>2, Ages
  <2> QED BY <2>1
<1>5. CallsKept /\ StoresKept
  BY <1>1, <1>2, <1>3, AuthKept DEF CallsKept, Begun, StoresKept
<1> QED BY <1>1, <1>2, <1>4, <1>5, ScanPart, AdminSound

-----------------------------------------------------------------------------
LEMMA Stutter == IInv /\ UNCHANGED vars => IInv'
<1> SUFFICES ASSUME IInv, UNCHANGED vars PROVE IInv'
  OBVIOUS
<1>1. UNCHANGED <<call, db, tagset, job, jobs, purged, rows, auth>>
  BY DEF vars, auth
<1>2. Shrinks /\ jobs' \in Nat /\ jobs <= jobs' /\ jobs' <= MaxJobs
  BY <1>1, JobCount, RedisKept
<1>3. CallsKept /\ StoresKept
  BY <1>1, <1>2, AuthKept, ShrinkPart DEF CallsKept, Begun
<1> QED BY <1>1, <1>2, <1>3, ScanPart, AuthKept, ShrinkSound

LEMMA StepSound == IInv /\ Next => IInv'
<1> SUFFICES ASSUME IInv, Next PROVE IInv'
  OBVIOUS
<1>1. ASSUME NEW c \in Calls, NEW r \in Requests, NEW f \in Configs, Begin(c, r, f[r.route])
      PROVE  IInv'
  BY <1>1, BeginSound
<1>2. ASSUME NEW c \in Calls, \/ LookExact(c) \/ LookSemantic(c) \/ Upstream(c)
                              \/ PutExact(c) \/ PutSemantic(c)
      PROVE  IInv'
  BY <1>2, LookExactSound, LookSemanticSound, UpstreamSound, PutExactSound, PutSemanticSound
<1>3. ASSUME NEW o, PurgeByScan(o) \/ PurgeByTags(o) PROVE IInv'
  BY <1>3, PurgeByScanSound, PurgeByTagsSound
<1>4. ASSUME NEW x, ScanBatch(x, FALSE) \/ ScanBatch(x, TRUE) PROVE IInv'
  BY <1>4, ScanBatchSound
<1>5. ASSUME NEW t \in Tenants, ErasePostgres(t) \/ \E i \in Replicas : AuthStep(i, t) PROVE IInv'
  BY <1>5, ErasePostgresSound, AuthStepSound
<1>6. CASE \/ PurgeRefused \/ NextPattern \/ PurgeEnd \/ PeerPurge \/ PurgeUnheard
           \/ PeerPurgeEnd \/ TagsEnd \/ EraseRedisEnd \/ EraseEnd \/ Tick
  BY <1>6, PurgeRefusedSound, NextPatternSound, PurgeEndSound, PeerPurgeSound, PurgeUnheardSound,
     PeerPurgeEndSound, TagsEndSound, EraseRedisEndSound, EraseEndSound, TickSound
<1>7. ASSUME NEW K, NEW S, UnlinkTagged(K, S) PROVE IInv'
  BY <1>7, UnlinkTaggedSound
<1> QED BY <1>1, <1>2, <1>3, <1>4, <1>5, <1>6, <1>7 DEF Next

(* Every reachable state satisfies the inductive invariant.                *)
THEOREM Inductive == Spec => []IInv
<1>1. IInv /\ [Next]_vars => IInv'
  BY StepSound, Stutter
<1> QED BY <1>1, InitSound, PTL DEF Spec

(* What is reused, or offered as a candidate, answers a request of the     *)
(* same scope, and a hit answers the same or a similar question; writers   *)
(* never hold more than the slots there are (keys.go Scope, stage.go       *)
(* Before and After).                                                      *)
THEOREM AnswersFit == Spec => []AnswerFits
<1>1. IInv => TypeOK
  <2> SUFFICES ASSUME IInv PROVE TypeOK
    OBVIOUS
  <2>1. \A c \in Calls : call[c].pc \in {"new", "exact", "semantic", "upstream", "put exact",
                                        "put semantic", "done"}
    <3>1. \A c \in Calls : call[c] \in CallRec \/ call[c] = NewCall
      BY DEF IInv, Types
    <3>2. (\A q \in CallRec : q.pc \in Points) /\ NewCall.pc = "new"
      BY DEF CallRec, NewCall
    <3>3. \A c \in Calls : call[c].pc \in Points \/ call[c].pc = "new"
      BY <3>1, <3>2
    <3> QED BY <3>3 DEF Points
  <2>2. ASSUME NEW k \in DOMAIN db PROVE k.kind \in {"x", "s"} /\ k.tenant \in Tenants
    <3>1. /\ db[k].src \in Calls /\ Begun(db[k].src)
          /\ EntryOf(k, db[k], call[db[k].src].req, call[db[k].src].cfg)
      BY EntryFacts
    <3>2. call[db[k].src].req \in Requests
      BY <3>1 DEF Begun, CallRec
    <3> QED BY <3>1, <3>2, Constants DEF EntryOf
  <2>3. Cardinality({c \in Calls : call[c].pc \in {"put exact", "put semantic"}}) <= Slots
    BY DEF IInv, Writing
  <2> QED BY <2>1, <2>2, <2>3 DEF TypeOK, IInv, Types
<1>2. IInv => AnswerFits
  <2> SUFFICES ASSUME IInv, NEW c \in Calls, call[c].src # None
               PROVE  FitsCall(call[c], call[call[c].src].req, call[call[c].src].cfg)
    BY <1>1 DEF AnswerFits, FitsCall
  <2>1. NewCall.src = None
    BY DEF NewCall
  <2>2. Begun(c)
    BY <2>1 DEF IInv, Types, Begun
  <2> QED BY <2>2 DEF IInv, AnswerOK
<1> QED BY <1>2, Inductive, PTL

(* A purge by tenant or route, or an erasure, that reported success leaves *)
(* no entry in its scope that was there when it began, and none comes back *)
(* (purge.go purgeByScan, erasure.go PurgeTenant).                         *)
THEOREM PurgedIsGone == Spec => []PurgedStaysGone
<1>1. IInv => PurgedStaysGone
  <2> SUFFICES ASSUME IInv, NEW p \in purged, p.kind # "tags", NEW k \in DOMAIN db, Fits(k, p.opt)
               PROVE  db[k].born >= p.n
    BY DEF PurgedStaysGone
  <2>1. p.n \in Nat /\ ~Older(k, p.opt, p.n)
    BY DEF IInv, PurgedOK
  <2>2. db[k].born \in Nat
    BY EntryFacts DEF EntryRec
  <2>3. ~(db[k].born < p.n)
    BY <2>1 DEF Older
  <2> QED BY <2>1, <2>2, <2>3
<1> QED BY <1>1, Inductive, PTL

(* A tenant whose erasure was accepted has no row, and its key is cached   *)
(* only where the eviction is still to come or was lost, or where a lookup *)
(* that had read the row ended after its deletion, whatever failed on the  *)
(* way and however the messages are delivered (erasure.go Erase,           *)
(* admin_cp.go handleTenantErase, middleware.go EvictTenant).              *)
THEOREM AcceptedLocksOut == Spec => []AcceptedIsLockedOut
<1>1. IInv => AcceptedIsLockedOut
  <2> SUFFICES ASSUME IInv, NEW p \in purged, p.kind = "erase"
               PROVE  /\ p.opt.tenant \notin rows
                      /\ \A i \in Replicas : <<i, p.opt.tenant>> \in cached =>
                           \/ <<i, p.opt.tenant>> \in missed
                           \/ i # 0 /\ <<i, p.opt.tenant>> \in notices
    BY DEF AcceptedIsLockedOut
  <2>1. Locked(p.opt.tenant)
    BY DEF IInv, PurgedOK
  <2> QED BY <2>1 DEF Locked, Firm
<1> QED BY <1>1, Inductive, PTL
=============================================================================
