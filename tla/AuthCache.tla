------------------------------ MODULE AuthCache ------------------------------
(***************************************************************************)
(* API-key authentication (internal/auth/middleware.go and lru.go) on      *)
(* every replica: the positive and the negative cache over the key store,  *)
(* and their invalidation by revocations and erasures                      *)
(* (internal/server/admin_cp.go, proofgatectl) through the control bus.    *)
(*                                                                         *)
(* A lookup is one flight per key (singleflight), cut where other          *)
(* goroutines run.  The limiter of failed attempts only refuses requests   *)
(* that miss the positive cache, so it is left out, and so is what a       *)
(* Principal holds besides its tenant.                                     *)
(***************************************************************************)
EXTENDS ControlBus, Integers, FiniteSets

CONSTANTS Keys,
          Tenants, Owner, \* the tenant of each key
          Asked,          \* which replica is sent which key
          Capacity,       \* entries the positive cache holds
          PosTTL, NegTTL, LookupTimeout,
          MaxOps, MaxTime \* bounds on the operators' commands, and on time

ASSUME AuthCacheAssumption ==
  /\ Owner \in [Keys -> Tenants]
  /\ Asked \subseteq Replicas \X Keys
  /\ Capacity \in Nat \ {0}
  /\ PosTTL \in Nat \ {0} /\ NegTTL \in Nat \ {0} /\ LookupTimeout \in Nat
  /\ MaxOps \in Nat /\ MaxTime \in Nat
  /\ "proofgatectl" \notin Replicas
  /\ IsFiniteSet(Keys)

\* Where an operator's command runs: in a replica's admin API, or in the CLI.
Hosts == Replicas \cup {"proofgatectl"}

VARIABLES now,
          life,     \* of each key: its stage and when the stage began
          pos, neg, \* posCache and negCache: when the entry expires, or None
          caller,   \* whether a request has missed and not yet come to its flight
          flight,   \* the lookup of a key that is under way
          ops,      \* commands so far
          admin,    \* the revocation or erasure a host is working on
          evicted,  \* keys a replica has evicted since their end
          crossed   \* those of them whose live record a lookup had in hand then

cacheVars == <<pos, neg>>
getVars == <<caller, flight>>
ghosts == <<evicted, crossed>>
adminVars == <<ops, admin>>
vars == <<now, life, cacheVars, getVars, adminVars, inbox, ghosts>>

None == -1

NoFlight == [st |-> "none", since |-> 0]
Idle == [st |-> "idle", op |-> "none", keys |-> {}]

Init ==
  /\ BusInit
  /\ now = 0 /\ ops = 0
  /\ life \in [Keys -> [stage : {"absent", "live"}, at : {0}]]
  /\ pos = [r \in Replicas |-> [k \in Keys |-> None]]
  /\ neg = [r \in Replicas |-> [k \in Keys |-> None]]
  /\ caller = [r \in Replicas |-> [k \in Keys |-> FALSE]]
  /\ flight = [r \in Replicas |-> [k \in Keys |-> NoFlight]]
  /\ admin = [h \in Hosts |-> Idle]
  /\ evicted = [r \in Replicas |-> {}] /\ crossed = [r \in Replicas |-> {}]

----------------------------------------------------------------------------
\* LRUCache.Get: an entry is good up to and including its expiry.
Hit(e) == e # None /\ now <= e

\* LRUCache.Get drops an expired entry.
AfterGet(e) == IF Hit(e) THEN e ELSE None

\* Handler and resolve: the key is in neither cache.
Miss(r, k) ==
  /\ <<r, k>> \in Asked /\ ~caller[r][k]
  /\ ~Hit(pos[r][k]) /\ ~Hit(neg[r][k])
  /\ caller' = [caller EXCEPT ![r][k] = TRUE]
  /\ pos' = [pos EXCEPT ![r][k] = None] /\ neg' = [neg EXCEPT ![r][k] = None]
  /\ UNCHANGED <<now, life, flight, adminVars, inbox, ghosts>>

\* singleflight.Do: the request starts a lookup, or joins the one under way.
Begin(r, k) ==
  /\ caller[r][k]
  /\ caller' = [caller EXCEPT ![r][k] = FALSE]
  /\ flight' = IF flight[r][k].st # "none" THEN flight ELSE [flight EXCEPT ![r][k].st = "begun"]
  /\ UNCHANGED <<now, life, cacheVars, adminVars, inbox, ghosts>>

\* The second check inside the flight; the lookup's timeout starts.
Check(r, k) ==
  /\ flight[r][k].st = "begun"
  /\ pos' = [pos EXCEPT ![r][k] = AfterGet(@)]
  /\ neg' = IF Hit(pos[r][k]) THEN neg ELSE [neg EXCEPT ![r][k] = AfterGet(@)]
  /\ flight' = [flight EXCEPT ![r][k] = IF Hit(pos[r][k]) \/ Hit(neg[r][k]) THEN NoFlight
                                        ELSE [st |-> "looking", since |-> now]]
  /\ UNCHANGED <<now, life, caller, adminVars, inbox, ghosts>>

\* KeyByHash: the record of a live key, ErrNotFound, or another error.
Lookup(r, k) ==
  /\ flight[r][k].st = "looking"
  /\ \/ flight' = [flight EXCEPT ![r][k].st = IF life[k].stage = "live" THEN "found" ELSE "unknown"]
     \/ flight' = [flight EXCEPT ![r][k] = NoFlight]
  /\ UNCHANGED <<now, life, cacheVars, caller, adminVars, inbox, ghosts>>

\* Mutant of Expiry: entries do not expire.
NeverExpires(ttl) == MaxTime + ttl

\* LRUCache.Set: when the entry expires.
Expiry(ttl) == now + ttl

\* LRUCache.Set of the positive cache: a new entry in a full cache takes the place of
\* another one.  Which one was used last is left open.
AfterSet(cached, k) ==
  LET others == {o \in Keys \ {k} : cached[o] # None}
  IN  IF cached[k] # None \/ Cardinality(others) < Capacity
      THEN {[cached EXCEPT ![k] = Expiry(PosTTL)]}
      ELSE {[cached EXCEPT ![k] = Expiry(PosTTL), ![o] = None] : o \in others}

\* The lookup's answer is cached, and given to all requests that wait for it.
Accept(r, k) ==
  /\ flight[r][k].st = "found"
  /\ \E after \in AfterSet(pos[r], k) : pos' = [pos EXCEPT ![r] = after]
  /\ flight' = [flight EXCEPT ![r][k] = NoFlight]
  /\ UNCHANGED <<now, life, neg, caller, adminVars, inbox, ghosts>>

Refuse(r, k) ==
  /\ flight[r][k].st = "unknown"
  /\ neg' = [neg EXCEPT ![r][k] = Expiry(NegTTL)]
  /\ flight' = [flight EXCEPT ![r][k] = NoFlight]
  /\ UNCHANGED <<now, life, pos, caller, adminVars, inbox, ghosts>>

----------------------------------------------------------------------------
CreateKey(k) ==
  /\ life[k].stage = "absent"
  /\ life' = [life EXCEPT ![k] = [stage |-> "live", at |-> now]]
  /\ UNCHANGED <<now, cacheVars, getVars, adminVars, inbox, ghosts>>

Ended(keys) ==
  [k \in Keys |-> IF k \in keys /\ life[k].stage = "live" THEN [stage |-> "ended", at |-> now] ELSE life[k]]

\* A host starts on a command; only a replica has entries of its own to evict.
Command(h, op, keys) ==
  /\ admin[h] = Idle /\ ops < MaxOps /\ ops' = ops + 1
  /\ admin' = [admin EXCEPT ![h] = [st |-> IF h \in Replicas THEN "stored" ELSE "evicted",
                                    op |-> op, keys |-> keys]]
  /\ UNCHANGED <<now, cacheVars, getVars, inbox, ghosts>>

\* RevokeKeyWithHash: a key that is not alive ends the command.
RevokeKey(h, k) ==
  /\ life[k].stage = "live" /\ life' = Ended({k})
  /\ Command(h, "key_revoked", {k})

OwnedBy(t) == {k \in Keys : Owner[k] = t}

\* EraseTenantRecords; if the store fails, the command goes on with the caches.
EraseTenant(h, t) ==
  /\ life' = Ended(OwnedBy(t)) \/ life' = life
  /\ Command(h, "tenant_erased", OwnedBy(t))

\* Mutant of Evict: the digest of the event is not decoded, and matches no entry.
EvictHexOnly(r, op, keys) ==
  /\ UNCHANGED cacheVars
  /\ evicted' = [evicted EXCEPT ![r] = @ \cup {k \in keys : life[k].stage = "ended"}]
  /\ UNCHANGED crossed

\* EvictKey, of both caches; EvictTenant, of the positive one.
Evict(r, op, keys) ==
  /\ pos' = [pos EXCEPT ![r] = [k \in Keys |-> IF k \in keys THEN None ELSE @[k]]]
  /\ neg' = IF op = "tenant_erased" THEN neg
            ELSE [neg EXCEPT ![r] = [k \in Keys |-> IF k \in keys THEN None ELSE @[k]]]
  /\ evicted' = [evicted EXCEPT ![r] = @ \cup {k \in keys : life[k].stage = "ended"}]
  /\ crossed' = [crossed EXCEPT ![r] = @ \cup {k \in keys : life[k].stage = "ended" /\ flight[r][k].st = "found"}]

\* The admin API evicts its own replica's entries, ...
EvictLocal(r) ==
  /\ admin[r].st = "stored"
  /\ Evict(r, admin[r].op, admin[r].keys)
  /\ admin' = [admin EXCEPT ![r].st = "evicted"]
  /\ UNCHANGED <<now, life, getVars, ops, inbox>>

\* ... and, like the CLI, tells the others, unless Redis fails.
Announce(h) ==
  /\ admin[h].st = "evicted"
  /\ Publish([op |-> admin[h].op, keys |-> admin[h].keys])
  /\ admin' = [admin EXCEPT ![h] = Idle]
  /\ UNCHANGED <<now, life, cacheVars, getVars, ops, ghosts>>

\* The handlers of SubscribeControl.
Dispatch(r) ==
  /\ Take(r)
  /\ Evict(r, Head(inbox[r]).op, Head(inbox[r]).keys)
  /\ UNCHANGED <<now, life, getVars, adminVars>>

\* Time passes; a lookup is over within its timeout.
Tick ==
  /\ now < MaxTime
  /\ \A r \in Replicas, k \in Keys :
       flight[r][k].st \in {"looking", "found", "unknown"} => now < flight[r][k].since + LookupTimeout
  /\ now' = now + 1
  /\ UNCHANGED <<life, cacheVars, getVars, adminVars, inbox, ghosts>>

Next ==
  \/ \E r \in Replicas, k \in Keys :
       \/ Miss(r, k) \/ Begin(r, k) \/ Check(r, k) \/ Lookup(r, k) \/ Accept(r, k) \/ Refuse(r, k)
  \/ \E k \in Keys : CreateKey(k)
  \/ \E h \in Hosts :
       \/ \E k \in Keys : RevokeKey(h, k)
       \/ \E t \in Tenants : EraseTenant(h, t)
       \/ Announce(h)
  \/ \E r \in Replicas : EvictLocal(r) \/ Dispatch(r)
  \/ Tick

Spec == Init /\ [][Next]_vars

----------------------------------------------------------------------------
\* A request with the key may be let in, or turned away, in this state.
LetsIn(r, k) == Hit(pos[r][k]) \/ flight[r][k].st = "found"

TurnsAway(r, k) == (~Hit(pos[r][k]) /\ Hit(neg[r][k])) \/ flight[r][k].st = "unknown"

\* The types of the variables; the positive cache keeps its capacity.
TypeOK ==
  /\ now \in Nat /\ ops \in Nat
  /\ life \in [Keys -> [stage : {"absent", "live", "ended"}, at : Nat]]
  /\ pos \in [Replicas -> [Keys -> Nat \cup {None}]]
  /\ neg \in [Replicas -> [Keys -> Nat \cup {None}]]
  /\ caller \in [Replicas -> [Keys -> BOOLEAN]]
  /\ flight \in [Replicas -> [Keys -> [st : {"none", "begun", "looking", "found", "unknown"}, since : Nat]]]
  /\ admin \in [Hosts -> [st : {"idle", "stored", "evicted"}, op : {"none", "key_revoked", "tenant_erased"},
                          keys : SUBSET Keys]]
  /\ inbox \in [Replicas -> Seq([op : {"key_revoked", "tenant_erased"}, keys : SUBSET Keys])]
  /\ evicted \in [Replicas -> SUBSET Keys] /\ crossed \in [Replicas -> SUBSET Keys]
  /\ \A r \in Replicas : Cardinality({k \in Keys : pos[r][k] # None}) <= Capacity

\* Middleware: with every event lost, a revoked or erased key is let in for one lookup and
\* one TTL at most after its end, and a new key turned away for one lookup and one
\* negative TTL at most after its creation.
AnswersRecent ==
  \A r \in Replicas, k \in Keys :
    /\ (life[k].stage = "ended" /\ LetsIn(r, k)) => now <= life[k].at + LookupTimeout + PosTTL
    /\ (life[k].stage = "live" /\ TurnsAway(r, k)) => now <= life[k].at + LookupTimeout + NegTTL

\* EvictKey and EvictTenant: a key that a replica has evicted after its end is not let in
\* again, unless a lookup that had read it alive was under way at that moment.
EvictedUnlessCrossed ==
  TypeOK /\ \A r \in Replicas : \A k \in evicted[r] \ crossed[r] : ~LetsIn(r, k)

\* docs/admin-cli.md: revoking a key "publishes a digest-only invalidation event so every
\* gateway replica evicts its positive authentication cache immediately": a key that a
\* replica has evicted after its end is not in its positive cache.
EvictedAtOnce == \A r \in Replicas : \A k \in evicted[r] : ~Hit(pos[r][k])

=============================================================================
