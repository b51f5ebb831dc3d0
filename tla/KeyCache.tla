------------------------------ MODULE KeyCache -------------------------------
(***************************************************************************)
(* The cache of decrypted provider credentials (internal/secrets/          *)
(* keycache.go) on every replica, over the credential store and the        *)
(* control bus, with the rotations of internal/server/admin_cp.go.         *)
(*                                                                         *)
(* KeyCache.Get is one flight per provider (singleflight: later callers    *)
(* join the flight and get its answer).  A flight is cut where its mutex   *)
(* is free, so rotations, purges and the clock run between its steps.  A   *)
(* credential is its version; a hit of a fresh entry changes nothing.      *)
(***************************************************************************)
EXTENDS ControlBus, FiniteSets

CONSTANTS Names,        \* providers, and tenant overrides (tenant-id/provider)
          Asked,        \* which replica is asked for which credential
          Family,       \* the names a purge of a provider covers
          TTLs, MaxTTL, \* lifetimes of a fresh entry: the TTL with its jitter
          StaleGrace,   \* how long an expired entry may stand in for a failed load
          LoadTimeout,  \* the longest a load takes
          MaxOps, MaxTime \* bounds on the operators' rotations and purges, and on time

ASSUME KeyCacheAssumption ==
  /\ Asked \subseteq Replicas \X Names
  /\ Family \in [Names -> SUBSET Names] /\ \A name \in Names : name \in Family[name]
  /\ MaxTTL \in Nat /\ TTLs \subseteq 0 .. MaxTTL /\ StaleGrace \in Nat /\ LoadTimeout \in Nat
  /\ MaxOps \in Nat /\ MaxTime \in Nat

VARIABLES now,
          commits,  \* when each version of a credential became the active one
          cache,    \* k.m
          epoch,    \* k.epoch
          caller,   \* whether a caller has missed and not yet come to its flight
          flight,   \* the load of a credential that is under way
          ops,      \* rotations and purges so far
          admin,    \* the rotation a replica's admin handler is working on
          purged    \* the active version when the replica last purged the name

cacheVars == <<cache, epoch, purged>>
getVars == <<caller, flight>>
adminVars == <<ops, admin>>
vars == <<now, commits, cacheVars, getVars, adminVars, inbox>>

\* The version that is active in the store.
Active(name) == Len(commits[name])

NoEntry == [ver |-> 0, expires |-> 0, stale |-> 0]
NoFlight == [st |-> "none", ep |-> 0, ver |-> 0, since |-> 0, floor |-> 0]
Idle == [st |-> "idle", name |-> {}]

Init ==
  /\ BusInit
  /\ now = 0 /\ ops = 0
  /\ commits = [name \in Names |-> <<0>>]
  /\ cache = [r \in Replicas |-> [name \in Names |-> NoEntry]]
  /\ epoch = [r \in Replicas |-> 0]
  /\ caller = [r \in Replicas |-> [name \in Names |-> FALSE]]
  /\ flight = [r \in Replicas |-> [name \in Names |-> NoFlight]]
  /\ admin = [r \in Replicas |-> Idle]
  /\ purged = [r \in Replicas |-> [name \in Names |-> 0]]

----------------------------------------------------------------------------
\* Get and its second check inside the flight.
Fresh(e) == e.ver # 0 /\ now < e.expires

\* Mutant of Graced: the grace never ends.
GracedForever(e) == e.ver # 0

\* The stale grace.
Graced(e) == e.ver # 0 /\ now < e.stale

\* A caller finds no fresh entry.
Miss(r, name) ==
  /\ <<r, name>> \in Asked /\ ~Fresh(cache[r][name]) /\ ~caller[r][name]
  /\ caller' = [caller EXCEPT ![r][name] = TRUE]
  /\ UNCHANGED <<now, commits, cacheVars, flight, adminVars, inbox>>

\* singleflight.Do: the caller starts a flight, or joins the one under way.
Begin(r, name) ==
  /\ caller[r][name]
  /\ caller' = [caller EXCEPT ![r][name] = FALSE]
  /\ flight' = IF flight[r][name].st # "none" THEN flight
               ELSE [flight EXCEPT ![r][name] = [NoFlight EXCEPT !.st = "begun", !.floor = purged[r][name]]]
  /\ UNCHANGED <<now, commits, cacheVars, adminVars, inbox>>

\* The second check: an entry that another flight stored meanwhile is the answer.
Check(r, name) ==
  /\ flight[r][name].st = "begun"
  /\ flight' = [flight EXCEPT ![r][name] =
                  IF Fresh(cache[r][name]) THEN NoFlight ELSE [@ EXCEPT !.st = "missed"]]
  /\ UNCHANGED <<now, commits, cacheVars, caller, adminVars, inbox>>

\* loadEpoch is read before the store is.
ReadEpoch(r, name) ==
  /\ flight[r][name].st = "missed"
  /\ flight' = [flight EXCEPT ![r][name] = [@ EXCEPT !.st = "loading", !.ep = epoch[r], !.since = now]]
  /\ UNCHANGED <<now, commits, cacheVars, caller, adminVars, inbox>>

\* The store answers and the credential is opened, or one of the two fails.
Load(r, name) ==
  /\ flight[r][name].st = "loading"
  /\ \/ flight' = [flight EXCEPT ![r][name] = [@ EXCEPT !.st = "loaded", !.ver = Active(name)]]
     \/ flight' = [flight EXCEPT ![r][name] = [@ EXCEPT !.st = "failed"]]
  /\ UNCHANGED <<now, commits, cacheVars, caller, adminVars, inbox>>

\* Mutant of Keeps: no epoch.
KeepsAlways(r, f) == TRUE

\* A load is kept unless the cache was purged since it began.
Keeps(r, f) == epoch[r] = f.ep

\* The answer of a load is its version; it is cached for a jittered TTL.
Answer(r, name) ==
  /\ flight[r][name].st = "loaded"
  /\ \E ttl \in TTLs :
       cache' = IF Keeps(r, flight[r][name])
                THEN [cache EXCEPT ![r][name] = [ver |-> flight[r][name].ver, expires |-> now + ttl,
                                                 stale |-> now + ttl + StaleGrace]]
                ELSE cache
  /\ flight' = [flight EXCEPT ![r][name] = NoFlight]
  /\ UNCHANGED <<now, commits, epoch, purged, caller, adminVars, inbox>>

\* The answer of a failed load is an entry within its grace, or the error.
Fallback(r, name) ==
  /\ flight[r][name].st = "failed"
  /\ flight' = [flight EXCEPT ![r][name] = NoFlight]
  /\ UNCHANGED <<now, commits, cacheVars, caller, adminVars, inbox>>

----------------------------------------------------------------------------
\* Purge and PurgeProvider: the epoch moves, and the names are dropped.
Purge(r, names) ==
  /\ epoch' = [epoch EXCEPT ![r] = @ + 1]
  /\ cache' = [cache EXCEPT ![r] = [name \in Names |-> IF name \in names THEN NoEntry ELSE @[name]]]
  /\ purged' = [purged EXCEPT ![r] = [name \in Names |-> IF name \in names THEN Active(name) ELSE @[name]]]

\* PutCredential: the next version becomes the active one.
Put(name) ==
  /\ ops < MaxOps /\ ops' = ops + 1
  /\ commits' = [commits EXCEPT ![name] = Append(@, now)]

\* handleSetCredential: the new version is committed, ...
SetCredential(r, name) ==
  /\ admin[r] = Idle
  /\ Put(name)
  /\ admin' = [admin EXCEPT ![r] = [st |-> "committed", name |-> {name}]]
  /\ UNCHANGED <<now, cacheVars, getVars, inbox>>

\* ... this replica's cache is purged, ...
PurgeLocal(r) ==
  /\ admin[r].st = "committed"
  /\ Purge(r, UNION {Family[name] : name \in admin[r].name})
  /\ admin' = [admin EXCEPT ![r].st = "purged"]
  /\ UNCHANGED <<now, commits, getVars, ops, inbox>>

\* ... and the other replicas are told, unless Redis fails.
Invalidate(r) ==
  /\ admin[r].st = "purged"
  /\ Publish([op |-> "credential_invalidated", sender |-> r, name |-> admin[r].name])
  /\ admin' = [admin EXCEPT ![r] = Idle]
  /\ UNCHANGED <<now, commits, cacheVars, getVars, ops>>

\* proofgatectl provider-key set writes to the store and tells nobody.
ProviderKeySet(name) == Put(name) /\ UNCHANGED <<now, cacheVars, getVars, admin, inbox>>

\* POST /admin/secrets/purge: the local purge, then the event with the handler's next
\* step.
PurgeSecrets(r) ==
  /\ admin[r] = Idle /\ ops < MaxOps /\ ops' = ops + 1
  /\ Purge(r, Names)
  /\ admin' = [admin EXCEPT ![r] = [st |-> "purgedAll", name |-> {}]]
  /\ UNCHANGED <<now, commits, getVars, inbox>>

AnnouncePurge(r) ==
  /\ admin[r].st = "purgedAll"
  /\ Publish([op |-> "purge_secrets", sender |-> r, name |-> {}])
  /\ admin' = [admin EXCEPT ![r] = Idle]
  /\ UNCHANGED <<now, commits, cacheVars, getVars, ops>>

\* Dispatch: a rotation is applied by every replica, a purge not by its sender.
Dispatch(r) ==
  /\ Take(r)
  /\ LET e == Head(inbox[r])
     IN  \/ e.op = "credential_invalidated" /\ Purge(r, UNION {Family[name] : name \in e.name})
         \/ e.op = "purge_secrets" /\ e.sender # r /\ Purge(r, Names)
         \/ e.op = "purge_secrets" /\ e.sender = r /\ UNCHANGED cacheVars
  /\ UNCHANGED <<now, commits, getVars, adminVars>>

\* Time passes; a load is over within its timeout.
Tick ==
  /\ now < MaxTime
  /\ \A r \in Replicas, name \in Names :
       flight[r][name].st \in {"loading", "loaded", "failed"} => now < flight[r][name].since + LoadTimeout
  /\ now' = now + 1
  /\ UNCHANGED <<commits, cacheVars, getVars, adminVars, inbox>>

Next ==
  \/ \E r \in Replicas, name \in Names :
       \/ Miss(r, name) \/ Begin(r, name) \/ Check(r, name) \/ ReadEpoch(r, name) \/ Load(r, name)
       \/ Answer(r, name) \/ Fallback(r, name) \/ SetCredential(r, name)
  \/ \E r \in Replicas :
       \/ PurgeLocal(r) \/ Invalidate(r) \/ PurgeSecrets(r) \/ AnnouncePurge(r) \/ Dispatch(r)
  \/ \E name \in Names : ProviderKeySet(name)
  \/ Tick

Spec == Init /\ [][Next]_vars

----------------------------------------------------------------------------
\* The versions that a Get of the name may return in this state: a hit, the answer of a
\* load, and an entry that stands in for a failed one.
Answers(r, name) ==
  LET e == cache[r][name] f == flight[r][name]
  IN  (IF Fresh(e) \/ (f.st = "failed" /\ Graced(e)) THEN {e.ver} ELSE {})
      \cup (IF f.st = "loaded" THEN {f.ver} ELSE {})

\* The types of the variables; a version is one that has been committed.
TypeOK ==
  /\ now \in Nat /\ ops \in Nat
  /\ commits \in [Names -> Seq(Nat)]
  /\ cache \in [Replicas -> [Names -> [ver : Nat, expires : Nat, stale : Nat]]]
  /\ epoch \in [Replicas -> Nat]
  /\ caller \in [Replicas -> [Names -> BOOLEAN]]
  /\ flight \in [Replicas -> [Names -> [st : {"none", "begun", "missed", "loading", "loaded", "failed"},
                                        ep : Nat, ver : Nat, since : Nat, floor : Nat]]]
  /\ admin \in [Replicas -> [st : {"idle", "committed", "purged", "purgedAll"}, name : SUBSET Names]]
  /\ purged \in [Replicas -> [Names -> Nat]]
  /\ inbox \in [Replicas -> Seq([op : {"credential_invalidated", "purge_secrets"}, sender : Replicas,
                                 name : SUBSET Names])]
  /\ \A r \in Replicas, name \in Names :
       cache[r][name].ver <= Active(name) /\ flight[r][name].ver <= Active(name)

\* PurgeProvider ("invalidates a concurrent refresh so it cannot repopulate the old
\* credential") and handleSetCredential ("this replica is safe"): once a replica has
\* purged a credential, its cache never again holds a version older than the one active
\* then, and no flight that begins later answers with one, not even in the stale grace.
PurgedStaysPurged ==
  \A r \in Replicas, name \in Names :
    /\ cache[r][name].ver # 0 => cache[r][name].ver >= purged[r][name]
    /\ flight[r][name].st \in {"loaded", "failed"} =>
         \A v \in Answers(r, name) : v >= flight[r][name].floor

\* Get: whatever events are lost and however long the store is down, a replaced
\* credential is answered for one load, one TTL and one grace period at most.
ServedRecently ==
  \A r \in Replicas, name \in Names : \A v \in Answers(r, name) :
    v = Active(name) \/ now <= commits[name][v + 1] + LoadTimeout + MaxTTL + StaleGrace

=============================================================================
