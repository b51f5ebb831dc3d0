--------------------------- MODULE KeyCacheProofs ----------------------------
(***************************************************************************)
(* The credential cache for any number of replicas, providers, rotations   *)
(* and purges, any lifetimes, and any loss of events.                      *)
(***************************************************************************)
EXTENDS KeyCache, TLAPS

\* A version that was replaced by the time t at the earliest.
AliveAt(name, v, t) == v < Active(name) => t <= commits[name][v + 1]

\* The commits of a credential are in the past, and there is a first one.
CommitsPast ==
  \A name \in Names :
    /\ Active(name) >= 1
    /\ \A i \in 1 .. Active(name) : commits[name][i] <= now

\* An entry is not older than the last purge, and ends in time after its replacement.
EntrySound(r, name) ==
  LET e == cache[r][name]
  IN  /\ purged[r][name] <= Active(name)
      /\ e.ver # 0 => e.ver >= purged[r][name]
      /\ e.expires <= e.stale /\ e.stale <= now + MaxTTL + StaleGrace
      /\ (e.ver # 0 /\ e.ver < Active(name))
           => e.stale <= commits[name][e.ver + 1] + LoadTimeout + MaxTTL + StaleGrace

EntryRec == [ver : Nat, expires : Nat, stale : Nat]

AdminRec == [st : {"idle", "committed", "purged", "purgedAll"}, name : SUBSET Names]

EventRec == [op : {"credential_invalidated", "purge_secrets"}, sender : Replicas, name : SUBSET Names]

FlightRec == [st : {"none", "begun", "missed", "loading", "loaded", "failed"},
              ep : Nat, ver : Nat, since : Nat, floor : Nat]

\* A load read the store after its epoch, so if the epoch has not moved it is not older
\* than the last purge; it is in its time.
FlightOK(r, name, f) ==
  /\ f.floor <= purged[r][name] /\ f.ep <= epoch[r]
  /\ f.st \in {"loading", "loaded", "failed"} => f.since <= now /\ now <= f.since + LoadTimeout
  /\ f.st = "loaded" => /\ f.ver >= f.floor
                        /\ f.ep = epoch[r] => f.ver >= purged[r][name]
                        /\ AliveAt(name, f.ver, f.since)

FlightSound(r, name) == FlightOK(r, name, flight[r][name])

\* The inductive invariant.
IInv ==
  /\ TypeOK
  /\ CommitsPast
  /\ \A r \in Replicas, name \in Names : EntrySound(r, name) /\ FlightSound(r, name)

----------------------------------------------------------------------------
\* The initial state satisfies the invariant.
LEMMA InitSound == Init => IInv
<1> SUFFICES ASSUME Init PROVE IInv
  OBVIOUS
<1> USE DEF Init
<1>1. commits \in [Names -> Seq(Nat)]
      /\ \A name \in Names : Active(name) = 1 /\ commits[name][1] = 0
  BY DEF Active
<1>2. inbox \in [Replicas -> Seq([op : {"credential_invalidated", "purge_secrets"}, sender : Replicas,
                                 name : SUBSET Names])]
  BY DEF BusInit
<1>3. TypeOK
  <2>1. cache \in [Replicas -> [Names -> [ver : Nat, expires : Nat, stale : Nat]]]
    BY DEF NoEntry
  <2>2. flight \in [Replicas -> [Names -> [st : {"none", "begun", "missed", "loading", "loaded", "failed"},
                                          ep : Nat, ver : Nat, since : Nat, floor : Nat]]]
    BY DEF NoFlight
  <2>3. admin \in [Replicas -> [st : {"idle", "committed", "purged", "purgedAll"}, name : SUBSET Names]]
    BY DEF Idle
  <2>4. \A r \in Replicas, name \in Names :
          cache[r][name].ver <= Active(name) /\ flight[r][name].ver <= Active(name)
    BY <1>1 DEF NoEntry, NoFlight
  <2> QED BY <1>1, <1>2, <2>1, <2>2, <2>3, <2>4 DEF TypeOK
<1>4. CommitsPast
  BY <1>1 DEF CommitsPast
<1>5. \A r \in Replicas, name \in Names : EntrySound(r, name) /\ FlightSound(r, name)
  BY <1>1, KeyCacheAssumption DEF EntrySound, FlightSound, FlightOK, NoEntry, NoFlight
<1> QED BY <1>3, <1>4, <1>5 DEF IInv

\* Steps that leave the cache and the store alone only have to keep one flight sound.
LEMMA FlightStep ==
  ASSUME IInv, NEW r \in Replicas, NEW name \in Names, NEW f \in FlightRec,
         flight' = [flight EXCEPT ![r][name] = f],
         f.ver <= Active(name), caller' \in [Replicas -> [Names -> BOOLEAN]],
         UNCHANGED <<now, commits, cacheVars, adminVars, inbox>>,
         FlightOK(r, name, f)
  PROVE  IInv'
<1>1. TypeOK /\ CommitsPast
  BY DEF IInv
<1>2. /\ \A n \in Names : Active(n)' = Active(n)
      /\ commits' = commits /\ cache' = cache /\ epoch' = epoch /\ purged' = purged /\ ops' = ops
      /\ admin' = admin /\ inbox' = inbox /\ now' = now
  BY DEF Active, cacheVars, adminVars
<1>3. /\ flight' \in [Replicas -> [Names -> FlightRec]]
      /\ \A q \in Replicas, n \in Names :
           flight'[q][n] = IF q = r /\ n = name THEN f ELSE flight[q][n]
  BY <1>1 DEF TypeOK, FlightRec
<1>5. TypeOK'
  <2>1. ASSUME NEW q \in Replicas, NEW n \in Names
        PROVE  cache'[q][n].ver <= Active(n)' /\ flight'[q][n].ver <= Active(n)'
    <3>1. cache[q][n].ver <= Active(n) /\ flight[q][n].ver <= Active(n)
      BY <1>1 DEF TypeOK
    <3>2. (flight'[q][n] = f /\ n = name) \/ flight'[q][n] = flight[q][n]
      BY <1>3
    <3> QED BY <1>2, <3>1, <3>2
  <2> QED BY <1>1, <1>2, <1>3, <2>1 DEF TypeOK, FlightRec
<1>6. CommitsPast'
  BY <1>1, <1>2 DEF CommitsPast
<1>7. ASSUME NEW q \in Replicas, NEW n \in Names PROVE (EntrySound(q, n) /\ FlightSound(q, n))'
  <2>1. EntrySound(q, n) /\ FlightSound(q, n)
    BY DEF IInv
  <2>2. EntrySound(q, n)'
    BY <2>1, <1>2 DEF EntrySound
  <2>3. FlightSound(q, n)'
    <3>1. (flight'[q][n] = f /\ n = name /\ q = r) \/ flight'[q][n] = flight[q][n]
      BY <1>3
    <3> QED BY <2>1, <1>2, <3>1 DEF FlightSound, FlightOK, AliveAt
  <2> QED BY <2>2, <2>3
<1> QED BY <1>5, <1>6, <1>7 DEF IInv

\* The steps of Get before its answer.
LEMMA GetStep ==
  ASSUME IInv, NEW r \in Replicas, NEW name \in Names,
         \/ Miss(r, name) \/ Begin(r, name) \/ Check(r, name) \/ ReadEpoch(r, name)
         \/ Load(r, name) \/ Fallback(r, name)
  PROVE  IInv'
<1> DEFINE f0 == flight[r][name]
<1>1. /\ TypeOK /\ CommitsPast /\ EntrySound(r, name) /\ FlightSound(r, name)
      /\ f0 \in FlightRec /\ f0.ver <= Active(name) /\ FlightOK(r, name, f0)
      /\ Active(name) \in Nat /\ commits[name] \in Seq(Nat) /\ purged[r][name] \in Nat
      /\ purged[r][name] <= Active(name) /\ epoch[r] \in Nat /\ now \in Nat
      /\ flight = [flight EXCEPT ![r][name] = f0]
  <2>1. TypeOK /\ CommitsPast /\ EntrySound(r, name) /\ FlightSound(r, name)
    BY DEF IInv
  <2>2. /\ f0 \in FlightRec /\ f0.ver <= Active(name)
        /\ commits[name] \in Seq(Nat) /\ purged[r][name] \in Nat /\ epoch[r] \in Nat /\ now \in Nat
    BY <2>1 DEF TypeOK, FlightRec
  <2>3. flight = [flight EXCEPT ![r][name] = f0]
    BY <2>1 DEF TypeOK
  <2> QED BY <2>1, <2>2, <2>3 DEF FlightSound, EntrySound, Active
<1>2. NoFlight \in FlightRec /\ NoFlight.ver <= Active(name) /\ FlightOK(r, name, NoFlight)
  BY <1>1 DEF NoFlight, FlightRec, FlightOK
<1>3. CASE Miss(r, name)
  <2>1. caller' \in [Replicas -> [Names -> BOOLEAN]] /\ flight' = [flight EXCEPT ![r][name] = f0]
    BY <1>1, <1>3 DEF Miss, TypeOK
  <2> QED BY <1>1, <1>3, <2>1, FlightStep DEF Miss
<1>4. CASE Begin(r, name)
  <2> DEFINE f == [NoFlight EXCEPT !.st = "begun", !.floor = purged[r][name]]
  <2>1. caller' \in [Replicas -> [Names -> BOOLEAN]]
    BY <1>1, <1>4 DEF Begin, TypeOK
  <2>2. f \in FlightRec /\ f.ver <= Active(name) /\ FlightOK(r, name, f)
    <3>1. /\ f \in FlightRec /\ f.st = "begun" /\ f.ep = 0 /\ f.ver = 0
          /\ f.floor = purged[r][name]
      BY <1>1 DEF NoFlight, FlightRec
    <3> HIDE DEF f
    <3> QED BY <1>1, <3>1 DEF FlightRec, FlightOK
  <2>3. CASE f0.st # "none"
    <3>1. flight' = [flight EXCEPT ![r][name] = f0]
      BY <1>1, <1>4, <2>3 DEF Begin
    <3> QED BY <1>1, <1>4, <2>1, <3>1, FlightStep DEF Begin
  <2>4. CASE f0.st = "none"
    <3>1. flight' = [flight EXCEPT ![r][name] = f]
      BY <1>4, <2>4 DEF Begin
    <3> HIDE DEF f
    <3> QED BY <1>4, <2>1, <2>2, <3>1, FlightStep DEF Begin
  <2> QED BY <2>3, <2>4
<1>5. CASE Check(r, name)
  <2> DEFINE f == [f0 EXCEPT !.st = "missed"]
  <2>1. caller' \in [Replicas -> [Names -> BOOLEAN]]
    BY <1>1, <1>5 DEF Check, TypeOK
  <2>2. f \in FlightRec /\ f.ver <= Active(name) /\ FlightOK(r, name, f)
    BY <1>1 DEF FlightRec, FlightOK
  <2>3. flight' = [flight EXCEPT ![r][name] = NoFlight] \/ flight' = [flight EXCEPT ![r][name] = f]
    BY <1>5 DEF Check
  <2> HIDE DEF f
  <2> QED BY <1>2, <1>5, <2>1, <2>2, <2>3, FlightStep DEF Check
<1>6. CASE ReadEpoch(r, name)
  <2> DEFINE f == [f0 EXCEPT !.st = "loading", !.ep = epoch[r], !.since = now]
  <2>1. caller' \in [Replicas -> [Names -> BOOLEAN]]
    BY <1>1, <1>6 DEF ReadEpoch, TypeOK
  <2>2. f \in FlightRec /\ f.ver <= Active(name) /\ FlightOK(r, name, f)
    <3>1. /\ f \in FlightRec /\ f.st = "loading" /\ f.ep = epoch[r] /\ f.since = now
          /\ f.floor = f0.floor /\ f.ver = f0.ver
      BY <1>1 DEF FlightRec
    <3> HIDE DEF f
    <3> QED BY <1>1, <3>1, KeyCacheAssumption DEF FlightOK
  <2>3. flight' = [flight EXCEPT ![r][name] = f]
    BY <1>6 DEF ReadEpoch
  <2> HIDE DEF f
  <2> QED BY <1>6, <2>1, <2>2, <2>3, FlightStep DEF ReadEpoch
<1>7. CASE Load(r, name)
  <2> DEFINE f == [f0 EXCEPT !.st = "loaded", !.ver = Active(name)]
             g == [f0 EXCEPT !.st = "failed"]
  <2>1. caller' \in [Replicas -> [Names -> BOOLEAN]] /\ f0.st = "loading"
    BY <1>1, <1>7 DEF Load, TypeOK
  <2>2. f \in FlightRec /\ f.ver <= Active(name) /\ FlightOK(r, name, f)
    <3>1. /\ f \in FlightRec /\ f.st = "loaded" /\ f.ep = f0.ep /\ f.since = f0.since
          /\ f.floor = f0.floor /\ f.ver = Active(name) /\ f0.floor \in Nat
      BY <1>1 DEF FlightRec
    <3> HIDE DEF f
    <3> QED BY <1>1, <2>1, <3>1 DEF FlightOK, AliveAt
  <2>3. g \in FlightRec /\ g.ver <= Active(name) /\ FlightOK(r, name, g)
    BY <1>1, <2>1 DEF FlightRec, FlightOK
  <2>4. flight' = [flight EXCEPT ![r][name] = f] \/ flight' = [flight EXCEPT ![r][name] = g]
    BY <1>7 DEF Load
  <2> HIDE DEF f, g
  <2> QED BY <1>7, <2>1, <2>2, <2>3, <2>4, FlightStep DEF Load
<1>8. CASE Fallback(r, name)
  <2>1. caller' \in [Replicas -> [Names -> BOOLEAN]]
    BY <1>1, <1>8 DEF Fallback, TypeOK
  <2> QED BY <1>2, <1>8, <2>1, FlightStep DEF Fallback
<1> QED BY <1>3, <1>4, <1>5, <1>6, <1>7, <1>8

\* The answer of a load: what it caches was alive when the load began, and that is at
\* most a timeout ago.
LEMMA AnswerStep ==
  ASSUME IInv, NEW r \in Replicas, NEW name \in Names, Answer(r, name)
  PROVE  IInv'
<1> DEFINE f0 == flight[r][name]
<1>1. TypeOK /\ CommitsPast /\ EntrySound(r, name) /\ FlightSound(r, name)
  BY DEF IInv
<1>2. /\ now' = now /\ commits' = commits /\ epoch' = epoch /\ purged' = purged /\ caller' = caller
      /\ ops' = ops /\ admin' = admin /\ inbox' = inbox
      /\ \A n \in Names : Active(n)' = Active(n)
  BY DEF Answer, adminVars, Active
<1>3. /\ f0 \in FlightRec /\ f0.st = "loaded" /\ f0.ver <= Active(name) /\ FlightOK(r, name, f0)
      /\ now \in Nat /\ epoch[r] \in Nat /\ purged[r][name] \in Nat
      /\ commits[name] \in Seq(Nat)
  BY <1>1 DEF Answer, TypeOK, FlightRec, FlightSound
<1>4. /\ flight' \in [Replicas -> [Names -> FlightRec]]
      /\ \A q \in Replicas, n \in Names :
           flight'[q][n] = IF q = r /\ n = name THEN NoFlight ELSE flight[q][n]
  <2>1. NoFlight \in FlightRec
    BY DEF NoFlight, FlightRec
  <2> QED BY <1>1, <2>1 DEF Answer, TypeOK, FlightRec
<1>5. PICK ttl \in TTLs :
        cache' = IF Keeps(r, f0)
                 THEN [cache EXCEPT ![r][name] = [ver |-> f0.ver, expires |-> now + ttl,
                                                  stale |-> now + ttl + StaleGrace]]
                 ELSE cache
  BY DEF Answer
<1> DEFINE e == [ver |-> f0.ver, expires |-> now + ttl, stale |-> now + ttl + StaleGrace]
<1>6. ttl \in Nat /\ ttl <= MaxTTL /\ MaxTTL \in Nat /\ StaleGrace \in Nat /\ LoadTimeout \in Nat
  BY KeyCacheAssumption
<1>7. e \in EntryRec /\ e.ver = f0.ver /\ e.expires = now + ttl /\ e.stale = now + ttl + StaleGrace
  BY <1>3, <1>6 DEF EntryRec, FlightRec
<1> HIDE DEF e
<1>8. /\ cache' \in [Replicas -> [Names -> EntryRec]]
      /\ \A q \in Replicas, n \in Names :
           cache'[q][n] = IF q = r /\ n = name /\ Keeps(r, f0) THEN e ELSE cache[q][n]
  <2>1. CASE Keeps(r, f0)
    <3>1. cache' = [cache EXCEPT ![r][name] = e]
      BY <1>5, <2>1 DEF e
    <3> QED BY <1>1, <1>7, <2>1, <3>1 DEF TypeOK, EntryRec
  <2>2. CASE ~Keeps(r, f0)
    <3>1. cache' = cache
      BY <1>5, <2>2
    <3> QED BY <1>1, <2>2, <3>1 DEF TypeOK, EntryRec
  <2> QED BY <2>1, <2>2
<1>9. TypeOK'
  <2>1. ASSUME NEW q \in Replicas, NEW n \in Names
        PROVE  cache'[q][n].ver <= Active(n)' /\ flight'[q][n].ver <= Active(n)'
    <3>1. cache[q][n].ver <= Active(n) /\ flight[q][n].ver <= Active(n) /\ Active(n) \in Nat
      BY <1>1 DEF TypeOK, Active
    <3>2. (cache'[q][n] = e /\ n = name) \/ cache'[q][n] = cache[q][n]
      BY <1>8
    <3>3. flight'[q][n] = NoFlight \/ flight'[q][n] = flight[q][n]
      BY <1>4
    <3> QED BY <1>2, <1>3, <1>7, <3>1, <3>2, <3>3 DEF NoFlight
  <2> QED BY <1>1, <1>2, <1>4, <1>8, <2>1 DEF TypeOK, FlightRec, EntryRec
<1>10. CommitsPast'
  BY <1>1, <1>2 DEF CommitsPast
<1>11. ASSUME NEW q \in Replicas, NEW n \in Names PROVE (EntrySound(q, n) /\ FlightSound(q, n))'
  <2>1. EntrySound(q, n) /\ FlightSound(q, n)
    BY DEF IInv
  <2>2. EntrySound(q, n)'
    <3>1. CASE q = r /\ n = name /\ Keeps(r, f0)
      <4>1. cache'[r][name] = e
        BY <1>8, <3>1
      <4>2. e.ver >= purged[r][name] /\ e.expires <= e.stale
            /\ e.stale <= now + MaxTTL + StaleGrace
        BY <1>3, <1>6, <1>7, <3>1 DEF FlightOK, Keeps, FlightRec
      <4>3. ASSUME e.ver < Active(name)
            PROVE  e.stale <= commits[name][e.ver + 1] + LoadTimeout + MaxTTL + StaleGrace
        <5> DEFINE c == commits[name][e.ver + 1]
        <5>1. f0.since \in Nat /\ now \in Nat /\ e.ver \in Nat
          BY <1>3, <1>7 DEF FlightRec, EntryRec
        <5>2. c \in Nat
          <6>1. e.ver + 1 \in 1 .. Len(commits[name])
            BY <1>3, <4>3, <5>1 DEF Active
          <6> QED BY <1>3, <6>1
        <5>3. f0.since <= c /\ now <= f0.since + LoadTimeout
          BY <1>3, <1>7, <4>3 DEF FlightOK, AliveAt
        <5>4. e.stale = now + ttl + StaleGrace
          BY <1>7
        <5> HIDE DEF c, f0
        <5>5. e.stale <= c + LoadTimeout + MaxTTL + StaleGrace
          BY <1>6, <5>1, <5>2, <5>3, <5>4
        <5> QED BY <5>5 DEF c
      <4> QED BY <1>2, <2>1, <3>1, <4>1, <4>2, <4>3 DEF EntrySound
    <3>2. CASE ~(q = r /\ n = name /\ Keeps(r, f0))
      <4>1. cache'[q][n] = cache[q][n]
        BY <1>8, <3>2
      <4> QED BY <1>2, <2>1, <4>1 DEF EntrySound
    <3> QED BY <3>1, <3>2
  <2>3. FlightSound(q, n)'
    <3>1. flight'[q][n] = NoFlight \/ flight'[q][n] = flight[q][n]
      BY <1>4
    <3>2. purged[q][n] \in Nat /\ epoch[q] \in Nat
      BY <1>1 DEF TypeOK
    <3> QED BY <1>2, <2>1, <3>1, <3>2 DEF FlightSound, FlightOK, AliveAt, NoFlight
  <2> QED BY <2>2, <2>3
<1> QED BY <1>9, <1>10, <1>11 DEF IInv

\* A purge moves the epoch on, so no load under way is kept.
LEMMA PurgeStep ==
  ASSUME IInv, NEW r \in Replicas, NEW names \in SUBSET Names, Purge(r, names),
         UNCHANGED <<now, commits, getVars>>,
         ops' \in Nat, admin' \in [Replicas -> AdminRec], inbox' \in [Replicas -> Seq(EventRec)]
  PROVE  IInv'
<1>1. TypeOK /\ CommitsPast
  BY DEF IInv
<1>2. /\ now' = now /\ commits' = commits /\ caller' = caller /\ flight' = flight
      /\ \A n \in Names : Active(n)' = Active(n) /\ Active(n) \in Nat
  BY <1>1 DEF getVars, Active, TypeOK
<1>3. /\ epoch' \in [Replicas -> Nat]
      /\ \A q \in Replicas : epoch'[q] = IF q = r THEN epoch[q] + 1 ELSE epoch[q]
  BY <1>1 DEF Purge, TypeOK
<1>4. /\ cache' \in [Replicas -> [Names -> EntryRec]]
      /\ \A q \in Replicas, n \in Names :
           cache'[q][n] = IF q = r /\ n \in names THEN NoEntry ELSE cache[q][n]
  <2>1. NoEntry \in EntryRec
    BY DEF NoEntry, EntryRec
  <2> QED BY <1>1, <2>1 DEF Purge, TypeOK, EntryRec
<1>5. /\ purged' \in [Replicas -> [Names -> Nat]]
      /\ \A q \in Replicas, n \in Names :
           purged'[q][n] = IF q = r /\ n \in names THEN Active(n) ELSE purged[q][n]
  BY <1>1, <1>2 DEF Purge, TypeOK
<1>6. TypeOK'
  <2>1. ASSUME NEW q \in Replicas, NEW n \in Names
        PROVE  cache'[q][n].ver <= Active(n)' /\ flight'[q][n].ver <= Active(n)'
    <3>1. cache[q][n].ver <= Active(n) /\ flight[q][n].ver <= Active(n)
      BY <1>1 DEF TypeOK
    <3>2. cache'[q][n] = NoEntry \/ cache'[q][n] = cache[q][n]
      BY <1>4
    <3> QED BY <1>2, <3>1, <3>2 DEF NoEntry
  <2> QED BY <1>1, <1>2, <1>3, <1>4, <1>5, <2>1 DEF TypeOK, EntryRec, AdminRec, EventRec
<1>7. CommitsPast'
  BY <1>1, <1>2 DEF CommitsPast
<1>8. ASSUME NEW q \in Replicas, NEW n \in Names PROVE (EntrySound(q, n) /\ FlightSound(q, n))'
  <2>1. EntrySound(q, n) /\ FlightSound(q, n)
    BY DEF IInv
  <2>2. /\ flight[q][n] \in FlightRec /\ purged[q][n] \in Nat /\ epoch[q] \in Nat /\ now \in Nat
        /\ cache[q][n] \in EntryRec
    BY <1>1 DEF TypeOK, FlightRec, EntryRec
  <2>3. EntrySound(q, n)'
    <3>1. CASE q = r /\ n \in names
      <4>1. cache'[q][n] = NoEntry /\ purged'[q][n] = Active(n)
        BY <1>4, <1>5, <3>1
      <4> QED BY <1>2, <2>2, <4>1, KeyCacheAssumption DEF EntrySound, NoEntry
    <3>2. CASE ~(q = r /\ n \in names)
      <4>1. cache'[q][n] = cache[q][n] /\ purged'[q][n] = purged[q][n]
        BY <1>4, <1>5, <3>2
      <4> QED BY <1>2, <2>1, <4>1 DEF EntrySound
    <3> QED BY <3>1, <3>2
  <2>4. FlightSound(q, n)'
    <3>1. purged[q][n] <= purged'[q][n] /\ purged'[q][n] \in Nat
      <4>1. purged'[q][n] = Active(n) \/ purged'[q][n] = purged[q][n]
        BY <1>5
      <4>2. purged[q][n] <= Active(n)
        BY <2>1 DEF EntrySound
      <4> QED BY <1>2, <2>2, <4>1, <4>2
    <3>2. CASE q = r
      <4>1. epoch'[q] = epoch[q] + 1
        BY <1>3, <3>2
      <4> DEFINE f == flight[q][n]
      <4>2. f.floor <= purged[q][n] /\ f.ep <= epoch[q] /\ f.floor \in Nat /\ f.ep \in Nat
        BY <2>1, <2>2 DEF FlightSound, FlightOK, FlightRec
      <4>3. f.floor <= purged'[q][n] /\ f.ep <= epoch'[q] /\ f.ep # epoch'[q]
        BY <2>2, <3>1, <4>1, <4>2
      <4> QED BY <1>2, <2>1, <4>3 DEF FlightSound, FlightOK, AliveAt
    <3>3. CASE q # r
      <4>1. epoch'[q] = epoch[q] /\ purged'[q][n] = purged[q][n]
        BY <1>3, <1>5, <3>3
      <4> QED BY <1>2, <2>1, <4>1 DEF FlightSound, FlightOK, AliveAt
    <3> QED BY <3>2, <3>3
  <2> QED BY <2>3, <2>4
<1> QED BY <1>6, <1>7, <1>8 DEF IInv

\* The steps that only concern the operators and the bus.
LEMMA QuietStep ==
  ASSUME IInv, UNCHANGED <<now, commits, cacheVars, getVars>>,
         ops' \in Nat, admin' \in [Replicas -> AdminRec], inbox' \in [Replicas -> Seq(EventRec)]
  PROVE  IInv'
<1>1. TypeOK /\ CommitsPast
  BY DEF IInv
<1>2. /\ now' = now /\ commits' = commits /\ cache' = cache /\ epoch' = epoch /\ purged' = purged
      /\ caller' = caller /\ flight' = flight
      /\ \A n \in Names : Active(n)' = Active(n)
  BY DEF cacheVars, getVars, Active
<1>3. TypeOK'
  <2>1. ASSUME NEW q \in Replicas, NEW n \in Names
        PROVE  cache'[q][n].ver <= Active(n)' /\ flight'[q][n].ver <= Active(n)'
    <3>1. cache[q][n].ver <= Active(n) /\ flight[q][n].ver <= Active(n)
      BY <1>1 DEF TypeOK
    <3> QED BY <1>2, <3>1
  <2> QED BY <1>1, <1>2, <2>1 DEF TypeOK, AdminRec, EventRec
<1>4. CommitsPast'
  BY <1>1, <1>2 DEF CommitsPast
<1>5. ASSUME NEW q \in Replicas, NEW n \in Names PROVE (EntrySound(q, n) /\ FlightSound(q, n))'
  <2>1. EntrySound(q, n) /\ FlightSound(q, n)
    BY DEF IInv
  <2> QED BY <2>1, <1>2 DEF EntrySound, FlightSound, FlightOK, AliveAt
<1> QED BY <1>3, <1>4, <1>5 DEF IInv

\* A rotation replaces the active version now: an entry of it ends within a TTL and a
\* grace period from now, and a load of it began in the past.
LEMMA PutStep ==
  ASSUME IInv, NEW name \in Names, Put(name), UNCHANGED <<now, cacheVars, getVars, inbox>>,
         admin' \in [Replicas -> AdminRec]
  PROVE  IInv'
<1>1. TypeOK /\ CommitsPast
  BY DEF IInv
<1>2. /\ now' = now /\ cache' = cache /\ epoch' = epoch /\ purged' = purged
      /\ caller' = caller /\ flight' = flight /\ inbox' = inbox /\ ops' \in Nat
      /\ now \in Nat
  BY <1>1 DEF cacheVars, getVars, Put, TypeOK
<1>3. /\ commits' \in [Names -> Seq(Nat)]
      /\ \A n \in Names : commits'[n] = IF n = name THEN Append(commits[n], now) ELSE commits[n]
  BY <1>1 DEF Put, TypeOK
<1>4. ASSUME NEW n \in Names
      PROVE  /\ Active(n) \in Nat /\ Active(n)' \in Nat
             /\ \A i \in 1 .. Active(n) : commits'[n][i] = commits[n][i] /\ commits[n][i] \in Nat
             /\ \/ Active(n)' = Active(n)
                \/ Active(n)' = Active(n) + 1 /\ commits'[n][Active(n) + 1] = now
  <2>1. commits[n] \in Seq(Nat)
    BY <1>1 DEF TypeOK
  <2>2. CASE n = name
    <3>1. commits'[n] = Append(commits[n], now) /\ Active(n)' = Len(commits'[n])
      BY <1>3, <2>2 DEF Active
    <3>2. /\ Len(Append(commits[n], now)) = Len(commits[n]) + 1 /\ Len(commits[n]) \in Nat
          /\ Append(commits[n], now)[Len(commits[n]) + 1] = now
          /\ \A i \in 1 .. Len(commits[n]) :
               Append(commits[n], now)[i] = commits[n][i] /\ commits[n][i] \in Nat
      BY <1>2, <2>1
    <3> QED BY <3>1, <3>2 DEF Active
  <2>3. CASE n # name
    BY <1>2, <1>3, <2>1, <2>3 DEF Active
  <2> QED BY <2>2, <2>3
<1>5. TypeOK'
  <2>1. ASSUME NEW q \in Replicas, NEW n \in Names
        PROVE  cache'[q][n].ver <= Active(n)' /\ flight'[q][n].ver <= Active(n)'
    <3>1. /\ cache[q][n].ver <= Active(n) /\ flight[q][n].ver <= Active(n)
          /\ cache[q][n].ver \in Nat /\ flight[q][n].ver \in Nat
      BY <1>1 DEF TypeOK
    <3>2. Active(n) \in Nat /\ Active(n)' \in Nat /\ Active(n) <= Active(n)'
      BY <1>4
    <3> QED BY <1>2, <3>1, <3>2
  <2> QED BY <1>1, <1>2, <1>3, <2>1 DEF TypeOK, AdminRec
<1>6. CommitsPast'
  <2> SUFFICES ASSUME NEW n \in Names
               PROVE  Active(n)' >= 1 /\ \A i \in 1 .. Active(n)' : commits'[n][i] <= now'
    BY DEF CommitsPast
  <2>1. Active(n) >= 1 /\ \A i \in 1 .. Active(n) : commits[n][i] <= now
    BY <1>1 DEF CommitsPast
  <2>2. Active(n)' >= 1
    BY <1>4, <2>1
  <2>3. ASSUME NEW i \in 1 .. Active(n)' PROVE commits'[n][i] <= now'
    <3>1. i \in 1 .. Active(n) \/ (i = Active(n) + 1 /\ commits'[n][Active(n) + 1] = now)
      BY <1>4
    <3> QED BY <1>2, <1>4, <2>1, <3>1
  <2> QED BY <2>2, <2>3
<1>7. ASSUME NEW q \in Replicas, NEW n \in Names PROVE (EntrySound(q, n) /\ FlightSound(q, n))'
  <2> DEFINE e == cache[q][n]
             f == flight[q][n]
  <2>1. EntrySound(q, n) /\ FlightSound(q, n)
    BY DEF IInv
  <2>2. /\ e \in EntryRec /\ f \in FlightRec /\ e.ver <= Active(n) /\ f.ver <= Active(n)
        /\ purged[q][n] \in Nat
    BY <1>1 DEF TypeOK, EntryRec, FlightRec
  <2>3. EntrySound(q, n)'
    <3>1. purged[q][n] <= Active(n)'
      BY <1>4, <2>1, <2>2 DEF EntrySound
    <3>2. ASSUME e.ver # 0, e.ver < Active(n)'
          PROVE  e.stale <= commits'[n][e.ver + 1] + LoadTimeout + MaxTTL + StaleGrace
      <4>1. e.ver \in Nat /\ e.stale \in Nat
        BY <2>2 DEF EntryRec
      <4>2. CASE e.ver < Active(n)
        <5>1. commits'[n][e.ver + 1] = commits[n][e.ver + 1]
          BY <1>4, <4>1, <4>2
        <5> QED BY <2>1, <3>2, <4>2, <5>1 DEF EntrySound
      <4>3. CASE ~(e.ver < Active(n))
        <5>1. e.ver = Active(n) /\ commits'[n][e.ver + 1] = now
          BY <1>4, <2>2, <3>2, <4>1, <4>3
        <5>2. e.stale <= now + MaxTTL + StaleGrace
          BY <2>1 DEF EntrySound
        <5> QED BY <1>2, <4>1, <5>1, <5>2, KeyCacheAssumption
      <4> QED BY <4>2, <4>3
    <3> QED BY <1>2, <2>1, <3>1, <3>2 DEF EntrySound
  <2>4. FlightSound(q, n)'
    <3>1. ASSUME f.st = "loaded" PROVE AliveAt(n, f.ver, f.since)'
      <4>1. f.ver \in Nat /\ f.since \in Nat /\ f.since <= now
        BY <2>1, <2>2, <3>1 DEF FlightSound, FlightOK, FlightRec
      <4>2. CASE f.ver < Active(n)
        <5>1. commits'[n][f.ver + 1] = commits[n][f.ver + 1]
          BY <1>4, <4>1, <4>2
        <5> QED BY <1>2, <2>1, <3>1, <4>2, <5>1 DEF FlightSound, FlightOK, AliveAt
      <4>3. CASE ~(f.ver < Active(n))
        <5>1. f.ver < Active(n)' => commits'[n][f.ver + 1] = now
          BY <1>4, <2>2, <4>1, <4>3
        <5> QED BY <1>2, <4>1, <5>1 DEF AliveAt
      <4> QED BY <4>2, <4>3
    <3> QED BY <1>2, <2>1, <3>1 DEF FlightSound, FlightOK, AliveAt
  <2> QED BY <2>3, <2>4
<1> QED BY <1>5, <1>6, <1>7 DEF IInv

\* The clock waits for loads that are at their timeout.
LEMMA TickStep == ASSUME IInv, Tick PROVE IInv'
<1>1. TypeOK /\ CommitsPast
  BY DEF IInv
<1>2. /\ now' = now + 1 /\ now \in Nat /\ commits' = commits /\ cache' = cache /\ epoch' = epoch
      /\ purged' = purged /\ caller' = caller /\ flight' = flight /\ ops' = ops /\ admin' = admin
      /\ inbox' = inbox
      /\ \A n \in Names : Active(n)' = Active(n)
  BY <1>1 DEF Tick, TypeOK, cacheVars, getVars, adminVars, Active
<1>3. TypeOK'
  <2>1. ASSUME NEW q \in Replicas, NEW n \in Names
        PROVE  cache'[q][n].ver <= Active(n)' /\ flight'[q][n].ver <= Active(n)'
    <3>1. cache[q][n].ver <= Active(n) /\ flight[q][n].ver <= Active(n)
      BY <1>1 DEF TypeOK
    <3> QED BY <1>2, <3>1
  <2>2. now' \in Nat
    BY <1>2
  <2> QED BY <1>1, <1>2, <2>1, <2>2 DEF TypeOK
<1>4. CommitsPast'
  <2> SUFFICES ASSUME NEW n \in Names PROVE Active(n) >= 1 /\ \A i \in 1 .. Active(n) : commits[n][i] <= now + 1
    BY <1>2 DEF CommitsPast
  <2>1. commits[n] \in Seq(Nat)
    BY <1>1 DEF TypeOK
  <2> QED BY <1>1, <1>2, <2>1 DEF CommitsPast, Active
<1>5. ASSUME NEW q \in Replicas, NEW n \in Names PROVE (EntrySound(q, n) /\ FlightSound(q, n))'
  <2>1. EntrySound(q, n) /\ FlightSound(q, n)
    BY DEF IInv
  <2>2. cache[q][n] \in EntryRec /\ flight[q][n] \in FlightRec
    BY <1>1 DEF TypeOK, EntryRec, FlightRec
  <2>3. cache[q][n].stale <= now + 1 + MaxTTL + StaleGrace
    BY <1>2, <2>1, <2>2, KeyCacheAssumption DEF EntrySound, EntryRec
  <2>4. EntrySound(q, n)'
    BY <1>2, <2>1, <2>3 DEF EntrySound
  <2>5. flight[q][n].st \in {"loading", "loaded", "failed"}
          => flight[q][n].since <= now + 1 /\ now + 1 <= flight[q][n].since + LoadTimeout
    <3>1. flight[q][n].st \in {"loading", "loaded", "failed"} => now < flight[q][n].since + LoadTimeout
      BY DEF Tick
    <3> QED BY <1>2, <2>1, <2>2, <3>1, KeyCacheAssumption DEF FlightSound, FlightOK, FlightRec
  <2>6. FlightSound(q, n)'
    BY <1>2, <2>1, <2>5 DEF FlightSound, FlightOK, AliveAt
  <2> QED BY <2>4, <2>6
<1> QED BY <1>3, <1>4, <1>5 DEF IInv

----------------------------------------------------------------------------
\* The names that a purge of some providers covers.
LEMMA Covered ==
  ASSUME NEW S \in SUBSET Names
  PROVE  UNION {Family[name] : name \in S} \in SUBSET Names
BY KeyCacheAssumption

\* Publish and Take keep the events in the inboxes.
LEMMA BusKeeps ==
  ASSUME inbox \in [Replicas -> Seq(EventRec)],
         \/ \E event \in EventRec : Publish(event)
         \/ \E r \in Replicas : Take(r)
  PROVE  inbox' \in [Replicas -> Seq(EventRec)]
<1>1. ASSUME NEW event \in EventRec, Publish(event) PROVE inbox' \in [Replicas -> Seq(EventRec)]
  <2>1. PICK S \in SUBSET Replicas :
          inbox' = [r \in Replicas |-> IF r \in S THEN Append(inbox[r], event) ELSE inbox[r]]
    BY <1>1 DEF Publish
  <2> QED BY <2>1
<1>2. ASSUME NEW r \in Replicas, Take(r) PROVE inbox' \in [Replicas -> Seq(EventRec)]
  <2>1. Tail(inbox[r]) \in Seq(EventRec)
    BY <1>2 DEF Take
  <2> QED BY <1>2, <2>1 DEF Take
<1> QED BY <1>1, <1>2

\* Every step keeps the invariant.
LEMMA StepSound == IInv /\ [Next]_vars => IInv'
<1> SUFFICES ASSUME IInv, [Next]_vars PROVE IInv'
  OBVIOUS
<1>1. TypeOK
  BY DEF IInv
<1>2. /\ admin \in [Replicas -> AdminRec] /\ inbox \in [Replicas -> Seq(EventRec)] /\ ops \in Nat
  BY <1>1 DEF TypeOK, AdminRec, EventRec
<1>3. Idle \in AdminRec
  BY DEF Idle, AdminRec
<1>4. ASSUME NEW r \in Replicas, NEW name \in Names,
             \/ Miss(r, name) \/ Begin(r, name) \/ Check(r, name) \/ ReadEpoch(r, name)
             \/ Load(r, name) \/ Fallback(r, name)
      PROVE  IInv'
  BY <1>4, GetStep
<1>5. ASSUME NEW r \in Replicas, NEW name \in Names, Answer(r, name) PROVE IInv'
  BY <1>5, AnswerStep
<1>6. ASSUME NEW r \in Replicas, NEW name \in Names, SetCredential(r, name) PROVE IInv'
  <2>1. [st |-> "committed", name |-> {name}] \in AdminRec
    BY DEF AdminRec
  <2>2. admin' \in [Replicas -> AdminRec]
    BY <1>2, <1>6, <2>1 DEF SetCredential
  <2> QED BY <1>6, <2>2, PutStep DEF SetCredential
<1>7. ASSUME NEW r \in Replicas, PurgeLocal(r) PROVE IInv'
  <2> DEFINE names == UNION {Family[name] : name \in admin[r].name}
  <2>1. admin[r] \in AdminRec /\ admin[r].name \in SUBSET Names
    BY <1>2 DEF AdminRec
  <2>2. names \in SUBSET Names
    BY <2>1, Covered
  <2>3. admin' = [admin EXCEPT ![r].st = "purged"] /\ ops' = ops /\ inbox' = inbox /\ Purge(r, names)
        /\ UNCHANGED <<now, commits, getVars>>
    BY <1>7 DEF PurgeLocal
  <2>4. admin' \in [Replicas -> AdminRec]
    BY <1>2, <2>3 DEF AdminRec
  <2> HIDE DEF names
  <2> QED BY <1>2, <2>2, <2>3, <2>4, PurgeStep
<1>8. ASSUME NEW r \in Replicas, Invalidate(r) PROVE IInv'
  <2>1. [op |-> "credential_invalidated", sender |-> r, name |-> admin[r].name] \in EventRec
    BY <1>2 DEF AdminRec, EventRec
  <2>2. inbox' \in [Replicas -> Seq(EventRec)]
    BY <1>2, <1>8, <2>1, BusKeeps DEF Invalidate
  <2>3. admin' \in [Replicas -> AdminRec]
    BY <1>2, <1>3, <1>8 DEF Invalidate
  <2> QED BY <1>2, <1>8, <2>2, <2>3, QuietStep DEF Invalidate
<1>9. ASSUME NEW r \in Replicas, PurgeSecrets(r) PROVE IInv'
  <2>1. [st |-> "purgedAll", name |-> {}] \in AdminRec
    BY DEF AdminRec
  <2>2. admin' \in [Replicas -> AdminRec] /\ ops' \in Nat /\ inbox' = inbox
        /\ UNCHANGED <<now, commits, getVars>> /\ Purge(r, Names)
    BY <1>2, <1>9, <2>1 DEF PurgeSecrets
  <2> QED BY <1>2, <2>2, PurgeStep
<1>10. ASSUME NEW r \in Replicas, AnnouncePurge(r) PROVE IInv'
  <2>1. [op |-> "purge_secrets", sender |-> r, name |-> {}] \in EventRec
    BY DEF EventRec
  <2>2. inbox' \in [Replicas -> Seq(EventRec)]
    BY <1>2, <1>10, <2>1, BusKeeps DEF AnnouncePurge
  <2>3. admin' \in [Replicas -> AdminRec]
    BY <1>2, <1>3, <1>10 DEF AnnouncePurge
  <2> QED BY <1>2, <1>10, <2>2, <2>3, QuietStep DEF AnnouncePurge
<1>11. ASSUME NEW r \in Replicas, Dispatch(r) PROVE IInv'
  <2> DEFINE e == Head(inbox[r])
             names == UNION {Family[name] : name \in e.name}
  <2>1. e \in EventRec
    BY <1>2, <1>11 DEF Dispatch, Take
  <2>2. names \in SUBSET Names
    <3>1. e.name \in SUBSET Names
      BY <2>1 DEF EventRec
    <3> QED BY <3>1, Covered
  <2>3. inbox' \in [Replicas -> Seq(EventRec)] /\ ops' = ops /\ admin' = admin
        /\ UNCHANGED <<now, commits, getVars>>
    BY <1>2, <1>11, BusKeeps DEF Dispatch, adminVars
  <2>4. Purge(r, names) \/ Purge(r, Names) \/ UNCHANGED cacheVars
    BY <1>11 DEF Dispatch
  <2> HIDE DEF names, e
  <2>5. CASE Purge(r, names)
    BY <1>2, <2>2, <2>3, <2>5, PurgeStep
  <2>6. CASE Purge(r, Names)
    BY <1>2, <2>3, <2>6, PurgeStep
  <2>7. CASE UNCHANGED cacheVars
    BY <1>2, <2>3, <2>7, QuietStep
  <2> QED BY <2>4, <2>5, <2>6, <2>7
<1>12. ASSUME NEW name \in Names, ProviderKeySet(name) PROVE IInv'
  <2>1. admin' \in [Replicas -> AdminRec]
    BY <1>2, <1>12 DEF ProviderKeySet
  <2> QED BY <1>12, <2>1, PutStep DEF ProviderKeySet
<1>13. ASSUME Tick PROVE IInv'
  BY <1>13, TickStep
<1>14. ASSUME UNCHANGED vars PROVE IInv'
  BY <1>2, <1>14, QuietStep DEF vars, adminVars
<1> QED BY <1>4, <1>5, <1>6, <1>7, <1>8, <1>9, <1>10, <1>11, <1>12, <1>13, <1>14 DEF Next

\* The inductive invariant holds in every reachable state.
THEOREM Invariance == Spec => []IInv
BY InitSound, StepSound, PTL DEF Spec

\* Every reachable state of the credential cache has the declared types, and no version
\* that was never committed is cached or loaded.
THEOREM TypeCorrect == Spec => []TypeOK
<1>1. IInv => TypeOK
  BY DEF IInv
<1> QED BY <1>1, Invariance, PTL

\* Purge, PurgeProvider and the epoch: for any number of replicas, loads, rotations and
\* purges, what was purged does not come back.
THEOREM PurgedForGood == Spec => []PurgedStaysPurged
<1>1. IInv => PurgedStaysPurged
  <2> SUFFICES ASSUME IInv, NEW r \in Replicas, NEW name \in Names
               PROVE  /\ cache[r][name].ver # 0 => cache[r][name].ver >= purged[r][name]
                      /\ flight[r][name].st \in {"loaded", "failed"} =>
                           \A v \in Answers(r, name) : v >= flight[r][name].floor
    BY DEF PurgedStaysPurged
  <2> DEFINE e == cache[r][name]
             f == flight[r][name]
  <2>1. e.ver # 0 => e.ver >= purged[r][name]
    BY DEF IInv, EntrySound
  <2>2. f.floor <= purged[r][name] /\ (f.st = "loaded" => f.ver >= f.floor)
    BY DEF IInv, FlightSound, FlightOK
  <2>3. e.ver \in Nat /\ f.floor \in Nat /\ purged[r][name] \in Nat
    BY DEF IInv, TypeOK
  <2>4. ASSUME NEW v \in Answers(r, name) PROVE v >= f.floor
    <3>1. (v = e.ver /\ e.ver # 0) \/ (v = f.ver /\ f.st = "loaded")
      BY <2>4 DEF Answers, Fresh, Graced
    <3> QED BY <2>1, <2>2, <2>3, <3>1
  <2> QED BY <2>1, <2>4
<1> QED BY <1>1, Invariance, PTL

\* Get: whatever events are lost, an answer was the active credential at most a timeout,
\* a TTL and a grace period ago.
THEOREM AnsweredRecently == Spec => []ServedRecently
<1>1. IInv => ServedRecently
  <2> SUFFICES ASSUME IInv, NEW r \in Replicas, NEW name \in Names, NEW v \in Answers(r, name),
                      v # Active(name)
               PROVE  now <= commits[name][v + 1] + LoadTimeout + MaxTTL + StaleGrace
    BY DEF ServedRecently
  <2> DEFINE e == cache[r][name]
             f == flight[r][name]
             c == commits[name][v + 1]
  <2>1. (v = e.ver /\ e.ver # 0 /\ (now < e.expires \/ now < e.stale)) \/ (v = f.ver /\ f.st = "loaded")
    BY DEF Answers, Fresh, Graced
  <2>2. /\ e \in EntryRec /\ f \in FlightRec /\ e.ver <= Active(name) /\ f.ver <= Active(name)
        /\ now \in Nat /\ commits[name] \in Seq(Nat)
    BY DEF IInv, TypeOK, EntryRec, FlightRec
  <2>3. v \in Nat /\ v < Active(name) /\ Active(name) \in Nat
    <3>1. Active(name) \in Nat /\ e.ver \in Nat /\ f.ver \in Nat
      BY <2>2 DEF EntryRec, FlightRec, Active
    <3>2. v = e.ver \/ v = f.ver
      BY <2>1
    <3> HIDE DEF e, f
    <3> QED BY <2>2, <3>1, <3>2
  <2>4. c \in Nat
    BY <2>2, <2>3 DEF Active
  <2>5. CASE v = e.ver /\ e.ver # 0 /\ (now < e.expires \/ now < e.stale)
    <3>1. e.expires <= e.stale /\ e.stale <= c + LoadTimeout + MaxTTL + StaleGrace
      BY <2>3, <2>5 DEF IInv, EntrySound
    <3>2. e.expires \in Nat /\ e.stale \in Nat
      BY <2>2 DEF EntryRec
    <3>3. now <= e.stale
      BY <2>2, <2>5, <3>1, <3>2
    <3> HIDE DEF e, c
    <3>4. now <= c + LoadTimeout + MaxTTL + StaleGrace
      BY <2>2, <2>4, <3>1, <3>2, <3>3, KeyCacheAssumption
    <3> QED BY <3>4 DEF c
  <2>6. CASE v = f.ver /\ f.st = "loaded"
    <3>1. now <= f.since + LoadTimeout /\ f.since <= c
      BY <2>3, <2>6 DEF IInv, FlightSound, FlightOK, AliveAt
    <3>2. f.since \in Nat
      BY <2>2 DEF FlightRec
    <3> HIDE DEF f, c
    <3>3. now <= c + LoadTimeout + MaxTTL + StaleGrace
      BY <2>2, <2>4, <3>1, <3>2, KeyCacheAssumption
    <3> QED BY <3>3 DEF c
  <2> QED BY <2>1, <2>5, <2>6
<1> QED BY <1>1, Invariance, PTL
=============================================================================
