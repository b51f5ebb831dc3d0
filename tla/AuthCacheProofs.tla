--------------------------- MODULE AuthCacheProofs ---------------------------
(***************************************************************************)
(* The authentication caches for any number of replicas, keys, tenants and *)
(* commands, any lifetimes and capacity, and any loss of events.           *)
(***************************************************************************)
EXTENDS AuthCache, FiniteSetTheorems, TLAPS

Expiries == Nat \cup {None}

LifeRec == [stage : {"absent", "live", "ended"}, at : Nat]

FlightRec == [st : {"none", "begun", "looking", "found", "unknown"}, since : Nat]

AdminRec == [st : {"idle", "stored", "evicted"}, op : {"none", "key_revoked", "tenant_erased"},
             keys : SUBSET Keys]

EventRec == [op : {"key_revoked", "tenant_erased"}, keys : SUBSET Keys]

\* What a replica knows of a key: no entry outlives its TTL, a lookup is within its
\* timeout, and an answer that the key's life has overtaken was read before that.
CellOK(t, l, p, n, f) ==
  /\ l.at <= t
  /\ p <= t + PosTTL /\ n <= t + NegTTL
  /\ l.stage = "ended" => p <= l.at + LookupTimeout + PosTTL
  /\ l.stage = "live" => n <= l.at + LookupTimeout + NegTTL
  /\ f.st \in {"looking", "found", "unknown"} => f.since <= t /\ t <= f.since + LookupTimeout
  /\ f.st = "found" /\ l.stage = "ended" => f.since <= l.at
  /\ f.st = "unknown" /\ l.stage = "live" => f.since <= l.at

Cell(r, k) == CellOK(now, life[k], pos[r][k], neg[r][k], flight[r][k])

\* An evicted key has ended, and nothing brings it back but a lookup it crossed.
Gone(r, k) ==
  k \in evicted[r] => /\ life[k].stage = "ended"
                      /\ k \notin crossed[r] => pos[r][k] = None /\ flight[r][k].st # "found"

\* The keys in the positive cache.
Held(r) == {k \in Keys : pos[r][k] # None}

\* A host at work has a command to announce.
Purposeful == \A h \in Hosts : admin[h].st # "idle" => admin[h].op # "none"

\* The inductive invariant.
IInv ==
  /\ TypeOK
  /\ Purposeful
  /\ \A r \in Replicas, k \in Keys : Cell(r, k) /\ Gone(r, k)

----------------------------------------------------------------------------
\* The parts of TypeOK, by the names of this module.
LEMMA Types ==
  TypeOK <=>
    /\ now \in Nat /\ ops \in Nat
    /\ life \in [Keys -> LifeRec]
    /\ pos \in [Replicas -> [Keys -> Expiries]] /\ neg \in [Replicas -> [Keys -> Expiries]]
    /\ caller \in [Replicas -> [Keys -> BOOLEAN]]
    /\ flight \in [Replicas -> [Keys -> FlightRec]]
    /\ admin \in [Hosts -> AdminRec]
    /\ inbox \in [Replicas -> Seq(EventRec)]
    /\ evicted \in [Replicas -> SUBSET Keys] /\ crossed \in [Replicas -> SUBSET Keys]
    /\ \A r \in Replicas : Cardinality(Held(r)) <= Capacity
  BY DEF TypeOK, Expiries, LifeRec, FlightRec, AdminRec, EventRec, Held

\* The initial state satisfies the invariant.
LEMMA InitSound == Init => IInv
<1> SUFFICES ASSUME Init PROVE IInv
  OBVIOUS
<1> USE DEF Init
<1>1. TypeOK
  <2>1. /\ life \in [Keys -> LifeRec]
        /\ pos \in [Replicas -> [Keys -> Expiries]] /\ neg \in [Replicas -> [Keys -> Expiries]]
    BY DEF LifeRec, Expiries
  <2>2. flight \in [Replicas -> [Keys -> FlightRec]]
    BY DEF FlightRec, NoFlight
  <2>3. admin \in [Hosts -> AdminRec]
    BY DEF AdminRec, Idle
  <2>4. inbox \in [Replicas -> Seq(EventRec)]
    BY DEF BusInit
  <2>5. ASSUME NEW r \in Replicas PROVE Cardinality(Held(r)) <= Capacity
    <3>1. Held(r) = {}
      BY DEF Held
    <3> QED BY <3>1, FS_EmptySet, AuthCacheAssumption
  <2>6. caller \in [Replicas -> [Keys -> BOOLEAN]]
    OBVIOUS
  <2>7. evicted \in [Replicas -> SUBSET Keys] /\ crossed \in [Replicas -> SUBSET Keys]
        /\ now \in Nat /\ ops \in Nat
    OBVIOUS
  <2> QED BY <2>1, <2>2, <2>3, <2>4, <2>5, <2>6, <2>7, Types
<1>2. ASSUME NEW r \in Replicas, NEW k \in Keys PROVE Cell(r, k) /\ Gone(r, k)
  <2>1. /\ life[k].at = 0 /\ now = 0 /\ pos[r][k] = -1 /\ neg[r][k] = -1
        /\ flight[r][k] = NoFlight /\ NoFlight.st = "none" /\ evicted[r] = {}
    BY DEF None, NoFlight
  <2> QED BY <2>1, AuthCacheAssumption DEF Cell, CellOK, Gone
<1>3. Purposeful
  BY DEF Purposeful, Idle
<1> QED BY <1>1, <1>2, <1>3 DEF IInv

\* Publish and Take keep the events in the inboxes.
LEMMA BusKeeps ==
  ASSUME inbox \in [Replicas -> Seq(EventRec)],
         \/ \E event \in EventRec : Publish(event)
         \/ \E r \in Replicas : Take(r)
  PROVE  inbox' \in [Replicas -> Seq(EventRec)]
<1>1. ASSUME NEW event \in EventRec, Publish(event) PROVE inbox' \in [Replicas -> Seq(EventRec)]
  <2>1. PICK S \in SUBSET Replicas :
          inbox' = [r \in Replicas |-> IF r \in S THEN Append(inbox[r], event) ELSE inbox[r]]
    BY <1>1 DEF Publish
  <2> QED BY <2>1
<1>2. ASSUME NEW r \in Replicas, Take(r) PROVE inbox' \in [Replicas -> Seq(EventRec)]
  <2>1. Tail(inbox[r]) \in Seq(EventRec)
    BY <1>2 DEF Take
  <2> QED BY <1>2, <2>1 DEF Take
<1> QED BY <1>1, <1>2

\* A cache that only loses entries keeps its capacity.
LEMMA FewerHeld ==
  ASSUME NEW r \in Replicas, Cardinality(Held(r)) <= Capacity,
         \A k \in Keys : pos'[r][k] # None => pos[r][k] # None
  PROVE  Cardinality(Held(r)') <= Capacity
<1>1. IsFiniteSet(Held(r))
  BY AuthCacheAssumption, FS_Subset DEF Held
<1>2. Held(r)' \subseteq Held(r)
  BY DEF Held
<1>3. /\ Cardinality(Held(r)) \in Nat /\ Cardinality(Held(r)') \in Nat
      /\ Cardinality(Held(r)') <= Cardinality(Held(r))
  BY <1>1, <1>2, FS_Subset, FS_CardinalityType
<1> QED BY <1>3, AuthCacheAssumption

----------------------------------------------------------------------------
\* A step that concerns one key at one replica, and drops others from its positive cache
\* at most.
LEMMA CellStep ==
  ASSUME IInv, NEW r \in Replicas, NEW k \in Keys, TypeOK', UNCHANGED <<now, life, admin, ghosts>>,
         \A q \in Replicas, o \in Keys :
           ~(q = r /\ o = k) => /\ pos'[q][o] \in {pos[q][o], None}
                                /\ neg'[q][o] = neg[q][o] /\ flight'[q][o] = flight[q][o],
         Cell(r, k)', Gone(r, k)'
  PROVE  IInv'
<1>1. ASSUME NEW q \in Replicas, NEW o \in Keys, ~(q = r /\ o = k) PROVE Cell(q, o)' /\ Gone(q, o)'
  <2>1. Cell(q, o) /\ Gone(q, o) /\ TypeOK
    BY DEF IInv
  <2>2. /\ pos'[q][o] \in {pos[q][o], None} /\ neg'[q][o] = neg[q][o]
        /\ flight'[q][o] = flight[q][o] /\ now' = now /\ life' = life
        /\ evicted' = evicted /\ crossed' = crossed
    BY <1>1 DEF ghosts
  <2>3. now \in Nat /\ life[o] \in LifeRec
    BY <2>1, Types
  <2>4. pos'[q][o] = pos[q][o] \/ pos'[q][o] = -1
    BY <2>2 DEF None
  <2>5. Cell(q, o)'
    BY <2>1, <2>2, <2>3, <2>4, AuthCacheAssumption DEF Cell, CellOK, LifeRec
  <2>6. Gone(q, o)'
    BY <2>1, <2>2 DEF Gone
  <2> QED BY <2>5, <2>6
<1>2. Purposeful'
  BY DEF IInv, Purposeful
<1> QED BY <1>1, <1>2 DEF IInv

\* The steps of a lookup that put nothing into the positive cache.
LEMMA LookupStep ==
  ASSUME IInv, NEW r \in Replicas, NEW k \in Keys,
         NEW p \in {pos[r][k], None}, NEW n \in Expiries, NEW f \in FlightRec,
         pos' = [pos EXCEPT ![r][k] = p], neg' = [neg EXCEPT ![r][k] = n],
         flight' = [flight EXCEPT ![r][k] = f], caller' \in [Replicas -> [Keys -> BOOLEAN]],
         UNCHANGED <<now, life, adminVars, inbox, ghosts>>,
         CellOK(now, life[k], p, n, f),
         f.st = "found" => flight[r][k].st = "found" \/ life[k].stage = "live"
  PROVE  IInv'
<1>1. TypeOK /\ Gone(r, k)
  BY DEF IInv
<1>2. /\ pos \in [Replicas -> [Keys -> Expiries]] /\ neg \in [Replicas -> [Keys -> Expiries]]
      /\ flight \in [Replicas -> [Keys -> FlightRec]] /\ p \in Expiries
  BY <1>1, Types DEF Expiries
<1>3. /\ pos' \in [Replicas -> [Keys -> Expiries]]
      /\ \A q \in Replicas, o \in Keys : pos'[q][o] = IF q = r /\ o = k THEN p ELSE pos[q][o]
  BY <1>2
<1>4. /\ neg' \in [Replicas -> [Keys -> Expiries]]
      /\ \A q \in Replicas, o \in Keys : neg'[q][o] = IF q = r /\ o = k THEN n ELSE neg[q][o]
  BY <1>2
<1>5. /\ flight' \in [Replicas -> [Keys -> FlightRec]]
      /\ \A q \in Replicas, o \in Keys : flight'[q][o] = IF q = r /\ o = k THEN f ELSE flight[q][o]
  BY <1>2
<1>6. \A q \in Replicas : Cardinality(Held(q)') <= Capacity
  <2>1. \A q \in Replicas, o \in Keys : pos'[q][o] # None => pos[q][o] # None
    BY <1>3
  <2> QED BY <1>1, <2>1, Types, FewerHeld
<1>7. TypeOK'
  <2>1. /\ now' = now /\ ops' = ops /\ life' = life /\ admin' = admin /\ inbox' = inbox
        /\ evicted' = evicted /\ crossed' = crossed
    BY DEF adminVars, ghosts
  <2> QED BY <1>1, <1>3, <1>4, <1>5, <1>6, <2>1 DEF TypeOK, Expiries, FlightRec, Held
<1>8. Cell(r, k)'
  BY <1>3, <1>4, <1>5 DEF Cell
<1>9. Gone(r, k)'
  BY <1>1, <1>3, <1>5 DEF Gone, ghosts
<1> QED BY <1>3, <1>4, <1>5, <1>7, <1>8, <1>9, CellStep DEF adminVars

\* The steps of a request up to the answer of its lookup, and a refusal.
LEMMA GetStep ==
  ASSUME IInv, NEW r \in Replicas, NEW k \in Keys,
         Miss(r, k) \/ Begin(r, k) \/ Check(r, k) \/ Lookup(r, k) \/ Refuse(r, k)
  PROVE  IInv'
<1> DEFINE p0 == pos[r][k]
           n0 == neg[r][k]
           f0 == flight[r][k]
           l0 == life[k]
<1>1. TypeOK /\ CellOK(now, l0, p0, n0, f0)
  BY DEF IInv, Cell
<1>2. /\ p0 \in Expiries /\ n0 \in Expiries /\ f0 \in FlightRec /\ l0 \in LifeRec /\ now \in Nat
      /\ pos = [pos EXCEPT ![r][k] = p0] /\ neg = [neg EXCEPT ![r][k] = n0]
      /\ flight = [flight EXCEPT ![r][k] = f0]
      /\ None \in Expiries /\ NoFlight \in FlightRec /\ NoFlight.st = "none"
  <2>1. /\ pos \in [Replicas -> [Keys -> Expiries]] /\ neg \in [Replicas -> [Keys -> Expiries]]
        /\ flight \in [Replicas -> [Keys -> FlightRec]] /\ life \in [Keys -> LifeRec] /\ now \in Nat
    BY <1>1, Types
  <2> QED BY <2>1 DEF Expiries, NoFlight, FlightRec
<1>3. \A p \in {p0, None}, n \in {n0, None} :
        CellOK(now, l0, p, n, f0) /\ CellOK(now, l0, p, n, NoFlight)
  BY <1>1, <1>2, AuthCacheAssumption DEF CellOK, LifeRec, None
<1>4. CASE Miss(r, k)
  <2>1. caller' \in [Replicas -> [Keys -> BOOLEAN]]
    BY <1>1, <1>4 DEF Miss, TypeOK
  <2> QED BY <1>2, <1>3, <1>4, <2>1, LookupStep DEF Miss
<1>5. CASE Begin(r, k)
  <2> DEFINE f == [f0 EXCEPT !.st = "begun"]
  <2>1. caller' \in [Replicas -> [Keys -> BOOLEAN]]
    BY <1>1, <1>5 DEF Begin, TypeOK
  <2>2. f \in FlightRec /\ f.st = "begun"
    BY <1>2 DEF FlightRec
  <2>3. flight' = [flight EXCEPT ![r][k] = f0] \/ flight' = [flight EXCEPT ![r][k] = f]
    BY <1>2, <1>5 DEF Begin
  <2> HIDE DEF f
  <2>4. CellOK(now, l0, p0, n0, f)
    BY <1>1, <2>2 DEF CellOK
  <2>5. pos' = [pos EXCEPT ![r][k] = p0] /\ neg' = [neg EXCEPT ![r][k] = n0]
    BY <1>2, <1>5 DEF Begin, cacheVars
  <2>6. UNCHANGED <<now, life, adminVars, inbox, ghosts>>
    BY <1>5 DEF Begin
  <2>7. CASE flight' = [flight EXCEPT ![r][k] = f0]
    BY <1>1, <1>2, <2>1, <2>5, <2>6, <2>7, LookupStep
  <2>8. CASE flight' = [flight EXCEPT ![r][k] = f]
    BY <1>2, <2>1, <2>2, <2>4, <2>5, <2>6, <2>8, LookupStep
  <2> QED BY <2>3, <2>7, <2>8
<1>6. CASE Check(r, k)
  <2> DEFINE p == AfterGet(p0)
             n == IF Hit(p0) THEN n0 ELSE AfterGet(n0)
             f == [st |-> "looking", since |-> now]
  <2>1. p \in {p0, None} /\ n \in {n0, None} /\ n \in Expiries
    BY <1>2 DEF AfterGet
  <2>2. f \in FlightRec /\ f.st = "looking" /\ f.since = now
    BY <1>2 DEF FlightRec
  <2>3. pos' = [pos EXCEPT ![r][k] = p] /\ neg' = [neg EXCEPT ![r][k] = n]
    BY <1>2, <1>6 DEF Check
  <2>4. flight' = [flight EXCEPT ![r][k] = NoFlight] \/ flight' = [flight EXCEPT ![r][k] = f]
    BY <1>6 DEF Check
  <2> HIDE DEF p, n, f
  <2>5. CellOK(now, l0, p, n, f)
    <3>1. CellOK(now, l0, p, n, NoFlight)
      BY <1>3, <2>1
    <3> QED BY <1>2, <2>2, <3>1, AuthCacheAssumption DEF CellOK
  <2>6. CellOK(now, l0, p, n, NoFlight)
    BY <1>3, <2>1
  <2>7. caller' \in [Replicas -> [Keys -> BOOLEAN]] /\ UNCHANGED <<now, life, adminVars, inbox, ghosts>>
    BY <1>1, <1>6 DEF Check, TypeOK
  <2>8. CASE flight' = [flight EXCEPT ![r][k] = NoFlight]
    BY <1>2, <2>1, <2>3, <2>6, <2>7, <2>8, LookupStep
  <2>9. CASE flight' = [flight EXCEPT ![r][k] = f]
    BY <2>1, <2>2, <2>3, <2>5, <2>7, <2>9, LookupStep
  <2> QED BY <2>4, <2>8, <2>9
<1>7. CASE Lookup(r, k)
  <2> DEFINE f == [f0 EXCEPT !.st = IF l0.stage = "live" THEN "found" ELSE "unknown"]
  <2>1. /\ f \in FlightRec /\ f.since = f0.since /\ f0.st = "looking"
        /\ f.st = IF l0.stage = "live" THEN "found" ELSE "unknown"
    BY <1>2, <1>7 DEF FlightRec, Lookup
  <2>2. flight' = [flight EXCEPT ![r][k] = NoFlight] \/ flight' = [flight EXCEPT ![r][k] = f]
    BY <1>7 DEF Lookup
  <2> HIDE DEF f
  <2>3. CellOK(now, l0, p0, n0, f)
    BY <1>1, <2>1 DEF CellOK
  <2>4. pos' = [pos EXCEPT ![r][k] = p0] /\ neg' = [neg EXCEPT ![r][k] = n0]
    BY <1>2, <1>7 DEF Lookup, cacheVars
  <2>5. caller' \in [Replicas -> [Keys -> BOOLEAN]] /\ UNCHANGED <<now, life, adminVars, inbox, ghosts>>
    BY <1>1, <1>7 DEF Lookup, TypeOK
  <2> QED BY <1>2, <1>3, <2>1, <2>2, <2>3, <2>4, <2>5, LookupStep
<1>8. CASE Refuse(r, k)
  <2> DEFINE n == now + NegTTL
  <2>1. n \in Expiries /\ n = now + NegTTL
    BY <1>2, AuthCacheAssumption DEF Expiries
  <2>2. pos' = [pos EXCEPT ![r][k] = p0] /\ neg' = [neg EXCEPT ![r][k] = n]
    BY <1>2, <1>8 DEF Refuse, Expiry
  <2> HIDE DEF n
  <2>3. CellOK(now, l0, p0, n, NoFlight)
    <3>1. CellOK(now, l0, p0, n0, NoFlight) /\ f0.st = "unknown"
      BY <1>3, <1>8 DEF Refuse
    <3>2. l0.stage = "live" => n <= l0.at + LookupTimeout + NegTTL
      BY <1>1, <1>2, <2>1, <3>1, AuthCacheAssumption DEF CellOK, LifeRec, FlightRec
    <3> QED BY <1>2, <2>1, <3>1, <3>2, AuthCacheAssumption DEF CellOK
  <2>4. caller' \in [Replicas -> [Keys -> BOOLEAN]] /\ UNCHANGED <<now, life, adminVars, inbox, ghosts>>
    BY <1>1, <1>8 DEF Refuse, TypeOK
  <2> QED BY <1>2, <1>8, <2>1, <2>2, <2>3, <2>4, LookupStep DEF Refuse
<1> QED BY <1>4, <1>5, <1>6, <1>7, <1>8

\* LRUCache.Set keeps the capacity: a new entry in a full cache takes another one's place.
LEMMA SetKeepsCapacity ==
  ASSUME NEW cached \in [Keys -> Expiries], NEW k \in Keys, NEW after \in AfterSet(cached, k),
         now \in Nat, Cardinality({o \in Keys : cached[o] # None}) <= Capacity
  PROVE  /\ after \in [Keys -> Expiries]
         /\ after[k] = now + PosTTL
         /\ \A o \in Keys \ {k} : after[o] \in {cached[o], None}
         /\ Cardinality({o \in Keys : after[o] # None}) <= Capacity
<1> DEFINE held == {o \in Keys : cached[o] # None}
           others == {o \in Keys \ {k} : cached[o] # None}
           kept == {o \in Keys : after[o] # None}
           e == now + PosTTL
<1>1. e \in Expiries /\ e # None /\ e = Expiry(PosTTL) /\ None \in Expiries
  BY AuthCacheAssumption DEF Expiries, None, Expiry
<1>2. /\ IsFiniteSet(held) /\ IsFiniteSet(others)
      /\ Cardinality(held) \in Nat /\ Cardinality(others) \in Nat
      /\ Capacity \in Nat
  BY AuthCacheAssumption, FS_Subset, FS_CardinalityType
<1>3. CASE cached[k] # None \/ Cardinality(others) < Capacity
  <2>1. after = [cached EXCEPT ![k] = e]
    BY <1>1, <1>3 DEF AfterSet
  <2>2. /\ after \in [Keys -> Expiries] /\ after[k] = e
        /\ \A o \in Keys \ {k} : after[o] = cached[o]
    BY <1>1, <2>1
  <2>3. Cardinality(kept) <= Capacity
    <3>1. CASE cached[k] # None
      <4>1. kept = held
        BY <1>1, <2>2, <3>1
      <4> QED BY <4>1
    <3>2. CASE cached[k] = None
      <4>1. kept = others \cup {k} /\ k \notin others
        BY <1>1, <2>2, <3>2
      <4>2. Cardinality(kept) = Cardinality(others) + 1
        BY <1>2, <4>1, FS_AddElement
      <4> QED BY <1>2, <1>3, <3>2, <4>2
    <3> QED BY <3>1, <3>2
  <2> QED BY <2>2, <2>3
<1>4. CASE ~(cached[k] # None \/ Cardinality(others) < Capacity)
  <2>1. PICK o \in others : after = [cached EXCEPT ![k] = e, ![o] = None]
    BY <1>1, <1>4 DEF AfterSet
  <2>2. /\ after \in [Keys -> Expiries] /\ after[k] = e /\ after[o] = None
        /\ \A q \in Keys \ {k, o} : after[q] = cached[q]
    BY <1>1, <2>1
  <2>3. Cardinality(kept) <= Capacity
    <3>1. kept = (others \ {o}) \cup {k} /\ k \notin others /\ held = others
      BY <1>1, <1>4, <2>2
    <3>2. Cardinality(others \ {o}) = Cardinality(others) - 1 /\ IsFiniteSet(others \ {o})
      BY <1>2, FS_RemoveElement
    <3>3. Cardinality(kept) = Cardinality(others \ {o}) + 1
      BY <3>1, <3>2, FS_AddElement
    <3> QED BY <1>2, <3>1, <3>2, <3>3
  <2> QED BY <2>2, <2>3
<1> QED BY <1>3, <1>4

\* A found key is cached: it was alive when its lookup began, a timeout ago at most.
LEMMA AcceptStep ==
  ASSUME IInv, NEW r \in Replicas, NEW k \in Keys, Accept(r, k)
  PROVE  IInv'
<1>1. TypeOK /\ Cell(r, k) /\ Gone(r, k)
  BY DEF IInv
<1>2. /\ now \in Nat /\ life \in [Keys -> LifeRec]
      /\ pos \in [Replicas -> [Keys -> Expiries]] /\ neg \in [Replicas -> [Keys -> Expiries]]
      /\ flight \in [Replicas -> [Keys -> FlightRec]] /\ flight[r][k].st = "found"
  BY <1>1, Types DEF Accept
<1>3. UNCHANGED <<now, life, neg, caller, ops, admin, inbox, ghosts>>
  BY DEF Accept, adminVars
<1>4. PICK after \in AfterSet(pos[r], k) : pos' = [pos EXCEPT ![r] = after]
  BY DEF Accept
<1>5. /\ after \in [Keys -> Expiries] /\ after[k] = now + PosTTL
      /\ \A o \in Keys \ {k} : after[o] \in {pos[r][o], None}
      /\ Cardinality({o \in Keys : after[o] # None}) <= Capacity
  <2>1. Cardinality({o \in Keys : pos[r][o] # None}) <= Capacity /\ pos[r] \in [Keys -> Expiries]
    BY <1>1, <1>2 DEF TypeOK
  <2> QED BY <1>2, <2>1, SetKeepsCapacity
<1>6. /\ pos' \in [Replicas -> [Keys -> Expiries]] /\ pos'[r] = after
      /\ \A q \in Replicas \ {r} : pos'[q] = pos[q]
  BY <1>2, <1>4, <1>5
<1>7. /\ flight' \in [Replicas -> [Keys -> FlightRec]]
      /\ \A q \in Replicas, o \in Keys : flight'[q][o] = IF q = r /\ o = k THEN NoFlight ELSE flight[q][o]
  <2>1. NoFlight \in FlightRec
    BY DEF NoFlight, FlightRec
  <2> QED BY <1>2, <2>1 DEF Accept
<1>8. TypeOK'
  <2>1. \A q \in Replicas : Cardinality({o \in Keys : pos'[q][o] # None}) <= Capacity
    <3>1. \A q \in Replicas \ {r} : Cardinality({o \in Keys : pos[q][o] # None}) <= Capacity
      BY <1>1 DEF TypeOK
    <3> QED BY <1>5, <1>6, <3>1, Zenon
  <2> QED BY <1>1, <1>3, <1>6, <1>7, <2>1 DEF TypeOK, ghosts, Expiries, FlightRec
<1>9. Cell(r, k)'
  <2>1. flight'[r][k].st = "none" /\ pos'[r][k] = now + PosTTL
    BY <1>5, <1>6, <1>7 DEF NoFlight
  <2>2. life[k].stage = "ended" => now + PosTTL <= life[k].at + LookupTimeout + PosTTL
    BY <1>1, <1>2, AuthCacheAssumption DEF Cell, CellOK, LifeRec, FlightRec
  <2> QED BY <1>1, <1>2, <1>3, <2>1, <2>2, AuthCacheAssumption DEF Cell, CellOK
<1>10. Gone(r, k)'
  BY <1>1, <1>2, <1>3 DEF Gone, ghosts
<1> QED BY <1>3, <1>5, <1>6, <1>7, <1>8, <1>9, <1>10, CellStep

----------------------------------------------------------------------------
\* A key comes to life or ends now: its entries end within a TTL from now, and its lookups
\* began in the past.
LEMMA LifeStep ==
  ASSUME IInv, life' \in [Keys -> LifeRec], UNCHANGED <<now, cacheVars, getVars, ghosts, inbox>>,
         ops' \in Nat, admin' \in [Hosts -> AdminRec], Purposeful',
         \A k \in Keys : \/ life'[k] = life[k]
                         \/ life[k].stage = "absent" /\ life'[k].stage = "live" /\ life'[k].at = now
                         \/ life[k].stage = "live" /\ life'[k].stage = "ended" /\ life'[k].at = now
  PROVE  IInv'
<1>1. TypeOK
  BY DEF IInv
<1>2. /\ now' = now /\ pos' = pos /\ neg' = neg /\ caller' = caller /\ flight' = flight
      /\ evicted' = evicted /\ crossed' = crossed /\ inbox' = inbox
  BY DEF cacheVars, getVars, ghosts
<1>3. TypeOK'
  BY <1>1, <1>2 DEF TypeOK, LifeRec, AdminRec
<1>4. ASSUME NEW r \in Replicas, NEW k \in Keys PROVE Cell(r, k)' /\ Gone(r, k)'
  <2>1. Cell(r, k) /\ Gone(r, k)
    BY DEF IInv
  <2>2. /\ now \in Nat /\ pos[r][k] \in Expiries /\ neg[r][k] \in Expiries
        /\ flight[r][k] \in FlightRec
    BY <1>1, Types
  <2>3. CASE life'[k] = life[k]
    BY <1>2, <2>1, <2>3 DEF Cell, CellOK, Gone
  <2>4. CASE life[k].stage = "absent" /\ life'[k].stage = "live" /\ life'[k].at = now
    <3>1. Cell(r, k)'
      BY <1>2, <2>1, <2>2, <2>4, AuthCacheAssumption DEF Cell, CellOK, Expiries, None
    <3> QED BY <1>2, <2>1, <2>4, <3>1 DEF Gone
  <2>5. CASE life[k].stage = "live" /\ life'[k].stage = "ended" /\ life'[k].at = now
    <3>1. Cell(r, k)'
      BY <1>2, <2>1, <2>2, <2>5, AuthCacheAssumption DEF Cell, CellOK, Expiries, None
    <3> QED BY <1>2, <2>1, <2>5, <3>1 DEF Gone
  <2> QED BY <2>3, <2>4, <2>5
<1> QED BY <1>3, <1>4 DEF IInv

\* The keys a command ends.
LEMMA EndedLife ==
  ASSUME TypeOK, NEW keys \in SUBSET Keys
  PROVE  /\ Ended(keys) \in [Keys -> LifeRec]
         /\ \A k \in Keys : \/ Ended(keys)[k] = life[k]
                            \/ /\ life[k].stage = "live"
                               /\ Ended(keys)[k].stage = "ended" /\ Ended(keys)[k].at = now
<1>1. life \in [Keys -> LifeRec] /\ now \in Nat
  BY Types
<1>2. [stage |-> "ended", at |-> now] \in LifeRec
  BY <1>1 DEF LifeRec
<1> QED BY <1>1, <1>2 DEF Ended

\* A host takes a command on.
LEMMA CommandTyped ==
  ASSUME TypeOK, Purposeful, NEW h \in Hosts, NEW op \in {"key_revoked", "tenant_erased"},
         NEW keys \in SUBSET Keys, Command(h, op, keys)
  PROVE  /\ ops' \in Nat /\ admin' \in [Hosts -> AdminRec] /\ Purposeful'
         /\ UNCHANGED <<now, cacheVars, getVars, ghosts, inbox>>
<1>1. ops \in Nat /\ admin \in [Hosts -> AdminRec]
  BY Types
<1>2. [st |-> IF h \in Replicas THEN "stored" ELSE "evicted", op |-> op, keys |-> keys] \in AdminRec
  BY DEF AdminRec
<1>3. ops' \in Nat /\ admin' \in [Hosts -> AdminRec] /\ UNCHANGED <<now, cacheVars, getVars, ghosts, inbox>>
  BY <1>1, <1>2 DEF Command
<1>4. Purposeful'
  BY <1>1 DEF Command, Purposeful
<1> QED BY <1>3, <1>4

\* The commands of an operator.
LEMMA CommandStep ==
  ASSUME IInv, \/ \E k \in Keys : CreateKey(k)
               \/ \E h \in Hosts, k \in Keys : RevokeKey(h, k)
               \/ \E h \in Hosts, t \in Tenants : EraseTenant(h, t)
  PROVE  IInv'
<1>1. TypeOK /\ Purposeful /\ life \in [Keys -> LifeRec] /\ now \in Nat
  BY Types DEF IInv
<1>2. ASSUME NEW k \in Keys, CreateKey(k) PROVE IInv'
  <2>1. [stage |-> "live", at |-> now] \in LifeRec
    BY <1>1 DEF LifeRec
  <2>2. /\ life' \in [Keys -> LifeRec]
        /\ \A o \in Keys : life'[o] = IF o = k THEN [stage |-> "live", at |-> now] ELSE life[o]
    BY <1>1, <1>2, <2>1 DEF CreateKey
  <2>3. ops' \in Nat /\ admin' \in [Hosts -> AdminRec] /\ Purposeful'
    BY <1>1, <1>2, Types DEF CreateKey, adminVars, Purposeful
  <2>4. life[k].stage = "absent" /\ UNCHANGED <<now, cacheVars, getVars, ghosts, inbox>>
    BY <1>2 DEF CreateKey
  <2> QED BY <2>2, <2>3, <2>4, LifeStep
<1>3. ASSUME NEW h \in Hosts, NEW k \in Keys, RevokeKey(h, k) PROVE IInv'
  <2>1. life' = Ended({k}) /\ Command(h, "key_revoked", {k})
    BY <1>3 DEF RevokeKey
  <2> QED BY <1>1, <2>1, EndedLife, CommandTyped, LifeStep
<1>4. ASSUME NEW h \in Hosts, NEW t \in Tenants, EraseTenant(h, t) PROVE IInv'
  <2>1. OwnedBy(t) \in SUBSET Keys
    BY DEF OwnedBy
  <2>2. /\ life' = Ended(OwnedBy(t)) \/ life' = life
        /\ Command(h, "tenant_erased", OwnedBy(t))
    BY <1>4 DEF EraseTenant
  <2> QED BY <1>1, <2>1, <2>2, EndedLife, CommandTyped, LifeStep
<1> QED BY <1>2, <1>3, <1>4

\* An eviction takes the entries away; a live record in the hands of a lookup is what it
\* crosses.
LEMMA EvictStep ==
  ASSUME IInv, NEW r \in Replicas, NEW op, NEW keys \in SUBSET Keys, Evict(r, op, keys),
         UNCHANGED <<now, life, getVars, ops>>,
         admin' \in [Hosts -> AdminRec], Purposeful', inbox' \in [Replicas -> Seq(EventRec)]
  PROVE  IInv'
<1>1. TypeOK
  BY DEF IInv
<1>2. /\ now' = now /\ life' = life /\ caller' = caller /\ flight' = flight /\ ops' = ops
  BY DEF getVars
<1>3. /\ pos \in [Replicas -> [Keys -> Expiries]] /\ neg \in [Replicas -> [Keys -> Expiries]]
      /\ evicted \in [Replicas -> SUBSET Keys] /\ crossed \in [Replicas -> SUBSET Keys]
      /\ None \in Expiries /\ now \in Nat /\ life \in [Keys -> LifeRec]
  BY <1>1, Types DEF Expiries
<1>4. /\ pos' \in [Replicas -> [Keys -> Expiries]]
      /\ \A q \in Replicas, k \in Keys : pos'[q][k] = IF q = r /\ k \in keys THEN None ELSE pos[q][k]
  BY <1>3 DEF Evict
<1>5. /\ neg' \in [Replicas -> [Keys -> Expiries]]
      /\ \A q \in Replicas, k \in Keys : neg'[q][k] \in {neg[q][k], None}
  <2>1. CASE op = "tenant_erased"
    BY <1>3, <2>1 DEF Evict
  <2>2. CASE op # "tenant_erased"
    BY <1>3, <2>2 DEF Evict
  <2> QED BY <2>1, <2>2
<1>6. /\ evicted' \in [Replicas -> SUBSET Keys]
      /\ \A q \in Replicas, k \in Keys :
           k \in evicted'[q] <=> k \in evicted[q] \/ (q = r /\ k \in keys /\ life[k].stage = "ended")
  BY <1>3 DEF Evict
<1>7. /\ crossed' \in [Replicas -> SUBSET Keys]
      /\ \A q \in Replicas, k \in Keys :
           k \in crossed'[q] <=> \/ k \in crossed[q]
                                 \/ /\ q = r /\ k \in keys /\ life[k].stage = "ended"
                                    /\ flight[r][k].st = "found"
  BY <1>3 DEF Evict
<1>8. TypeOK'
  <2>1. \A q \in Replicas : Cardinality(Held(q)') <= Capacity
    <3>1. \A q \in Replicas, k \in Keys : pos'[q][k] # None => pos[q][k] # None
      BY <1>4
    <3> QED BY <1>1, <3>1, Types, FewerHeld
  <2>2. /\ now' \in Nat /\ ops' \in Nat /\ life' \in [Keys -> LifeRec]
        /\ caller' \in [Replicas -> [Keys -> BOOLEAN]]
        /\ flight' \in [Replicas -> [Keys -> FlightRec]]
    BY <1>1, <1>2, Types
  <2> QED BY <1>4, <1>5, <1>6, <1>7, <2>1, <2>2
          DEF TypeOK, Expiries, LifeRec, FlightRec, AdminRec, EventRec, Held
<1>9. ASSUME NEW q \in Replicas, NEW k \in Keys PROVE Cell(q, k)' /\ Gone(q, k)'
  <2>1. Cell(q, k) /\ Gone(q, k)
    BY DEF IInv
  <2>2. Cell(q, k)'
    <3>1. (pos'[q][k] = pos[q][k] \/ pos'[q][k] = -1) /\ (neg'[q][k] = neg[q][k] \/ neg'[q][k] = -1)
      BY <1>4, <1>5 DEF None
    <3> QED BY <1>2, <1>3, <2>1, <3>1, AuthCacheAssumption DEF Cell, CellOK, LifeRec
  <2>3. Gone(q, k)'
    <3>1. CASE q = r /\ k \in keys /\ life[k].stage = "ended"
      <4>1. pos'[q][k] = None /\ (k \notin crossed'[q] => flight[q][k].st # "found")
        BY <1>4, <1>7, <3>1
      <4> QED BY <1>2, <3>1, <4>1 DEF Gone
    <3>2. CASE ~(q = r /\ k \in keys /\ life[k].stage = "ended")
      <4>1. (k \in evicted'[q] <=> k \in evicted[q]) /\ (k \in crossed'[q] <=> k \in crossed[q])
            /\ (pos'[q][k] = pos[q][k] \/ pos'[q][k] = None)
        BY <1>4, <1>6, <1>7, <3>2
      <4> QED BY <1>2, <2>1, <4>1 DEF Gone
    <3> QED BY <3>1, <3>2
  <2> QED BY <2>2, <2>3
<1> QED BY <1>8, <1>9 DEF IInv

\* The clock waits for lookups that are at their timeout.
LEMMA TickStep == ASSUME IInv, Tick PROVE IInv'
<1>1. TypeOK
  BY DEF IInv
<1>2. /\ now' = now + 1 /\ now \in Nat /\ life' = life /\ pos' = pos /\ neg' = neg /\ caller' = caller
      /\ flight' = flight /\ ops' = ops /\ admin' = admin /\ inbox' = inbox
      /\ evicted' = evicted /\ crossed' = crossed
  BY <1>1 DEF Tick, TypeOK, cacheVars, getVars, adminVars, ghosts
<1>3. TypeOK'
  <2>1. now' \in Nat
    BY <1>2
  <2> QED BY <1>1, <1>2, <2>1 DEF TypeOK
<1>4. ASSUME NEW r \in Replicas, NEW k \in Keys PROVE Cell(r, k)' /\ Gone(r, k)'
  <2>1. Cell(r, k) /\ Gone(r, k)
    BY DEF IInv
  <2>2. /\ life[k] \in LifeRec /\ pos[r][k] \in Expiries /\ neg[r][k] \in Expiries
        /\ flight[r][k] \in FlightRec
    BY <1>1, Types
  <2>3. flight[r][k].st \in {"looking", "found", "unknown"} => now < flight[r][k].since + LookupTimeout
    BY DEF Tick
  <2>4. Cell(r, k)'
    BY <1>2, <2>1, <2>2, <2>3, AuthCacheAssumption DEF Cell, CellOK, LifeRec, FlightRec, Expiries, None
  <2>5. Gone(r, k)'
    BY <1>2, <2>1 DEF Gone
  <2> QED BY <2>4, <2>5
<1>5. Purposeful'
  BY <1>2 DEF IInv, Purposeful
<1> QED BY <1>3, <1>4, <1>5 DEF IInv

----------------------------------------------------------------------------
\* Every step keeps the invariant.
LEMMA NextStep == ASSUME IInv, [Next]_vars PROVE IInv'
<1>1. /\ TypeOK /\ Purposeful
      /\ admin \in [Hosts -> AdminRec] /\ inbox \in [Replicas -> Seq(EventRec)]
      /\ life \in [Keys -> LifeRec] /\ ops \in Nat
      /\ Replicas \subseteq Hosts
  BY Types DEF IInv, Hosts
<1>2. ASSUME NEW h \in Hosts, Announce(h) PROVE IInv'
  <2>1. admin[h] \in AdminRec /\ Idle \in AdminRec /\ admin[h].st = "evicted"
    BY <1>1, <1>2 DEF Idle, AdminRec, Announce
  <2>2. admin' \in [Hosts -> AdminRec] /\ Purposeful'
    BY <1>1, <1>2, <2>1 DEF Announce, Purposeful, Idle
  <2>3. [op |-> admin[h].op, keys |-> admin[h].keys] \in EventRec
    BY <1>1, <2>1 DEF AdminRec, EventRec, Purposeful
  <2>4. inbox' \in [Replicas -> Seq(EventRec)]
    BY <1>1, <1>2, <2>3, BusKeeps DEF Announce
  <2>5. UNCHANGED <<now, life, cacheVars, getVars, ops, ghosts>>
    BY <1>2 DEF Announce
  <2>6. TypeOK'
    BY <1>1, <2>2, <2>4, <2>5 DEF TypeOK, AdminRec, EventRec, cacheVars, getVars, ghosts
  <2>7. \A r \in Replicas, k \in Keys : Cell(r, k)' /\ Gone(r, k)'
    BY <2>5 DEF IInv, Cell, Gone, cacheVars, getVars, ghosts
  <2> QED BY <2>2, <2>6, <2>7 DEF IInv
<1>3. ASSUME NEW r \in Replicas, EvictLocal(r) PROVE IInv'
  <2>1. admin[r] \in AdminRec /\ admin[r].keys \in SUBSET Keys
    BY <1>1 DEF AdminRec
  <2>2. admin' \in [Hosts -> AdminRec]
    BY <1>1, <1>3, <2>1 DEF EvictLocal, AdminRec
  <2>3. Purposeful'
    <3>1. admin[r].st = "stored" /\ admin' = [admin EXCEPT ![r].st = "evicted"]
      BY <1>3 DEF EvictLocal
    <3>2. \A h \in Hosts : admin'[h].op = admin[h].op /\ (h # r => admin'[h].st = admin[h].st)
      BY <1>1, <2>1, <3>1 DEF AdminRec
    <3> QED BY <1>1, <3>1, <3>2 DEF Purposeful
  <2>4. Evict(r, admin[r].op, admin[r].keys) /\ UNCHANGED <<now, life, getVars, ops, inbox>>
    BY <1>3 DEF EvictLocal
  <2> QED BY <1>1, <2>1, <2>2, <2>3, <2>4, EvictStep
<1>4. ASSUME NEW r \in Replicas, Dispatch(r) PROVE IInv'
  <2>1. Head(inbox[r]) \in EventRec /\ Head(inbox[r]).keys \in SUBSET Keys
    <3>1. inbox[r] \in Seq(EventRec) /\ inbox[r] # << >>
      BY <1>1, <1>4 DEF Dispatch, Take
    <3>2. Head(inbox[r]) \in EventRec
      BY <3>1
    <3> QED BY <3>2 DEF EventRec
  <2>2. inbox' \in [Replicas -> Seq(EventRec)]
    BY <1>1, <1>4, BusKeeps DEF Dispatch
  <2>3. /\ Evict(r, Head(inbox[r]).op, Head(inbox[r]).keys)
        /\ UNCHANGED <<now, life, getVars, ops, admin>>
    BY <1>4 DEF Dispatch, adminVars
  <2>4. admin' \in [Hosts -> AdminRec] /\ Purposeful'
    BY <1>1, <2>3 DEF Purposeful
  <2> QED BY <2>1, <2>2, <2>3, <2>4, EvictStep
<1>5. CASE UNCHANGED vars
  <2>1. /\ UNCHANGED <<now, cacheVars, getVars, ghosts, inbox>> /\ life' = life
        /\ ops' = ops /\ admin' = admin
    BY <1>5 DEF vars, adminVars
  <2>2. Purposeful'
    BY <1>1, <2>1 DEF Purposeful
  <2> QED BY <1>1, <2>1, <2>2, LifeStep
<1>6. CASE \E r \in Replicas, k \in Keys :
             \/ Miss(r, k) \/ Begin(r, k) \/ Check(r, k) \/ Lookup(r, k) \/ Accept(r, k) \/ Refuse(r, k)
  BY <1>6, GetStep, AcceptStep
<1>7. CASE \/ \E k \in Keys : CreateKey(k)
           \/ \E h \in Hosts, k \in Keys : RevokeKey(h, k)
           \/ \E h \in Hosts, t \in Tenants : EraseTenant(h, t)
  BY <1>7, CommandStep
<1> QED BY <1>2, <1>3, <1>4, <1>5, <1>6, <1>7, TickStep DEF Next

\* The invariant holds in every reachable state.
THEOREM Inductive == Spec => []IInv
  BY InitSound, NextStep, PTL DEF Spec

\* With every event lost, a revoked or erased key is let in for a lookup's timeout and a
\* positive TTL at most after its end, and a new one turned away for a timeout and a
\* negative TTL at most after its creation.
THEOREM AnswersStayRecent == Spec => []AnswersRecent
<1>1. ASSUME IInv, NEW r \in Replicas, NEW k \in Keys
      PROVE  /\ (life[k].stage = "ended" /\ LetsIn(r, k)) => now <= life[k].at + LookupTimeout + PosTTL
             /\ (life[k].stage = "live" /\ TurnsAway(r, k)) => now <= life[k].at + LookupTimeout + NegTTL
  <2>1. Cell(r, k) /\ TypeOK
    BY <1>1 DEF IInv
  <2>2. /\ now \in Nat /\ life[k] \in LifeRec /\ pos[r][k] \in Expiries /\ neg[r][k] \in Expiries
        /\ flight[r][k] \in FlightRec
    BY <2>1, Types
  <2> QED BY <2>1, <2>2, AuthCacheAssumption
          DEF Cell, CellOK, LetsIn, TurnsAway, Hit, LifeRec, FlightRec, Expiries, None
<1>2. IInv => AnswersRecent
  BY <1>1 DEF AnswersRecent
<1> QED BY <1>2, Inductive, PTL

\* A key that a replica evicted after its end is not let in there again, unless a lookup
\* had its live record in hand; the positive cache never outgrows its capacity.
THEOREM EvictedStaysOut == Spec => []EvictedUnlessCrossed
<1>1. ASSUME IInv PROVE EvictedUnlessCrossed
  <2>1. TypeOK
    BY <1>1 DEF IInv
  <2>2. ASSUME NEW r \in Replicas, NEW k \in evicted[r] \ crossed[r] PROVE ~LetsIn(r, k)
    <3>1. k \in Keys
      BY <2>1, Types
    <3>2. pos[r][k] = None /\ flight[r][k].st # "found"
      BY <1>1, <3>1 DEF IInv, Gone
    <3> QED BY <3>2 DEF LetsIn, Hit
  <2> QED BY <2>1, <2>2 DEF EvictedUnlessCrossed
<1> QED BY <1>1, Inductive, PTL
=============================================================================
