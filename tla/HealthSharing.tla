--------------------------- MODULE HealthSharing ---------------------------
(***************************************************************************)
(* The health of one upstream target as the replicas see it: each          *)
(* replica's tracker (internal/health/tracker.go), its prober (prober.go)  *)
(* and the two ways in which replicas share what they measured, a Redis    *)
(* hash (redis.go) and signed UDP gossip (gossip.go).                      *)
(*                                                                         *)
(* A moving average is an integer in 0..Scale; a step of it may round      *)
(* either way, as the text format of a gossip packet does.  Times are ages *)
(* in ticks, cut off where nothing distinguishes them any more, and so are *)
(* the sample counts, at Cap.                                              *)
(***************************************************************************)
EXTENDS Integers, FiniteSets

CONSTANTS
    Replicas,
    Metrics,               \* those with an SLO, of ttft, tokens per second, error rate
    LowIsBad, ErrorRate,   \* of these, tokens per second; the error rate
    Scale,
    Limits,                \* [Metrics -> SLO]
    AlphaNum, AlphaDen,    \* health.alpha
    MinSamples, Breaches, Recover,
    MaxCount,              \* 1 000 000 in the code
    Cap,                   \* a count of Cap stands for every larger one
    Secret,                \* [Replicas -> gossip secret]
    Skew,                  \* age at which a signed packet is refused
    RedisTTL,              \* age at which a report in Redis is stale
    Plans,                 \* what a reload may install: routed, with an SLO
    MaxChanges, MaxPackets \* bounds: reloads and crashes, packets in flight

ASSUME HealthAssumption ==
    /\ LowIsBad \subseteq Metrics /\ ErrorRate \notin LowIsBad
    /\ Scale \in Nat \ {0} /\ Limits \in [Metrics -> 0..Scale]
    /\ AlphaDen \in Nat \ {0} /\ AlphaNum \in 1..AlphaDen
    /\ Plans \subseteq [known : BOOLEAN, slo : BOOLEAN]
    /\ {MinSamples, Breaches, Recover, MaxCount, Cap} \subseteq Nat \ {0}
    /\ Cap \in MinSamples..MaxCount + 1
    /\ {Skew, RedisTTL} \subseteq Nat

VARIABLES
    tracker,    \* per replica: averages v, counts n, breaches, degraded, age
                \* of the last breach
    cfg,        \* per replica: the target is routed, it has an SLO
    net,        \* gossip packets in flight
    redis,      \* fields of the hash health:<target>
    mode,       \* health.share_mode
    up,         \* replicas that are running
    due,        \* replicas whose probe ticker has fired
    changes,
    missed      \* history: some replica saw a request fail or miss the SLO

healthVars == <<tracker, cfg, net, redis, mode, up, due, changes, missed>>
environment == <<mode, up, changes>>

Empty == [v |-> [m \in Metrics |-> 0], n |-> [m \in Metrics |-> 0],
          breaches |-> 0, degraded |-> FALSE, age |-> Recover]

HealthInit ==
    /\ tracker = [r \in Replicas |-> Empty]
    /\ cfg = [r \in Replicas |-> [known |-> TRUE, slo |-> TRUE]]
    /\ net = {} /\ redis = {}
    /\ mode \in {"redis", "gossip"}
    /\ up = Replicas /\ due = {} /\ changes = 0 /\ missed = FALSE

-----------------------------------------------------------------------------
(* Tracker                                                                  *)

AtMost(x, b) == IF x > b THEN b ELSE x

(* (1-a)*old + a*x for a = num/den.                                        *)
Blends(old, x, num, den) ==
    LET sum == (den - num) * old + num * x
    IN {sum \div den, (sum + den - 1) \div den}

\* Mutant of Enough: an average counts before it was measured.
EnoughAtOnce(e, m) == TRUE

Enough(e, m) == e.n[m] >= IF m \in LowIsBad THEN MinSamples \div 2 + 1 ELSE MinSamples

Outside(m, x) == IF m \in LowIsBad THEN x < Limits[m] ELSE x > Limits[m]

Breach(e, m) == Enough(e, m) /\ Outside(m, e.v[m])

(* evaluate: a breach counts; a measured clean state clears the count, and *)
(* recovers the target once the last breach is old enough.                 *)
Evaluate(e, slo) ==
    IF ~slo THEN e
    ELSE IF \E m \in Metrics : Breach(e, m)
      THEN [e EXCEPT !.breaches = AtMost(@ + 1, Breaches), !.age = 0,
                     !.degraded = @ \/ e.breaches + 1 >= Breaches]
    ELSE [e EXCEPT !.breaches = IF \E m \in Metrics : Enough(e, m) THEN 0 ELSE @,
                   !.degraded = @ /\ e.age < Recover]

(* What Observe can make of an entry with a sample: a function from the    *)
(* metrics it carries to their values.                                     *)
Observed(e, sample, slo) ==
    {Evaluate([e EXCEPT !.v = v,
                        !.n = [m \in Metrics |-> IF m \in DOMAIN sample
                                 THEN AtMost(e.n[m] + 1, Cap) ELSE e.n[m]]], slo) :
       v \in {w \in [Metrics -> 0..2 * Scale] : \A m \in Metrics :
                w[m] \in IF m \notin DOMAIN sample THEN {e.v[m]}
                         ELSE IF e.n[m] = 0 THEN {sample[m]}
                         ELSE Blends(e.v[m], sample[m], AlphaNum, AlphaDen)}}

\* Mutant of PeerDegraded: a report also renews the age of a degraded target.
PeerDegradedAgain(e, peer) ==
    IF ~peer.degraded THEN e
    ELSE LET full == e.breaches + 1 >= Breaches \/ e.degraded
         IN [e EXCEPT !.breaches = AtMost(@ + 1, Breaches),
                      !.degraded = full, !.age = IF full THEN 0 ELSE @]

PeerDegraded(e, peer) ==
    IF ~peer.degraded \/ e.degraded THEN e
    ELSE LET full == e.breaches + 1 >= Breaches
         IN [e EXCEPT !.breaches = AtMost(@ + 1, Breaches),
                      !.degraded = full, !.age = IF full THEN 0 ELSE @]

(* validateStats and the bounds of Merge.  A capped count may be on either *)
(* side of MaxCount.                                                       *)
MayAccept(s) == \A m \in Metrics : s.n[m] <= MaxCount
MayReject(s) == \E m \in Metrics : s.n[m] = Cap

(* What Merge can make of an entry and a peer's report.                    *)
Merged(e, peer, c) ==
    (IF ~c.known \/ MayReject(peer) THEN {e} ELSE {})
    \cup
    IF ~c.known \/ ~MayAccept(peer) THEN {}
    ELSE {Evaluate(PeerDegraded(
            [e EXCEPT !.v = v,
                      !.n = [m \in Metrics |-> AtMost(e.n[m] + peer.n[m], Cap)]],
            peer), c.slo) :
          v \in {w \in [Metrics -> 0..2 * Scale] : \A m \in Metrics :
                   w[m] \in IF peer.n[m] = 0 THEN {e.v[m]}
                            ELSE IF e.n[m] = 0 THEN {peer.v[m]}
                            ELSE Blends(e.v[m], peer.v[m], 1, 10)}}

Report(r) == [v |-> tracker[r].v, n |-> tracker[r].n, degraded |-> tracker[r].degraded]

-----------------------------------------------------------------------------
(* Samples                                                                  *)

(* What is timed of a request: a successful one its first token or its     *)
(* rate, however slow; one whose caller hung up at most its rate so far.   *)
Timed(outcome) ==
    CASE outcome = "ok" -> SUBSET (Metrics \ {ErrorRate})
      [] outcome = "unknown" -> SUBSET LowIsBad
      [] outcome = "failed" -> {{}}

(* An unknown outcome (the caller hung up) says nothing of the errors.     *)
Counted(outcome) == IF outcome = "unknown" THEN {} ELSE {ErrorRate}

(* What a request measures, and that some of it is outside the SLO.        *)
Samples(outcome) ==
    {s \in UNION {[T \cup Counted(outcome) -> 0..Scale] : T \in Timed(outcome)} :
       ErrorRate \in DOMAIN s => s[ErrorRate] = IF outcome = "failed" THEN Scale ELSE 0}

Misses(outcome, sample) ==
    \/ outcome = "failed"
    \/ \E m \in (DOMAIN sample \cap Metrics) \ {ErrorRate} : Outside(m, sample[m])

Observe(r, outcome) ==
    \E sample \in Samples(outcome) :
      /\ missed' = (missed \/ Misses(outcome, sample))
      /\ tracker' \in {[tracker EXCEPT ![r] = e] :
                         e \in Observed(tracker[r], sample, cfg[r].slo)}

Request(r) ==
    /\ \E outcome \in {"ok", "failed", "unknown"} : Observe(r, outcome)
    /\ UNCHANGED <<cfg, net, redis, environment, due>>

(* Prober.Tick: a degraded target is probed and the result observed.  A    *)
(* probe answered after the target has recovered is one more Request.      *)
Probe(r) ==
    /\ r \in due /\ tracker[r].degraded
    /\ due' = due \ {r}
    /\ \E outcome \in {"ok", "failed"} : Observe(r, outcome)
    /\ UNCHANGED <<cfg, net, redis, environment>>

-----------------------------------------------------------------------------
(* Gossip                                                                   *)

(* A packet is signed with the sender's secret; an entry without a         *)
(* measurement is not sent.                                                *)
BroadcastOnce(r) ==
    /\ mode = "gossip"
    /\ tracker[r].degraded \/ \E m \in Metrics : tracker[r].n[m] > 0
    /\ LET sent == {[from |-> r, to |-> q, sig |-> Secret[r], stats |-> Report(r), age |-> 0] :
                      q \in Replicas \ {r}}
       IN net' = net \cup sent
    /\ Cardinality(net') <= MaxPackets
    /\ UNCHANGED <<tracker, cfg, redis, environment, due, missed>>

(* MergeMessage: the signature and the timestamp are checked.  UDP may     *)
(* deliver a packet again, late, or never.                                 *)
MergeMessage(p) ==
    /\ p.to \in up
    /\ net' \in {net, net \ {p}}
    /\ tracker' \in IF p.sig = Secret[p.to] /\ p.age <= Skew
                      THEN {[tracker EXCEPT ![p.to] = e] :
                              e \in Merged(tracker[p.to], p.stats, cfg[p.to])}
                      ELSE {tracker}
    /\ UNCHANGED <<cfg, redis, environment, due, missed>>

Lose(p) ==
    /\ net' = net \ {p}
    /\ UNCHANGED <<tracker, cfg, redis, environment, due, missed>>

-----------------------------------------------------------------------------
(* Redis                                                                    *)

(* HSET of the replica's field and EXPIRE of the hash, or neither when     *)
(* Redis is away.  A target that is no longer routed is not published.     *)
PublishOnce(r) ==
    /\ mode = "redis" /\ cfg[r].known
    /\ redis' = {f \in redis : f.from # r}
                  \cup {[from |-> r, stats |-> Report(r), age |-> 0]}
    /\ UNCHANGED <<tracker, cfg, net, environment, due, missed>>

(* pullOnce, for one field: HDEL when it is stale, else Merge.             *)
PullField(r, f) ==
    /\ mode = "redis" /\ cfg[r].known
    /\ f.from # r
    /\ IF f.age > RedisTTL
         THEN redis' = redis \ {f} /\ UNCHANGED tracker
         ELSE /\ tracker' \in {[tracker EXCEPT ![r] = e] :
                                 e \in Merged(tracker[r], f.stats, cfg[r])}
              /\ UNCHANGED redis
    /\ UNCHANGED <<cfg, net, environment, due, missed>>

-----------------------------------------------------------------------------
(* Environment                                                              *)

(* rebuild: SetTargets and SetSLOs of a new configuration.                 *)
SetTargets(r) ==
    /\ changes < MaxChanges /\ changes' = changes + 1
    /\ \E plan \in Plans : cfg' = [cfg EXCEPT ![r] = plan]
    /\ UNCHANGED <<tracker, net, redis, mode, up, due, missed>>

(* The process ends; what it reported stays.  A restarted process has a    *)
(* fresh replica id and is another member of Replicas.                     *)
Crash(r) ==
    /\ changes < MaxChanges /\ changes' = changes + 1
    /\ up' = up \ {r}
    /\ tracker' = [tracker EXCEPT ![r] = Empty]
    /\ UNCHANGED <<cfg, net, redis, mode, due, missed>>

(* The hash expires when nobody has published for RedisTTL.                *)
Tick ==
    /\ tracker' = [r \in Replicas |-> [tracker[r] EXCEPT !.age = AtMost(@ + 1, Recover)]]
    /\ net' = {[p EXCEPT !.age = @ + 1] : p \in {q \in net : q.age <= Skew}}
    /\ redis' = IF \A f \in redis : f.age >= RedisTTL THEN {}
                ELSE {[f EXCEPT !.age = AtMost(@ + 1, RedisTTL + 1)] : f \in redis}
    /\ due' = {r \in up : tracker[r].degraded}
    /\ UNCHANGED <<cfg, environment, missed>>

HealthNext ==
    \/ \E r \in up :
         \/ Request(r) \/ Probe(r)
         \/ BroadcastOnce(r) \/ PublishOnce(r) \/ \E f \in redis : PullField(r, f)
         \/ SetTargets(r) \/ Crash(r)
    \/ \E p \in net : MergeMessage(p) \/ Lose(p)
    \/ Tick

(* The prober's ticker and the clock go on; nothing is assumed of the      *)
(* traffic, the network or Redis.                                          *)
HealthFairness ==
    /\ WF_healthVars(Tick)
    /\ \A r \in Replicas : WF_healthVars(r \in up /\ Probe(r))

HealthSpec == HealthInit /\ [][HealthNext]_healthVars /\ HealthFairness

-----------------------------------------------------------------------------
(* Averages stay on the scale whatever is merged, in the trackers and in   *)
(* what they send.                                                         *)
HealthTypeOK ==
    /\ \A r \in Replicas :
         /\ tracker[r].v \in [Metrics -> 0..Scale]
         /\ tracker[r].n \in [Metrics -> 0..Cap]
         /\ tracker[r].breaches \in 0..Breaches /\ tracker[r].age \in 0..Recover
    /\ \A x \in net \cup redis : x.stats.v \in [Metrics -> 0..Scale]

(* A target is marked degraded, anywhere, only after a request of some     *)
(* replica failed or was slower than the SLO: callers that hang up do not  *)
(* count as errors, and averaging, rounding and reports that go round      *)
(* between replicas never add up to a breach that nobody measured.         *)
NoRumour == HealthTypeOK /\ ((\E r \in Replicas : tracker[r].degraded) => missed)

(* The average is measured and within the SLO.                             *)
Clean(r) ==
    /\ cfg[r].slo
    /\ \E m \in Metrics : Enough(tracker[r], m)
    /\ \A m \in Metrics : ~Breach(tracker[r], m)

(* A replica whose own average stays within the SLO stops avoiding the     *)
(* target for good: the reports of peers that still believe it degraded,   *)
(* duplicated or stale ones included, cannot keep it degraded.             *)
EchoDies == \A r \in Replicas : <>[]Clean(r) => <>[]~tracker[r].degraded

(* What a replica sends about real requests is what its peers accept:      *)
(* "Merge blends peer stats ... while rapidly spreading upstream           *)
(* degradation awareness across replicas" (tracker.go:145-147).            *)
ReportsAccepted == \A r \in Replicas : MayAccept(Report(r))
=============================================================================
