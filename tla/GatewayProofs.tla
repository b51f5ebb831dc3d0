--------------------------- MODULE GatewayProofs ---------------------------
(***************************************************************************)
(* Proofs about the parts of a gateway that have their own specifications  *)
(* next to the path of a request: ControlLoop for any number of processes, *)
(* any files, rows and environment (the runtime of a settled process is    *)
(* the newest file with the newest overrides, and always a valid           *)
(* configuration); HealthSharing for any replicas, metrics and weights (no *)
(* target is degraded by rumour); Serving for any calls, streams and       *)
(* bounds (only whole answers are stored, and no accepted row is lost).    *)
(***************************************************************************)
EXTENDS ControlLoop, HealthSharing, Serving, FiniteSetTheorems, SequenceTheorems, TLAPS

(* Control loop                                                             *)

\* The fields of the records that defaults and overlay write to.
CacheFields == {"mode", "threshold", "audit", "semantic", "embedding_route", "acknowledged"}
ConfigFields ==
  {"num", "redis", "admin_addr", "admin_auth", "store_text", "sample_rate", "fuzzy_threshold",
   "alpha", "min_threshold", "session", "share_mode", "gossip_addr", "gossip_secret",
   "unsigned_gossip", "providers", "pricing", "slos", "require_pricing", "routes", "mcp_servers",
   "mcp_insecure_hosts", "trusted_proxies"}

RouteKeys == {"name", "slashed", "targets", "strategy", "embeddings", "num", "hedge", "hedge_extra", "injection",
              "pii", "smart", "smart_targets", "cache"}

\* What a parsed file is: a record with its fields, down to the routes' caches.
Shaped(c) ==
  /\ DOMAIN c = ConfigFields
  /\ \E S : c.routes \in Seq(S)
  /\ \A k \in DOMAIN c.routes : /\ DOMAIN c.routes[k] = RouteKeys
                                /\ DOMAIN c.routes[k].cache = CacheFields
                                /\ c.routes[k].name \in Text

-----------------------------------------------------------------------------
\* A route with its defaults has the fields it had.
LEMMA DefaultShape ==
  ASSUME NEW r \in RouteConfig
  PROVE  /\ DOMAIN DefaultRoute(r) = RouteKeys /\ DOMAIN DefaultRoute(r).cache = CacheFields
         /\ DefaultRoute(r).name \in Text
<1>1. DOMAIN r = RouteKeys
  BY DEF RouteConfig, RouteKeys
<1>2. DOMAIN r.cache = CacheFields
  BY DEF RouteConfig, CacheConfig, CacheFields
<1>3. DOMAIN DefaultRoute(r) = RouteKeys /\ DOMAIN DefaultRoute(r).cache = CacheFields
  BY <1>1, <1>2 DEF DefaultRoute, RouteKeys, CacheFields
<1>4. DefaultRoute(r).name = r.name
  BY <1>1 DEF DefaultRoute, RouteKeys
<1>5. r.name \in Text
  BY DEF RouteConfig
<1> QED BY <1>3, <1>4, <1>5

\* Environment and defaults keep the fields; every number is defaulted.
LEMMA ParsedShape ==
  ASSUME NEW raw \in [known_fields : BOOLEAN, config : ConfigFile]
  PROVE  /\ Shaped(Parsed(raw, Env))
         /\ \A f \in Checked \cup Unchecked :
              Parsed(raw, Env).num[f] \in Int /\ Parsed(raw, Env).num[f] # 0
<1> DEFINE c == raw.config
           e == applyEnvOverrides(c, Env)
           p == applyDefaults(e)
<1>1. c \in ConfigFile
  OBVIOUS
<1>2. DOMAIN c = ConfigFields /\ c.num \in [Checked \cup Unchecked -> Int] /\ c.routes \in Seq(RouteConfig)
  BY <1>1 DEF ConfigFile, ConfigFields
<1> HIDE DEF c
<1>3. DOMAIN e = ConfigFields /\ e.num = c.num /\ e.routes = c.routes
  BY <1>2 DEF applyEnvOverrides, ConfigFields
<1> HIDE DEF e
<1>4. /\ DOMAIN p = ConfigFields
      /\ p.num = [f \in Checked \cup Unchecked |-> Positive(e.num[f])]
      /\ p.routes = [k \in DOMAIN e.routes |-> DefaultRoute(e.routes[k])]
  BY <1>3 DEF applyDefaults, ConfigFields
<1> HIDE DEF p
<1>5. \A k \in DOMAIN e.routes : e.routes[k] \in RouteConfig
  BY <1>2, <1>3
<1>6. Shaped(p)
  <2> DEFINE S == {DefaultRoute(r) : r \in RouteConfig}
             n == Len(e.routes)
  <2>1. n \in Nat /\ DOMAIN e.routes = 1 .. n
    BY <1>2, <1>3
  <2>2. p.routes \in [1 .. n -> S]
    BY <1>4, <1>5, <2>1
  <2>3. p.routes \in Seq(S)
    <3> HIDE DEF S, n
    <3> QED BY <2>1, <2>2
  <2> QED BY <1>4, <1>5, <2>3, DefaultShape DEF Shaped
<1>7. \A f \in Checked \cup Unchecked : p.num[f] \in Int /\ p.num[f] # 0
  BY <1>2, <1>3, <1>4 DEF Positive
<1> QED BY <1>6, <1>7 DEF Parsed, p, e, c

-----------------------------------------------------------------------------
\* An override that is taken has a value its field allows.
LEMMA EffectiveValue ==
  ASSUME NEW r, NEW table, NEW key, NEW configured,
         Effective(r, table, key, configured) # configured
  PROVE  \E o \in table : o.key = key /\ Acceptable(o) /\ Effective(r, table, key, configured) = o.value
<1> DEFINE mine == {o \in table : o.route = r.name /\ o.key = key /\ Acceptable(o)}
<1>1. mine # {} /\ Effective(r, table, key, configured) = (CHOOSE o \in mine : TRUE).value
  BY DEF Effective
<1>2. (CHOOSE o \in mine : TRUE) \in mine
  BY <1>1
<1> QED BY <1>1, <1>2

LEMMA EffectiveMode ==
  ASSUME NEW r, NEW table, NEW key \in {"cache.mode", "smart_route.mode"}, NEW configured
  PROVE  Effective(r, table, key, configured) \in Modes \cup {configured}
BY EffectiveValue DEF Acceptable

LEMMA EffectiveThreshold ==
  ASSUME NEW r, NEW table, NEW configured
  PROVE  Effective(r, table, "cache.threshold", configured) \in (1 .. 100) \cup {configured}
BY EffectiveValue DEF Acceptable

\* The overlay changes the two modes, the threshold and the audit rate of a route only.
LEMMA OverlaidRoute ==
  ASSUME NEW r, NEW table, DOMAIN r = RouteKeys, DOMAIN r.cache = CacheFields
  PROVE  LET s == OverlayRoute(r, table)
         IN  /\ \A f \in RouteKeys \ {"cache", "smart"} : s[f] = r[f]
             /\ s.smart \in Modes \cup {r.smart}
             /\ s.cache.mode \in Modes \cup {r.cache.mode}
             /\ s.cache.threshold \in (1 .. 100) \cup {r.cache.threshold}
             /\ s.cache.semantic = r.cache.semantic
             /\ s.cache.embedding_route = r.cache.embedding_route
<1> DEFINE m == Effective(r, table, "cache.mode", r.cache.mode)
           t == Effective(r, table, "cache.threshold", r.cache.threshold)
           a == Effective(r, table, "cache.audit_sample_rate", r.cache.audit)
           g == Effective(r, table, "smart_route.mode", r.smart)
           s == OverlayRoute(r, table)
<1>1. s = [r EXCEPT !.cache = [r.cache EXCEPT !.mode = m, !.threshold = t, !.audit = a], !.smart = g]
  BY DEF OverlayRoute, RouteKeys, CacheFields
<1>2. m \in Modes \cup {r.cache.mode} /\ g \in Modes \cup {r.smart}
  BY EffectiveMode
<1>3. t \in (1 .. 100) \cup {r.cache.threshold}
  BY EffectiveThreshold
<1> HIDE DEF m, t, a, g, s
<1>4. \A f \in RouteKeys \ {"cache", "smart"} : s[f] = r[f]
  BY <1>1
<1>5. s.smart = g /\ s.cache = [r.cache EXCEPT !.mode = m, !.threshold = t, !.audit = a]
  BY <1>1 DEF RouteKeys
<1>6. /\ s.cache.mode = m /\ s.cache.threshold = t /\ s.cache.semantic = r.cache.semantic
      /\ s.cache.embedding_route = r.cache.embedding_route
  BY <1>5 DEF CacheFields
<1> QED BY <1>2, <1>3, <1>4, <1>5, <1>6 DEF s

\* Whatever table the table holds, the overlay of a valid configuration is valid.
LEMMA OverlayValid ==
  ASSUME NEW c, NEW table, Shaped(c), validate(c)
  PROVE  /\ validate(ApplyOverrides(c, table)) /\ Routable(ApplyOverrides(c, table))
         /\ Registers(ApplyOverrides(c, table)) /\ ApplyOverrides(c, table).num = c.num
<1> DEFINE d == ApplyOverrides(c, table)
<1>1. /\ \A f \in ConfigFields \ {"routes"} : d[f] = c[f]
      /\ d.routes = [k \in DOMAIN c.routes |-> OverlayRoute(c.routes[k], table)]
  BY DEF ApplyOverrides, Shaped, ConfigFields
<1> HIDE DEF d
<1>2. /\ d.num = c.num /\ d.trusted_proxies = c.trusted_proxies
      /\ d.store_text = c.store_text /\ d.sample_rate = c.sample_rate
      /\ d.fuzzy_threshold = c.fuzzy_threshold /\ d.alpha = c.alpha /\ d.session = c.session
      /\ d.share_mode = c.share_mode /\ d.gossip_secret = c.gossip_secret
      /\ d.unsigned_gossip = c.unsigned_gossip /\ d.providers = c.providers
      /\ d.pricing = c.pricing /\ d.slos = c.slos /\ d.mcp_servers = c.mcp_servers
      /\ d.mcp_insecure_hosts = c.mcp_insecure_hosts
  BY <1>1 DEF ConfigFields
<1>3. DOMAIN d.routes = DOMAIN c.routes
  BY <1>1
<1>4. ASSUME NEW k \in DOMAIN c.routes
      PROVE  LET r == c.routes[k]
                 s == d.routes[k]
             IN  /\ s.name = r.name /\ s.slashed = r.slashed /\ s.targets = r.targets
                 /\ s.strategy = r.strategy /\ s.embeddings = r.embeddings /\ s.num = r.num /\ s.hedge = r.hedge
                 /\ s.hedge_extra = r.hedge_extra /\ s.injection = r.injection /\ s.pii = r.pii
                 /\ s.smart \in Modes \cup {r.smart}
                 /\ s.cache.mode \in Modes \cup {r.cache.mode}
                 /\ s.cache.threshold \in (1 .. 100) \cup {r.cache.threshold}
                 /\ s.cache.semantic = r.cache.semantic
                 /\ s.cache.embedding_route = r.cache.embedding_route
  <2>1. d.routes[k] = OverlayRoute(c.routes[k], table)
    BY <1>1
  <2>2. DOMAIN c.routes[k] = RouteKeys /\ DOMAIN c.routes[k].cache = CacheFields
    BY DEF Shaped
  <2> QED BY <2>1, <2>2, OverlaidRoute DEF RouteKeys
<1>5. ProviderNames(d) = ProviderNames(c) /\ EmbedRoutes(d) = EmbedRoutes(c)
  BY <1>2, <1>3, <1>4 DEF ProviderNames, EmbedRoutes
<1>6. ASSUME NEW k \in DOMAIN c.routes PROVE RouteValid(d, d.routes[k])
  <2>1. RouteValid(c, c.routes[k])
    BY DEF validate
  <2> QED BY <1>2, <1>4, <1>5, <2>1 DEF RouteValid
<1>7. ServerValid(d)
  BY <1>2 DEF validate, ServerValid, ParsedTrustedProxies
<1>8. Distinct(d.providers) /\ Distinct(d.mcp_servers) /\ Distinct(d.routes)
  BY <1>2, <1>3, <1>4 DEF validate, Distinct
<1>9. d.providers # <<>> /\ d.routes # <<>>
  <2>1. DOMAIN c.routes # {}
    <3>1. PICK S : c.routes \in Seq(S)
      BY DEF Shaped
    <3>2. c.routes # <<>>
      BY DEF validate
    <3>3. Len(c.routes) \in Nat \ {0}
      BY <3>1, <3>2, EmptySeq
    <3>4. DOMAIN c.routes = 1 .. Len(c.routes)
      BY <3>1
    <3>5. 1 \in 1 .. Len(c.routes)
      BY <3>3
    <3> QED BY <3>4, <3>5
  <2> QED BY <1>2, <1>3, <2>1 DEF validate
<1>10. /\ \A k \in DOMAIN d.providers : ProviderValid(d.providers[k])
       /\ \A t \in d.pricing \cup d.slos : t[1] \in ProviderNames(d)
       /\ \A k \in DOMAIN d.mcp_servers : MCPValid(d, d.mcp_servers[k])
  BY <1>2, <1>5 DEF validate, MCPValid
<1>11. validate(d)
  BY <1>3, <1>6, <1>7, <1>8, <1>9, <1>10 DEF validate
<1>12. Registers(d)
  BY <1>8, <1>10 DEF Registers, ProviderValid
<1>13. Routable(d)
  BY <1>3, <1>6 DEF Routable, RouteValid, PlanTargets
<1> QED BY <1>2, <1>11, <1>12, <1>13 DEF d

\* A good file builds, starts and routes under any overrides.
LEMMA GoodRuns ==
  ASSUME NEW f \in Good, NEW table
  PROVE  LET c == ApplyOverrides(Cfg[f], table)
         IN  validate(c) /\ Starts(c) /\ Registers(c) /\ Routable(c)
<1> DEFINE p == Parsed(Content[f], Env)
           c == ApplyOverrides(p, table)
<1>1. f \in Files /\ Cfg[f] = p /\ validate(p)
  BY DEF Good, Cfg, Parses
<1>2. Content[f] \in [known_fields : BOOLEAN, config : ConfigFile]
  BY <1>1, ControlAssumption
<1>3. Shaped(p) /\ \A x \in Checked \cup Unchecked : p.num[x] \in Int /\ p.num[x] # 0
  BY <1>2, ParsedShape
<1> HIDE DEF p
<1>4. validate(c) /\ Routable(c) /\ Registers(c) /\ c.num = p.num
  BY <1>1, <1>3, OverlayValid
<1>5. \A x \in Checked : p.num[x] >= 0
  BY <1>1 DEF validate, ServerValid
<1>6. Tickers \cup {"usage_batcher.capacity", "mcp_batcher.capacity"} \subseteq Checked
  BY DEF Tickers, Checked, ServerFields
<1>7. \A x \in Tickers : p.num[x] > 0
  BY <1>3, <1>5, <1>6
<1>8. Starts(c)
  BY <1>4, <1>5, <1>6, <1>7 DEF Starts
<1> QED BY <1>1, <1>4, <1>8

\* Its routes, overlaid or not, are named; so is what a monitor finds switched on.
LEMMA SwitchedOnNamed ==
  ASSUME NEW f \in Good, NEW table
  PROVE  \A m \in SwitchedOn(ApplyOverrides(Cfg[f], table)) : m[1] \in Text
<1> DEFINE p == Parsed(Content[f], Env)
           c == ApplyOverrides(p, table)
<1>1. f \in Files /\ Cfg[f] = p
  BY DEF Good, Cfg
<1>2. Content[f] \in [known_fields : BOOLEAN, config : ConfigFile]
  BY <1>1, ControlAssumption
<1>3. Shaped(p)
  BY <1>2, ParsedShape
<1> HIDE DEF p
<1>4. c.routes = [k \in DOMAIN p.routes |-> OverlayRoute(p.routes[k], table)]
  BY <1>3 DEF ApplyOverrides, Shaped, ConfigFields
<1>5. ASSUME NEW k \in DOMAIN c.routes PROVE c.routes[k].name \in Text
  <2>1. k \in DOMAIN p.routes /\ c.routes[k] = OverlayRoute(p.routes[k], table)
    BY <1>4
  <2>2. DOMAIN p.routes[k] = RouteKeys /\ DOMAIN p.routes[k].cache = CacheFields
    BY <1>3, <2>1 DEF Shaped
  <2>3. OverlayRoute(p.routes[k], table).name = p.routes[k].name
    BY <2>2, OverlaidRoute DEF RouteKeys
  <2> QED BY <1>3, <2>1, <2>3 DEF Shaped
<1> HIDE DEF c
<1>6. \A m \in SwitchedOn(c) : m[1] \in Text
  BY <1>5 DEF SwitchedOn
<1> QED BY <1>1, <1>6 DEF c

LEMMA RouteNamesNamed == RouteNames \subseteq Text
<1> SUFFICES ASSUME NEW f \in Files, NEW k \in DOMAIN Content[f].config.routes
             PROVE  Content[f].config.routes[k].name \in Text
  BY DEF RouteNames
<1>1. Content[f].config \in ConfigFile
  BY ControlAssumption
<1>2. Content[f].config.routes \in Seq(RouteConfig)
  BY <1>1 DEF ConfigFile
<1>3. Content[f].config.routes[k] \in RouteConfig
  BY <1>2
<1> QED BY <1>3 DEF RouteConfig

\* SetOverride keeps the table's key.
LEMMA UpsertRows ==
  ASSUME NEW table, Rows(table), NEW r \in Text, NEW k, NEW v
  PROVE  Rows(Upsert(table, Row(r, k, v)))
BY DEF Rows, OneRowPerKey, Upsert, Row

-----------------------------------------------------------------------------
(* The inductive invariant.  A process's file is one that parsed, so that  *)
(* the overlay of any table builds and Rebuilt never keeps the old runtime; *)
(* what monitors and CacheApply have still to write is named.              *)
Kept ==
  /\ DOMAIN fileCfg = Instances /\ DOMAIN lastOvs = Instances /\ DOMAIN runtime = Instances
  /\ DOMAIN poll = Instances /\ DOMAIN mon = Instances
  /\ \A i \in Instances : fileCfg[i] \in Good /\ runtime[i].file \in Good
  /\ \A i \in Instances : \A m \in mon[i] : m[1] \in Text
  /\ \A o \in apply : \E r \in Text, t \in Applied : o = Row(r, "cache.threshold", t)

IInv == TypeOK /\ Kept /\ RuntimeCurrent

\* The initial states satisfy it.
LEMMA InitInv == Init => IInv
<1> SUFFICES ASSUME Init PROVE IInv
  OBVIOUS
<1>1. file \in Good /\ file \in Files
  BY DEF Init, Startable, Good
<1>2. TypeOK
  BY <1>1, ControlAssumption DEF Init, TypeOK, IdlePoll
<1>3. Kept
  BY <1>1 DEF Init, Kept, BuiltFrom
<1>4. RuntimeCurrent
  BY DEF Init, RuntimeCurrent, Settled
<1> QED BY <1>2, <1>3, <1>4 DEF IInv

\* rebuild swaps the runtime: the file it starts from parsed.
LEMMA RebuiltCurrent ==
  ASSUME IInv, NEW i \in Instances
  PROVE  Rebuilt(i) = [runtime EXCEPT ![i] = BuiltFrom(fileCfg[i], lastOvs[i])]
<1>1. fileCfg[i] \in Good
  BY DEF IInv, Kept
<1>2. Registers(ApplyOverrides(Cfg[fileCfg[i]], lastOvs[i]))
  BY <1>1, GoodRuns
<1> QED BY <1>2 DEF Rebuilt

LEMMA LoadInv == ASSUME IInv, NEW i \in Instances, Load(i) PROVE IInv'
<1>1. file \in Good
  BY DEF Load, Startable
<1>2. TypeOK'
  BY DEF IInv, TypeOK, Load
<1>3. Kept'
  BY <1>1 DEF IInv, Kept, Load, BuiltFrom
<1>4. RuntimeCurrent'
  BY DEF IInv, Kept, RuntimeCurrent, Settled, Load, TypeOK
<1> QED BY <1>2, <1>3, <1>4 DEF IInv

LEMMA NewWatcherInv == ASSUME IInv, NEW i \in Instances, NewWatcher(i) PROVE IInv'
<1>1. TypeOK'
  BY DEF IInv, TypeOK, NewWatcher
<1>2. Kept'
  BY DEF IInv, Kept, NewWatcher
<1>3. RuntimeCurrent'
  BY DEF IInv, RuntimeCurrent, Settled, NewWatcher, TypeOK
<1> QED BY <1>1, <1>2, <1>3 DEF IInv

LEMMA ExitInv == ASSUME IInv, NEW i \in Instances, Exit(i) PROVE IInv'
<1>1. TypeOK'
  BY DEF IInv, Kept, TypeOK, Exit, IdlePoll
<1>2. Kept'
  BY DEF IInv, Kept, Exit
<1>3. RuntimeCurrent'
  BY DEF IInv, Kept, RuntimeCurrent, Settled, Exit, TypeOK, IdlePoll
<1> QED BY <1>1, <1>2, <1>3 DEF IInv

LEMMA CheckInv == ASSUME IInv, NEW i \in Instances, Check(i) PROVE IInv'
<1>1. TypeOK'
  BY DEF IInv, TypeOK, Check
<1>2. Kept'
  BY DEF IInv, Kept, Check
<1>3. RuntimeCurrent'
  BY DEF IInv, Kept, RuntimeCurrent, Settled, Check, TypeOK
<1> QED BY <1>1, <1>2, <1>3 DEF IInv

LEMMA WatchRebuildInv == ASSUME IInv, NEW i \in Instances, WatchRebuild(i) PROVE IInv'
<1>1. runtime' = [runtime EXCEPT ![i] = BuiltFrom(fileCfg[i], lastOvs[i])]
  BY RebuiltCurrent DEF WatchRebuild
<1>2. TypeOK'
  BY DEF IInv, TypeOK, WatchRebuild
<1>3. Kept'
  BY <1>1 DEF IInv, Kept, WatchRebuild, BuiltFrom
<1>4. RuntimeCurrent'
  BY <1>1 DEF IInv, Kept, RuntimeCurrent, Settled, WatchRebuild, TypeOK
<1> QED BY <1>2, <1>3, <1>4 DEF IInv

LEMMA PollReadInv == ASSUME IInv, NEW i \in Instances, PollRead(i) PROVE IInv'
<1>1. TypeOK'
  BY DEF IInv, Kept, TypeOK, PollRead
<1>2. Kept'
  BY DEF IInv, Kept, PollRead
<1>3. RuntimeCurrent'
  BY DEF IInv, Kept, RuntimeCurrent, Settled, PollRead, TypeOK
<1> QED BY <1>1, <1>2, <1>3 DEF IInv

LEMMA PollApplyInv == ASSUME IInv, NEW i \in Instances, PollApply(i) PROVE IInv'
<1>1. TypeOK'
  BY DEF IInv, Kept, TypeOK, PollApply, IdlePoll
<1>2. Kept'
  BY DEF IInv, Kept, PollApply
<1>3. RuntimeCurrent'
  BY DEF IInv, Kept, RuntimeCurrent, Settled, PollApply, TypeOK, IdlePoll
<1> QED BY <1>1, <1>2, <1>3 DEF IInv

LEMMA PollRebuildInv == ASSUME IInv, NEW i \in Instances, PollRebuild(i) PROVE IInv'
<1>1. runtime' = [runtime EXCEPT ![i] = BuiltFrom(fileCfg[i], lastOvs[i])]
  BY RebuiltCurrent DEF PollRebuild
<1>2. TypeOK'
  BY DEF IInv, Kept, TypeOK, PollRebuild, IdlePoll
<1>3. Kept'
  BY <1>1 DEF IInv, Kept, PollRebuild, BuiltFrom
<1>4. RuntimeCurrent'
  BY <1>1 DEF IInv, Kept, RuntimeCurrent, Settled, PollRebuild, TypeOK
<1> QED BY <1>2, <1>3, <1>4 DEF IInv

LEMMA MonitorTickInv == ASSUME IInv, NEW i \in Instances, MonitorTick(i) PROVE IInv'
<1>1. runtime[i].file \in Good
  BY DEF IInv, Kept
<1>2. \A m \in SwitchedOn(RuntimeConfig(i)) : m[1] \in Text
  BY <1>1, SwitchedOnNamed DEF RuntimeConfig
<1>3. TypeOK'
  BY DEF IInv, TypeOK, MonitorTick
<1>4. Kept'
  BY <1>2 DEF IInv, Kept, MonitorTick
<1>5. RuntimeCurrent'
  BY DEF IInv, RuntimeCurrent, Settled, MonitorTick
<1> QED BY <1>3, <1>4, <1>5 DEF IInv

LEMMA MonitorCheckInv == ASSUME IInv, NEW i \in Instances, MonitorCheck(i) PROVE IInv'
<1>1. PICK m \in mon[i] : mon' = [mon EXCEPT ![i] = @ \ {m}] /\ ovs' \in {ovs, Upsert(ovs, RolledBack(m))}
  BY DEF MonitorCheck
<1>2. m[1] \in Text
  BY DEF IInv, Kept
<1>3. Rows(ovs')
  <2>1. Rows(Upsert(ovs, RolledBack(m)))
    BY <1>2, UpsertRows DEF IInv, TypeOK, RolledBack
  <2> QED BY <1>1, <2>1 DEF IInv, TypeOK
<1>4. TypeOK'
  BY <1>3 DEF IInv, TypeOK, MonitorCheck
<1>5. Kept'
  BY <1>1 DEF IInv, Kept, MonitorCheck
<1>6. RuntimeCurrent'
  BY DEF IInv, RuntimeCurrent, Settled, MonitorCheck
<1> QED BY <1>4, <1>5, <1>6 DEF IInv

LEMMA CacheApplyModeInv == ASSUME IInv, CacheApplyMode PROVE IInv'
<1>1. PICK r \in RouteNames, t \in Applied :
        \/ /\ ovs' = Upsert(ovs, Row(r, "cache.mode", "on"))
           /\ apply' = {Row(r, "cache.threshold", t)}
        \/ UNCHANGED <<ovs, apply>>
  BY DEF CacheApplyMode
<1>2. r \in Text
  BY RouteNamesNamed
<1>3. Rows(ovs')
  <2>1. Rows(Upsert(ovs, Row(r, "cache.mode", "on")))
    BY <1>2, UpsertRows DEF IInv, TypeOK
  <2> QED BY <1>1, <2>1 DEF IInv, TypeOK
<1>4. TypeOK'
  BY <1>3 DEF IInv, TypeOK, CacheApplyMode, procVars
<1>5. Kept'
  BY <1>1, <1>2 DEF IInv, Kept, CacheApplyMode, procVars
<1>6. RuntimeCurrent'
  BY DEF IInv, RuntimeCurrent, Settled, CacheApplyMode, procVars
<1> QED BY <1>4, <1>5, <1>6 DEF IInv

LEMMA CacheApplyThresholdInv == ASSUME IInv, CacheApplyThreshold PROVE IInv'
<1>1. PICK o \in apply : ovs' = Upsert(ovs, o) \/ ovs' = ovs
  BY DEF CacheApplyThreshold
<1>2. PICK r \in Text, t \in Applied : o = Row(r, "cache.threshold", t)
  BY DEF IInv, Kept
<1>3. Rows(ovs')
  <2>1. Rows(Upsert(ovs, Row(r, "cache.threshold", t)))
    BY <1>2, UpsertRows DEF IInv, TypeOK
  <2> QED BY <1>1, <1>2, <2>1 DEF IInv, TypeOK
<1>4. TypeOK'
  BY <1>3 DEF IInv, TypeOK, CacheApplyThreshold, procVars
<1>5. Kept'
  BY DEF IInv, Kept, CacheApplyThreshold, procVars
<1>6. RuntimeCurrent'
  BY DEF IInv, RuntimeCurrent, Settled, CacheApplyThreshold, procVars
<1> QED BY <1>4, <1>5, <1>6 DEF IInv

LEMMA EditInv == ASSUME IInv, Edit PROVE IInv'
BY DEF IInv, TypeOK, Kept, RuntimeCurrent, Settled, Edit, procVars

\* Every step preserves the invariant.
LEMMA NextInv == IInv /\ [Next]_vars => IInv'
<1> SUFFICES ASSUME IInv, [Next]_vars PROVE IInv'
  OBVIOUS
<1>1. ASSUME NEW i \in Instances, Load(i) PROVE IInv'
  BY <1>1, LoadInv
<1>2. ASSUME NEW i \in Instances, NewWatcher(i) PROVE IInv'
  BY <1>2, NewWatcherInv
<1>3. ASSUME NEW i \in Instances, Exit(i) PROVE IInv'
  BY <1>3, ExitInv
<1>4. ASSUME NEW i \in Instances, Watch(i) \/ Reload(i) PROVE IInv'
  BY <1>4, CheckInv DEF Watch, Reload
<1>5. ASSUME NEW i \in Instances, WatchRebuild(i) PROVE IInv'
  BY <1>5, WatchRebuildInv
<1>6. ASSUME NEW i \in Instances, PollRead(i) PROVE IInv'
  BY <1>6, PollReadInv
<1>7. ASSUME NEW i \in Instances, PollApply(i) PROVE IInv'
  BY <1>7, PollApplyInv
<1>8. ASSUME NEW i \in Instances, PollRebuild(i) PROVE IInv'
  BY <1>8, PollRebuildInv
<1>9. ASSUME NEW i \in Instances, MonitorTick(i) PROVE IInv'
  BY <1>9, MonitorTickInv
<1>10. ASSUME NEW i \in Instances, MonitorCheck(i) PROVE IInv'
  BY <1>10, MonitorCheckInv
<1>11. CASE Edit \/ CacheApplyMode \/ CacheApplyThreshold
  BY <1>11, EditInv, CacheApplyModeInv, CacheApplyThresholdInv
<1>12. CASE UNCHANGED vars
  BY <1>12 DEF IInv, TypeOK, Kept, RuntimeCurrent, Settled, vars, procVars
<1> QED BY <1>1, <1>2, <1>3, <1>4, <1>5, <1>6, <1>7, <1>8, <1>9, <1>10, <1>11, <1>12 DEF Next

-----------------------------------------------------------------------------
(* The types, the parsed files and the current runtime hold in every       *)
(* reachable state of start-up, watcher, poller and monitors (main.go).    *)
THEOREM ControlInvariance == Spec => []IInv
BY InitInv, NextInv, PTL DEF Spec

(* When neither the watcher nor the poller has a rebuild to do, a process  *)
(* serves the newest file under the newest overrides, for any number of    *)
(* processes and any files (the rebuild closure of main.go).               *)
THEOREM RuntimeIsCurrent == Spec => []RuntimeCurrent
<1>1. IInv => RuntimeCurrent
  BY DEF IInv
<1> QED BY <1>1, ControlInvariance, PTL

(* Whatever the override table holds, the configuration of every running   *)
(* process passes validate and starts its tickers, and the plan for a call *)
(* of its routes has no provider that the registry lacks, but for the      *)
(* target that smart_route, when on, puts first: validate does not look at *)
(* those (config.Parse, ApplyOverrides, BuildRuntime, planFor).            *)
THEOREM RuntimeIsSound == Spec => []RuntimeSound
<1>1. IInv => RuntimeSound
  <2> SUFFICES ASSUME IInv, NEW i \in Instances
               PROVE  LET c == RuntimeConfig(i)
                      IN  validate(c) /\ Starts(c) /\ Registers(c) /\ Routable(c)
    BY DEF IInv, RuntimeSound
  <2>1. runtime[i].file \in Good
    BY DEF IInv, Kept
  <2> QED BY <2>1, GoodRuns DEF RuntimeConfig
<1> QED BY <1>1, ControlInvariance, PTL

-----------------------------------------------------------------------------
(* Health sharing                                                           *)

\* What a tracker holds of the target, and what it sends of that.
Entry == [v : [Metrics -> 0..Scale], n : [Metrics -> 0..Cap], breaches : 0..Breaches,
          degraded : BOOLEAN, age : 0..Recover]
Stats == [v : [Metrics -> 0..Scale], n : [Metrics -> 0..Cap], degraded : BOOLEAN]

\* What is measured is within the SLO.
Within(m, x) == ~Outside(m, x)
Innocent(s) == ~s.degraded /\ \A m \in Metrics : s.n[m] > 0 => Within(m, s.v[m])
Calm(e) == Innocent(e) /\ e.breaches = 0

-----------------------------------------------------------------------------
\* What lies between two multiples lies between them after the division.
LEMMA QuotientRange ==
  ASSUME NEW x \in Nat, NEW d \in Nat \ {0}, NEW k \in Nat, x < d * (k + 1)
  PROVE  x \div d \in 0 .. k
<1> DEFINE q == x \div d
<1>1. q \in Int /\ d * q <= x /\ x < d * q + d
  OBVIOUS
<1> HIDE DEF q
<1>2. q >= 0
  <2> SUFFICES ASSUME q <= -1 PROVE FALSE
    BY <1>1
  <2>1. d * q <= d * (-1)
    BY <1>1
  <2>2. d * (-1) = -d
    OBVIOUS
  <2> QED BY <1>1, <2>1, <2>2
<1>3. q <= k
  <2> SUFFICES ASSUME q >= k + 1 PROVE FALSE
    BY <1>1
  <2>1. d * q >= d * (k + 1)
    BY <1>1
  <2> QED BY <1>1, <2>1
<1> QED BY <1>1, <1>2, <1>3 DEF q

LEMMA QuotientAbove ==
  ASSUME NEW d \in Nat \ {0}, NEW k \in Nat, NEW x \in Nat, d * k <= x
  PROVE  x \div d >= k
<1> DEFINE q == x \div d
<1>1. q \in Int /\ d * q <= x /\ x < d * q + d
  OBVIOUS
<1> HIDE DEF q
<1>3. q >= k
  <2> SUFFICES ASSUME q + 1 <= k PROVE FALSE
    BY <1>1
  <2>1. d * (q + 1) <= d * k
    BY <1>1
  <2>2. d * (q + 1) = d * q + d
    BY <1>1
  <2> QED BY <1>1, <2>1, <2>2
<1> QED BY <1>3 DEF q

\* A blend of two values on the scale is on the scale.
LEMMA BlendsRange ==
  ASSUME NEW s \in Nat, NEW old \in 0..s, NEW x \in 0..s, NEW den \in Nat \ {0}, NEW num \in 0..den
  PROVE  Blends(old, x, num, den) \subseteq 0..s
<1> DEFINE rest == den - num
           sum == rest * old + num * x
<1>1. rest \in Nat /\ num \in Nat /\ rest + num = den
  OBVIOUS
<1>2. rest * old \in Nat /\ num * x \in Nat
  BY <1>1
<1>3. rest * old <= rest * s /\ num * x <= num * s
  BY <1>1
<1>4. rest * s + num * s = den * s
  BY <1>1
<1>5. rest * s \in Nat /\ num * s \in Nat /\ den * s \in Nat
  BY <1>1
<1>6. sum \in Nat /\ sum <= den * s
  <2> HIDE DEF rest
  <2> DEFINE a == rest * old
             b == num * x
             a1 == rest * s
             b1 == num * s
             dd == den * s
  <2>1. a \in Nat /\ b \in Nat /\ a1 \in Nat /\ b1 \in Nat /\ dd \in Nat /\ a <= a1 /\ b <= b1 /\ a1 + b1 = dd
    BY <1>2, <1>3, <1>4, <1>5
  <2> HIDE DEF a, b, a1, b1, dd
  <2>2. a + b \in Nat /\ a + b <= dd
    BY <2>1
  <2> QED BY <2>2 DEF a, b, dd
<1> HIDE DEF sum
<1>7. den * (s + 1) = den * s + den
  OBVIOUS
<1>8. sum < den * (s + 1) /\ sum + den - 1 \in Nat /\ sum + den - 1 < den * (s + 1)
  BY <1>5, <1>6, <1>7
<1>9. sum \div den \in 0..s /\ (sum + den - 1) \div den \in 0..s
  BY <1>6, <1>8, QuotientRange
<1> QED BY <1>9 DEF Blends, sum

\* A blend of two values that are not below a limit is not below it.
LEMMA BlendsAbove ==
  ASSUME NEW low \in Nat, NEW old \in Nat, NEW x \in Nat, low <= old, low <= x,
         NEW den \in Nat \ {0}, NEW num \in 0..den, NEW b \in Blends(old, x, num, den)
  PROVE  b >= low
<1> DEFINE rest == den - num
           sum == rest * old + num * x
<1>1. rest \in Nat /\ num \in Nat /\ rest + num = den
  OBVIOUS
<1>2. rest * old \in Nat /\ num * x \in Nat /\ rest * low \in Nat /\ num * low \in Nat /\ den * low \in Nat
  BY <1>1
<1>3. rest * low <= rest * old /\ num * low <= num * x
  BY <1>1
<1>4. rest * low + num * low = den * low
  BY <1>1
<1>5. sum \in Nat /\ den * low <= sum
  <2> HIDE DEF rest
  <2> DEFINE a == rest * old
             c == num * x
             a1 == rest * low
             c1 == num * low
             dd == den * low
  <2>1. a \in Nat /\ c \in Nat /\ a1 \in Nat /\ c1 \in Nat /\ dd \in Nat /\ a1 <= a /\ c1 <= c /\ a1 + c1 = dd
    BY <1>2, <1>3, <1>4
  <2> HIDE DEF a, c, a1, c1, dd
  <2>2. a + c \in Nat /\ dd <= a + c
    BY <2>1
  <2> QED BY <2>2 DEF a, c, dd
<1>6. b = sum \div den \/ b = (sum + den - 1) \div den
  BY DEF Blends
<1> HIDE DEF sum
<1>7. sum + den - 1 \in Nat /\ den * low <= sum + den - 1
  BY <1>2, <1>5
<1>8. sum \div den >= low /\ (sum + den - 1) \div den >= low
  BY <1>5, <1>7, QuotientAbove
<1> QED BY <1>6, <1>8

\* A blend of two values within the SLO is within it, however it is rounded.
LEMMA BlendsWithin ==
  ASSUME NEW m \in Metrics, NEW old \in 0..Scale, NEW x \in 0..Scale, Within(m, old), Within(m, x),
         NEW den \in Nat \ {0}, NEW num \in 0..den, NEW b \in Blends(old, x, num, den)
  PROVE  Within(m, b)
<1>1. Limits[m] \in 0..Scale /\ Scale \in Nat /\ Limits[m] \in Nat
  BY HealthAssumption
<1>2. b \in 0..Scale
  BY <1>1, BlendsRange
<1>3. CASE m \in LowIsBad
  <2>1. old \in Nat /\ x \in Nat /\ Limits[m] <= old /\ Limits[m] <= x
    BY <1>1, <1>3 DEF Within, Outside
  <2>2. b >= Limits[m]
    BY <1>1, <2>1, BlendsAbove
  <2> QED BY <1>1, <1>2, <1>3, <2>2 DEF Within, Outside
<1>4. CASE m \notin LowIsBad
  <2>1. old \in 0..Limits[m] /\ x \in 0..Limits[m]
    BY <1>1, <1>4 DEF Within, Outside
  <2>2. b \in 0..Limits[m]
    BY <1>1, <2>1, BlendsRange
  <2> QED BY <1>1, <1>4, <2>2 DEF Within, Outside
<1> QED BY <1>3, <1>4

-----------------------------------------------------------------------------
\* The samples are on the scale, and within the SLO unless they are said to miss it.
LEMMA SamplesOnScale ==
  ASSUME NEW outcome \in {"ok", "failed", "unknown"}, NEW s \in Samples(outcome)
  PROVE  /\ \A m \in DOMAIN s : s[m] \in 0..Scale
         /\ ~Misses(outcome, s) => \A m \in DOMAIN s \cap Metrics : Within(m, s[m])
<1>1. PICK T \in Timed(outcome) : s \in [T \cup Counted(outcome) -> 0..Scale]
  BY DEF Samples
<1>2. ErrorRate \in DOMAIN s => s[ErrorRate] = IF outcome = "failed" THEN Scale ELSE 0
  BY DEF Samples
<1>3. ASSUME ~Misses(outcome, s), NEW m \in DOMAIN s \cap Metrics PROVE Within(m, s[m])
  <2>1. CASE m # ErrorRate
    BY <1>3, <2>1 DEF Misses, Within
  <2>2. CASE m = ErrorRate
    <3>1. s[m] = 0
      BY <1>2, <1>3, <2>2 DEF Misses
    <3>2. m \notin LowIsBad /\ Limits[m] \in Nat
      BY <2>2, HealthAssumption
    <3> QED BY <3>1, <3>2 DEF Within, Outside
  <2> QED BY <2>1, <2>2
<1> QED BY <1>1, <1>3

LEMMA CalmIsWithin ==
  ASSUME NEW e \in Entry, Innocent(e), NEW m \in Metrics
  PROVE  ~Breach(e, m)
<1>1. MinSamples \in Nat \ {0}
  BY HealthAssumption
<1>2. e.n[m] \in 0..Cap /\ Cap \in Nat
  BY HealthAssumption DEF Entry
<1>3. CASE e.n[m] = 0
  <2>1. MinSamples \div 2 + 1 > 0
    BY <1>1
  <2> QED BY <1>1, <1>3, <2>1 DEF Breach, Enough
<1>4. CASE e.n[m] > 0
  BY <1>4 DEF Innocent, Within, Breach
<1> QED BY <1>2, <1>3, <1>4

LEMMA EvaluateEntry ==
  ASSUME NEW e \in Entry, NEW slo \in BOOLEAN
  PROVE  Evaluate(e, slo) \in Entry
<1>1. e.breaches \in 0..Breaches /\ e.degraded \in BOOLEAN /\ e.age \in 0..Recover
  BY DEF Entry
<1>2. Breaches \in Nat \ {0} /\ Recover \in Nat \ {0}
  BY HealthAssumption
<1>3. AtMost(e.breaches + 1, Breaches) \in 0..Breaches
  BY <1>1, <1>2 DEF AtMost
<1>4. ASSUME NEW b \in 0..Breaches, NEW d \in BOOLEAN, NEW a \in 0..Recover
      PROVE  [e EXCEPT !.breaches = b, !.age = a, !.degraded = d] \in Entry
  BY DEF Entry
<1>5. ASSUME NEW b \in 0..Breaches, NEW d \in BOOLEAN
      PROVE  [e EXCEPT !.breaches = b, !.degraded = d] \in Entry
  BY DEF Entry
<1>6. (e.degraded \/ e.breaches + 1 >= Breaches) \in BOOLEAN /\ (e.degraded /\ e.age < Recover) \in BOOLEAN
  BY <1>1
<1>7. CASE ~slo
  BY <1>7 DEF Evaluate
<1>8. CASE slo /\ \E m \in Metrics : Breach(e, m)
  <2>1. 0 \in 0..Recover
    BY <1>2
  <2>2. Evaluate(e, slo) = [e EXCEPT !.breaches = AtMost(e.breaches + 1, Breaches), !.age = 0,
                                     !.degraded = e.degraded \/ e.breaches + 1 >= Breaches]
    BY <1>8 DEF Evaluate
  <2> QED BY <1>3, <1>4, <1>6, <2>1, <2>2
<1>9. CASE slo /\ ~\E m \in Metrics : Breach(e, m)
  <2> DEFINE b == IF \E m \in Metrics : Enough(e, m) THEN 0 ELSE e.breaches
  <2>1. b \in 0..Breaches
    BY <1>1, <1>2
  <2>2. Evaluate(e, slo) = [e EXCEPT !.breaches = b, !.degraded = e.degraded /\ e.age < Recover]
    BY <1>9 DEF Evaluate
  <2> HIDE DEF b
  <2> QED BY <1>5, <1>6, <2>1, <2>2
<1> QED BY <1>7, <1>8, <1>9

LEMMA EvaluateCalm ==
  ASSUME NEW e \in Entry, Calm(e), NEW slo \in BOOLEAN
  PROVE  Calm(Evaluate(e, slo))
<1>1. ~\E m \in Metrics : Breach(e, m)
  BY CalmIsWithin DEF Calm
<1>2. CASE ~slo
  BY <1>2 DEF Evaluate
<1>3. CASE slo
  <2> DEFINE b == IF \E m \in Metrics : Enough(e, m) THEN 0 ELSE e.breaches
             f == [e EXCEPT !.breaches = b, !.degraded = e.degraded /\ e.age < Recover]
  <2>1. b = 0
    BY DEF Calm
  <2>2. Evaluate(e, slo) = f
    BY <1>1, <1>3 DEF Evaluate
  <2> HIDE DEF b
  <2>3. f.n = e.n /\ f.v = e.v /\ f.breaches = b /\ f.degraded = (e.degraded /\ e.age < Recover)
    BY DEF Entry
  <2> HIDE DEF f
  <2> QED BY <2>1, <2>2, <2>3 DEF Calm, Innocent
<1> QED BY <1>2, <1>3

LEMMA CountsOnScale ==
  ASSUME NEW x \in 0..Cap, NEW y \in Nat
  PROVE  AtMost(x + y, Cap) \in 0..Cap /\ (AtMost(x + y, Cap) > 0 => x > 0 \/ y > 0)
BY HealthAssumption DEF AtMost

\* Observe keeps an entry's type; a sample within the SLO keeps it calm.
LEMMA ObservedEntry ==
  ASSUME NEW e \in Entry, NEW slo \in BOOLEAN, NEW outcome \in {"ok", "failed", "unknown"},
         NEW sample \in Samples(outcome), NEW f \in Observed(e, sample, slo)
  PROVE  f \in Entry /\ (Calm(e) /\ ~Misses(outcome, sample) => Calm(f))
<1> DEFINE c == [m \in Metrics |-> IF m \in DOMAIN sample THEN AtMost(e.n[m] + 1, Cap) ELSE e.n[m]]
<1>1. PICK w \in [Metrics -> 0..2 * Scale] :
        /\ \A m \in Metrics : w[m] \in IF m \notin DOMAIN sample THEN {e.v[m]}
                                        ELSE IF e.n[m] = 0 THEN {sample[m]}
                                        ELSE Blends(e.v[m], sample[m], AlphaNum, AlphaDen)
        /\ f = Evaluate([e EXCEPT !.v = w, !.n = c], slo)
  BY DEF Observed
<1>2. \A m \in DOMAIN sample \cap Metrics : sample[m] \in 0..Scale
  BY SamplesOnScale
<1>3. ~Misses(outcome, sample) => \A m \in DOMAIN sample \cap Metrics : Within(m, sample[m])
  BY SamplesOnScale
<1>4. e.v \in [Metrics -> 0..Scale] /\ e.n \in [Metrics -> 0..Cap]
  BY DEF Entry
<1>5. Scale \in Nat /\ AlphaDen \in Nat \ {0} /\ AlphaNum \in 0..AlphaDen /\ Cap \in Nat
  BY HealthAssumption
<1>6. w \in [Metrics -> 0..Scale]
  <2>1. ASSUME NEW m \in Metrics PROVE w[m] \in 0..Scale
    <3>1. CASE m \notin DOMAIN sample
      BY <1>1, <1>4, <3>1
    <3>2. CASE m \in DOMAIN sample /\ e.n[m] = 0
      BY <1>1, <1>2, <3>2
    <3>3. CASE m \in DOMAIN sample /\ e.n[m] # 0
      <4>1. w[m] \in Blends(e.v[m], sample[m], AlphaNum, AlphaDen)
        BY <1>1, <3>3
      <4>2. e.v[m] \in 0..Scale /\ sample[m] \in 0..Scale
        BY <1>2, <1>4, <3>3
      <4> QED BY <1>5, <4>1, <4>2, BlendsRange
    <3> QED BY <3>1, <3>2, <3>3
  <2> QED BY <2>1
<1>7. c \in [Metrics -> 0..Cap] /\ \A m \in Metrics : m \notin DOMAIN sample => c[m] = e.n[m]
  <2>1. \A m \in Metrics : AtMost(e.n[m] + 1, Cap) \in 0..Cap
    BY <1>4, CountsOnScale
  <2> QED BY <1>4, <2>1
<1> HIDE DEF c
<1> DEFINE g == [e EXCEPT !.v = w, !.n = c]
<1>8. /\ g \in Entry /\ g.v = w /\ g.n = c /\ g.degraded = e.degraded /\ g.breaches = e.breaches
  BY <1>6, <1>7 DEF Entry
<1>9. f = Evaluate(g, slo)
  BY <1>1
<1> HIDE DEF g
<1>10. f \in Entry
  BY <1>8, <1>9, EvaluateEntry
<1>11. ASSUME Calm(e), ~Misses(outcome, sample) PROVE Calm(f)
  <2>1. ASSUME NEW m \in Metrics, c[m] > 0 PROVE Within(m, w[m])
    <3>1. CASE m \notin DOMAIN sample
      BY <1>1, <1>7, <1>11, <2>1, <3>1 DEF Calm, Innocent
    <3>2. CASE m \in DOMAIN sample /\ e.n[m] = 0
      BY <1>1, <1>3, <1>11, <3>2
    <3>3. CASE m \in DOMAIN sample /\ e.n[m] # 0
      <4>1. w[m] \in Blends(e.v[m], sample[m], AlphaNum, AlphaDen)
        BY <1>1, <3>3
      <4>2. e.n[m] > 0
        BY <1>4, <3>3
      <4>3. /\ Within(m, e.v[m]) /\ Within(m, sample[m])
            /\ e.v[m] \in 0..Scale /\ sample[m] \in 0..Scale
        BY <1>2, <1>3, <1>4, <1>11, <3>3, <4>2 DEF Calm, Innocent
      <4> QED BY <1>5, <4>1, <4>3, BlendsWithin
    <3> QED BY <3>1, <3>2, <3>3
  <2>2. Calm(g)
    BY <1>8, <1>11, <2>1 DEF Calm, Innocent
  <2> QED BY <1>8, <1>9, <2>2, EvaluateCalm
<1> QED BY <1>10, <1>11

\* A peer's word keeps the type, and says nothing if the peer is not degraded.
LEMMA PeerDegradedEntry ==
  ASSUME NEW e \in Entry, NEW peer \in Stats
  PROVE  PeerDegraded(e, peer) \in Entry /\ (~peer.degraded => PeerDegraded(e, peer) = e)
<1>1. e.breaches \in 0..Breaches /\ e.degraded \in BOOLEAN /\ e.age \in 0..Recover
  BY DEF Entry
<1>2. Breaches \in Nat \ {0} /\ Recover \in Nat \ {0}
  BY HealthAssumption
<1> DEFINE b == AtMost(e.breaches + 1, Breaches)
           full == e.breaches + 1 >= Breaches
           a == IF full THEN 0 ELSE e.age
<1>3. b \in 0..Breaches /\ full \in BOOLEAN /\ a \in 0..Recover
  BY <1>1, <1>2 DEF AtMost
<1>4. peer.degraded /\ ~e.degraded =>
        PeerDegraded(e, peer) = [e EXCEPT !.breaches = b, !.degraded = full, !.age = a]
  BY DEF PeerDegraded
<1> HIDE DEF b, full, a
<1>5. [e EXCEPT !.breaches = b, !.degraded = full, !.age = a] \in Entry
  BY <1>3 DEF Entry
<1>6. ~peer.degraded \/ e.degraded => PeerDegraded(e, peer) = e
  BY DEF PeerDegraded
<1> QED BY <1>4, <1>5, <1>6

\* Merge keeps an entry's type; a report within the SLO keeps it calm.
LEMMA MergedEntry ==
  ASSUME NEW e \in Entry, NEW peer \in Stats, NEW k \in [known : BOOLEAN, slo : BOOLEAN],
         NEW f \in Merged(e, peer, k)
  PROVE  f \in Entry /\ (Calm(e) /\ Innocent(peer) => Calm(f))
<1> DEFINE c == [m \in Metrics |-> AtMost(e.n[m] + peer.n[m], Cap)]
<1>1. CASE f = e
  BY <1>1
<1>2. CASE f # e
  <2>1. PICK w \in [Metrics -> 0..2 * Scale] :
          /\ \A m \in Metrics : w[m] \in IF peer.n[m] = 0 THEN {e.v[m]}
                                          ELSE IF e.n[m] = 0 THEN {peer.v[m]}
                                          ELSE Blends(e.v[m], peer.v[m], 1, 10)
          /\ f = Evaluate(PeerDegraded([e EXCEPT !.v = w, !.n = c], peer), k.slo)
    BY <1>2 DEF Merged
  <2>2. /\ e.v \in [Metrics -> 0..Scale] /\ e.n \in [Metrics -> 0..Cap]
        /\ peer.v \in [Metrics -> 0..Scale] /\ peer.n \in [Metrics -> 0..Cap]
    BY DEF Entry, Stats
  <2>3. Scale \in Nat /\ Cap \in Nat /\ 10 \in Nat \ {0} /\ 1 \in 0..10
    BY HealthAssumption
  <2>4. w \in [Metrics -> 0..Scale]
    <3>1. ASSUME NEW m \in Metrics PROVE w[m] \in 0..Scale
      <4>1. CASE peer.n[m] = 0 \/ e.n[m] = 0
        BY <2>1, <2>2, <4>1
      <4>2. CASE peer.n[m] # 0 /\ e.n[m] # 0
        <5>1. w[m] \in Blends(e.v[m], peer.v[m], 1, 10)
          BY <2>1, <4>2
        <5>2. e.v[m] \in 0..Scale /\ peer.v[m] \in 0..Scale
          BY <2>2
        <5> QED BY <2>3, <5>1, <5>2, BlendsRange
      <4> QED BY <4>1, <4>2
    <3> QED BY <3>1
  <2>5. c \in [Metrics -> 0..Cap] /\ \A m \in Metrics : c[m] > 0 => e.n[m] > 0 \/ peer.n[m] > 0
    <3>1. ASSUME NEW m \in Metrics
          PROVE  c[m] \in 0..Cap /\ (c[m] > 0 => e.n[m] > 0 \/ peer.n[m] > 0)
      <4>1. e.n[m] \in 0..Cap /\ peer.n[m] \in Nat
        BY <2>2, <2>3
      <4> QED BY <4>1, CountsOnScale
    <3> QED BY <3>1
  <2> HIDE DEF c
  <2> DEFINE g == [e EXCEPT !.v = w, !.n = c]
             h == PeerDegraded(g, peer)
  <2>6. /\ g \in Entry /\ g.v = w /\ g.n = c /\ g.degraded = e.degraded /\ g.breaches = e.breaches
    BY <2>4, <2>5 DEF Entry
  <2> HIDE DEF g
  <2>7. h \in Entry /\ (~peer.degraded => h = g)
    BY <2>6, PeerDegradedEntry
  <2>8. f = Evaluate(h, k.slo) /\ k.slo \in BOOLEAN
    BY <2>1 DEF g
  <2> HIDE DEF h
  <2>9. f \in Entry
    BY <2>7, <2>8, EvaluateEntry
  <2>10. ASSUME Calm(e), Innocent(peer) PROVE Calm(f)
    <3>1. ASSUME NEW m \in Metrics, c[m] > 0 PROVE Within(m, w[m])
      <4>1. e.n[m] \in Nat /\ peer.n[m] \in Nat
        BY <2>2, <2>3
      <4>2. CASE peer.n[m] = 0
        BY <2>1, <2>5, <2>10, <3>1, <4>2 DEF Calm, Innocent
      <4>3. CASE peer.n[m] # 0 /\ e.n[m] = 0
        BY <2>1, <2>10, <4>1, <4>3 DEF Innocent
      <4>4. CASE peer.n[m] # 0 /\ e.n[m] # 0
        <5>1. w[m] \in Blends(e.v[m], peer.v[m], 1, 10)
          BY <2>1, <4>4
        <5>2. peer.n[m] > 0 /\ e.n[m] > 0
          BY <4>1, <4>4
        <5>3. /\ Within(m, e.v[m]) /\ Within(m, peer.v[m])
              /\ e.v[m] \in 0..Scale /\ peer.v[m] \in 0..Scale
          BY <2>2, <2>10, <5>2 DEF Calm, Innocent
        <5> QED BY <2>3, <5>1, <5>3, BlendsWithin
      <4> QED BY <4>2, <4>3, <4>4
    <3>2. Calm(g) /\ h = g
      BY <2>6, <2>7, <2>10, <3>1 DEF Calm, Innocent
    <3> QED BY <2>6, <2>8, <3>2, EvaluateCalm
  <2> QED BY <2>9, <2>10
<1> QED BY <1>1, <1>2

-----------------------------------------------------------------------------
(* The inductive invariant: as long as no request failed or missed the     *)
(* SLO, every average of a tracker and of a report in flight or in Redis   *)
(* is within it.                                                           *)
Typed ==
  /\ tracker \in [Replicas -> Entry]
  /\ cfg \in [Replicas -> [known : BOOLEAN, slo : BOOLEAN]]
  /\ up \subseteq Replicas /\ missed \in BOOLEAN
  /\ \A p \in net : /\ DOMAIN p = {"from", "to", "sig", "stats", "age"}
                     /\ p.to \in Replicas /\ p.stats \in Stats
  /\ \A f \in redis : DOMAIN f = {"from", "stats", "age"} /\ f.stats \in Stats

Unblemished ==
  /\ \A r \in Replicas : Calm(tracker[r])
  /\ \A x \in net \cup redis : Innocent(x.stats)

HealthInv == Typed /\ (~missed => Unblemished)

\* A report says what the tracker holds.
LEMMA ReportStats ==
  ASSUME Typed, NEW r \in Replicas
  PROVE  Report(r) \in Stats /\ (Calm(tracker[r]) => Innocent(Report(r)))
<1>1. tracker[r] \in Entry
  BY DEF Typed
<1> QED BY <1>1 DEF Report, Stats, Entry, Calm, Innocent

LEMMA EmptyCalm == Empty \in Entry /\ Calm(Empty)
<1>1. Recover \in Nat /\ Cap \in Nat /\ Breaches \in Nat /\ Scale \in Nat
  BY HealthAssumption
<1>2. Empty \in Entry
  BY <1>1 DEF Empty, Entry
<1> QED BY <1>2 DEF Empty, Calm, Innocent

LEMMA HealthInitInv == HealthInit => HealthInv
<1> SUFFICES ASSUME HealthInit PROVE HealthInv
  OBVIOUS
<1>1. tracker \in [Replicas -> Entry] /\ \A r \in Replicas : Calm(tracker[r])
  BY EmptyCalm DEF HealthInit
<1>2. cfg \in [Replicas -> [known : BOOLEAN, slo : BOOLEAN]]
  BY DEF HealthInit
<1>3. net = {} /\ redis = {} /\ up = Replicas /\ missed = FALSE
  BY DEF HealthInit
<1> QED BY <1>1, <1>2, <1>3 DEF HealthInv, Typed, Unblemished

LEMMA ObserveInv ==
  ASSUME HealthInv, NEW r \in Replicas, NEW outcome \in {"ok", "failed", "unknown"}, Observe(r, outcome),
         UNCHANGED <<cfg, net, redis, up>>
  PROVE  HealthInv'
<1>0. PICK sample \in Samples(outcome) :
        /\ missed' = (missed \/ Misses(outcome, sample))
        /\ tracker' \in {[tracker EXCEPT ![r] = e] : e \in Observed(tracker[r], sample, cfg[r].slo)}
  BY DEF Observe
<1>1. PICK e \in Observed(tracker[r], sample, cfg[r].slo) : tracker' = [tracker EXCEPT ![r] = e]
  BY <1>0
<1>2. tracker[r] \in Entry /\ cfg[r].slo \in BOOLEAN
  BY DEF HealthInv, Typed
<1>3. e \in Entry /\ (Calm(tracker[r]) /\ ~Misses(outcome, sample) => Calm(e))
  BY <1>2, ObservedEntry
<1>4. missed' = (missed \/ Misses(outcome, sample)) /\ missed' \in BOOLEAN
  BY <1>0
<1>5. Typed'
  BY <1>1, <1>3, <1>4 DEF HealthInv, Typed
<1>6. ASSUME ~missed' PROVE Unblemished'
  <2>1. ~missed /\ ~Misses(outcome, sample)
    BY <1>4, <1>6 DEF HealthInv, Typed
  <2>2. \A q \in Replicas : tracker'[q] = IF q = r THEN e ELSE tracker[q]
    BY <1>1 DEF HealthInv, Typed
  <2>3. Unblemished
    BY <2>1 DEF HealthInv
  <2> QED BY <1>3, <2>1, <2>2, <2>3 DEF Unblemished
<1> QED BY <1>5, <1>6 DEF HealthInv

\* A report of what is in flight or in Redis is merged.
LEMMA MergeInv ==
  ASSUME HealthInv, NEW r \in Replicas, NEW x \in net \cup redis,
         NEW e \in Merged(tracker[r], x.stats, cfg[r]), tracker' = [tracker EXCEPT ![r] = e],
         net' \subseteq net, UNCHANGED <<cfg, redis, up, missed>>
  PROVE  HealthInv'
<1>1. tracker[r] \in Entry /\ x.stats \in Stats /\ cfg[r] \in [known : BOOLEAN, slo : BOOLEAN]
  BY DEF HealthInv, Typed
<1>2. e \in Entry /\ (Calm(tracker[r]) /\ Innocent(x.stats) => Calm(e))
  BY <1>1, MergedEntry
<1>3. Typed'
  BY <1>2 DEF HealthInv, Typed
<1>4. ASSUME ~missed' PROVE Unblemished'
  <2>1. Unblemished
    BY <1>4 DEF HealthInv
  <2>2. \A q \in Replicas : tracker'[q] = IF q = r THEN e ELSE tracker[q]
    BY DEF HealthInv, Typed
  <2> QED BY <1>2, <2>1, <2>2 DEF Unblemished
<1> QED BY <1>3, <1>4 DEF HealthInv

LEMMA BroadcastInv == ASSUME HealthInv, NEW r \in up, BroadcastOnce(r) PROVE HealthInv'
<1> DEFINE sent == {[from |-> r, to |-> q, sig |-> Secret[r], stats |-> Report(r), age |-> 0] :
                      q \in Replicas \ {r}}
<1>1. net' = net \cup sent
  BY DEF BroadcastOnce
<1>2. r \in Replicas
  BY DEF HealthInv, Typed
<1>3. Report(r) \in Stats /\ (Calm(tracker[r]) => Innocent(Report(r)))
  BY <1>2, ReportStats DEF HealthInv
<1>4. \A p \in sent : /\ DOMAIN p = {"from", "to", "sig", "stats", "age"}
                      /\ p.to \in Replicas /\ p.stats = Report(r)
  OBVIOUS
<1> HIDE DEF sent
<1>5. Typed'
  BY <1>1, <1>3, <1>4 DEF HealthInv, Typed, BroadcastOnce, environment
<1>6. ASSUME ~missed' PROVE Unblemished'
  BY <1>1, <1>2, <1>3, <1>4, <1>6 DEF HealthInv, Unblemished, BroadcastOnce, environment
<1> QED BY <1>5, <1>6 DEF HealthInv

LEMMA PublishInv == ASSUME HealthInv, NEW r \in up, PublishOnce(r) PROVE HealthInv'
<1> DEFINE field == [from |-> r, stats |-> Report(r), age |-> 0]
<1>1. redis' \subseteq redis \cup {field}
  BY DEF PublishOnce
<1>2. r \in Replicas
  BY DEF HealthInv, Typed
<1>3. Report(r) \in Stats /\ (Calm(tracker[r]) => Innocent(Report(r)))
  BY <1>2, ReportStats DEF HealthInv
<1>4. DOMAIN field = {"from", "stats", "age"} /\ field.stats = Report(r)
  OBVIOUS
<1> HIDE DEF field
<1>5. Typed'
  BY <1>1, <1>3, <1>4 DEF HealthInv, Typed, PublishOnce, environment
<1>6. ASSUME ~missed' PROVE Unblemished'
  BY <1>1, <1>2, <1>3, <1>4, <1>6 DEF HealthInv, Unblemished, PublishOnce, environment
<1> QED BY <1>5, <1>6 DEF HealthInv

LEMMA MessageInv == ASSUME HealthInv, NEW p \in net, MergeMessage(p) PROVE HealthInv'
<1>1. p.to \in Replicas /\ net' \subseteq net
  BY DEF HealthInv, Typed, MergeMessage
<1>2. CASE tracker' = tracker
  BY <1>1, <1>2 DEF HealthInv, Typed, Unblemished, MergeMessage, environment
<1>3. CASE tracker' # tracker
  <2>1. PICK e \in Merged(tracker[p.to], p.stats, cfg[p.to]) : tracker' = [tracker EXCEPT ![p.to] = e]
    BY <1>3 DEF MergeMessage
  <2>2. UNCHANGED <<cfg, redis, up, missed>>
    BY DEF MergeMessage, environment
  <2> QED BY <1>1, <2>1, <2>2, MergeInv
<1> QED BY <1>2, <1>3

LEMMA PullInv == ASSUME HealthInv, NEW r \in up, NEW f \in redis, PullField(r, f) PROVE HealthInv'
<1>1. r \in Replicas
  BY DEF HealthInv, Typed
<1>2. CASE f.age > RedisTTL
  BY <1>2 DEF HealthInv, Typed, Unblemished, PullField, environment
<1>3. CASE ~(f.age > RedisTTL)
  <2>1. PICK e \in Merged(tracker[r], f.stats, cfg[r]) : tracker' = [tracker EXCEPT ![r] = e]
    BY <1>3 DEF PullField
  <2>2. UNCHANGED <<cfg, net, redis, up, missed>>
    BY <1>3 DEF PullField, environment
  <2> QED BY <1>1, <2>1, <2>2, MergeInv
<1> QED BY <1>2, <1>3

LEMMA CrashInv == ASSUME HealthInv, NEW r \in up, Crash(r) PROVE HealthInv'
<1>1. tracker' = [tracker EXCEPT ![r] = Empty]
  BY DEF Crash
<1>2. Typed'
  BY <1>1, EmptyCalm DEF HealthInv, Typed, Crash
<1>3. \A q \in Replicas : tracker'[q] = IF q = r THEN Empty ELSE tracker[q]
  BY <1>1 DEF HealthInv, Typed
<1>4. ASSUME ~missed' PROVE Unblemished'
  BY <1>3, <1>4, EmptyCalm DEF HealthInv, Unblemished, Crash
<1> QED BY <1>2, <1>4 DEF HealthInv

LEMMA TickInv == ASSUME HealthInv, Tick PROVE HealthInv'
<1>1. ASSUME NEW r \in Replicas
      PROVE  tracker'[r] \in Entry /\ (Calm(tracker[r]) => Calm(tracker'[r]))
  <2> DEFINE e == tracker[r]
             a == AtMost(e.age + 1, Recover)
  <2>1. e \in Entry
    BY DEF HealthInv, Typed
  <2>2. tracker'[r] = [e EXCEPT !.age = a]
    BY DEF Tick
  <2> HIDE DEF e
  <2>3. a \in 0..Recover
    BY <2>1, HealthAssumption DEF AtMost, Entry
  <2> HIDE DEF a
  <2> QED BY <2>1, <2>2, <2>3 DEF Entry, Calm, Innocent, e
<1>2. tracker' \in [Replicas -> Entry]
  BY <1>1 DEF Tick
<1>3. \A p \in net' : /\ DOMAIN p = {"from", "to", "sig", "stats", "age"}
                      /\ \E q \in net : p.to = q.to /\ p.stats = q.stats
  BY DEF Tick, HealthInv, Typed
<1>4. \A f \in redis' : DOMAIN f = {"from", "stats", "age"} /\ \E g \in redis : f.stats = g.stats
  <2>1. CASE redis' = {}
    BY <2>1
  <2>2. CASE redis' = {[f EXCEPT !.age = AtMost(@ + 1, RedisTTL + 1)] : f \in redis}
    BY <2>2 DEF HealthInv, Typed
  <2> QED BY <2>1, <2>2 DEF Tick
<1>5. Typed'
  BY <1>2, <1>3, <1>4 DEF Tick, HealthInv, Typed, environment
<1>6. ASSUME ~missed' PROVE Unblemished'
  BY <1>1, <1>3, <1>4, <1>6 DEF Tick, HealthInv, Unblemished
<1> QED BY <1>5, <1>6 DEF HealthInv

LEMMA HealthNextInv == HealthInv /\ [HealthNext]_healthVars => HealthInv'
<1> SUFFICES ASSUME HealthInv, [HealthNext]_healthVars PROVE HealthInv'
  OBVIOUS
<1>0. up \subseteq Replicas
  BY DEF HealthInv, Typed
<1>1. ASSUME NEW r \in up, Request(r) \/ Probe(r) PROVE HealthInv'
  <2>1. PICK outcome \in {"ok", "failed", "unknown"} : Observe(r, outcome)
    BY <1>1 DEF Request, Probe
  <2>2. UNCHANGED <<cfg, net, redis, up>>
    BY <1>1 DEF Request, Probe, environment
  <2> QED BY <1>0, <2>1, <2>2, ObserveInv
<1>2. ASSUME NEW r \in up, BroadcastOnce(r) PROVE HealthInv'
  BY <1>2, BroadcastInv
<1>3. ASSUME NEW r \in up, PublishOnce(r) PROVE HealthInv'
  BY <1>3, PublishInv
<1>4. ASSUME NEW r \in up, NEW f \in redis, PullField(r, f) PROVE HealthInv'
  BY <1>4, PullInv
<1>5. ASSUME NEW r \in up, SetTargets(r) PROVE HealthInv'
  <2>1. PICK plan \in Plans : cfg' = [cfg EXCEPT ![r] = plan]
    BY <1>5 DEF SetTargets
  <2>2. plan \in [known : BOOLEAN, slo : BOOLEAN]
    BY HealthAssumption
  <2>3. cfg' \in [Replicas -> [known : BOOLEAN, slo : BOOLEAN]]
    BY <2>1, <2>2 DEF HealthInv, Typed
  <2> QED BY <1>5, <2>3 DEF SetTargets, HealthInv, Typed, Unblemished
<1>6. ASSUME NEW r \in up, Crash(r) PROVE HealthInv'
  BY <1>6, CrashInv
<1>7. ASSUME NEW p \in net, MergeMessage(p) PROVE HealthInv'
  BY <1>7, MessageInv
<1>8. ASSUME NEW p \in net, Lose(p) PROVE HealthInv'
  BY <1>8 DEF Lose, HealthInv, Typed, Unblemished, environment
<1>9. CASE Tick
  BY <1>9, TickInv
<1>10. CASE UNCHANGED healthVars
  BY <1>10 DEF healthVars, HealthInv, Typed, Unblemished
<1> QED BY <1>1, <1>2, <1>3, <1>4, <1>5, <1>6, <1>7, <1>8, <1>9, <1>10 DEF HealthNext

(* Averages, counts and reports keep their types, and while no request     *)
(* failed or missed the SLO none of them leaves it, however they are       *)
(* blended and rounded (tracker.go Observe, Merge, evaluate; gossip.go;    *)
(* redis.go).                                                              *)
THEOREM HealthInvariance == HealthSpec => []HealthInv
BY HealthInitInv, HealthNextInv, PTL DEF HealthSpec

(* For any number of replicas, any metrics, SLOs and weights, and however  *)
(* reports are lost, repeated, delayed or merged, a target is marked       *)
(* degraded only after a request of some replica failed or was outside the *)
(* SLO (tracker.go Observe, Merge).                                        *)
THEOREM DegradedOnlyIfMeasured == HealthSpec => []NoRumour
<1>1. HealthInv => NoRumour
  <2> SUFFICES ASSUME HealthInv PROVE NoRumour
    OBVIOUS
  <2>1. HealthTypeOK
    BY DEF HealthTypeOK, HealthInv, Typed, Entry, Stats
  <2>2. (\E r \in Replicas : tracker[r].degraded) => missed
    BY DEF HealthInv, Unblemished, Calm, Innocent
  <2> QED BY <2>1, <2>2 DEF NoRumour
<1> QED BY <1>1, HealthInvariance, PTL

-----------------------------------------------------------------------------
(* Serving                                                                  *)

CallFields == {"pc", "hit", "candidate", "gone", "err", "failed", "asm", "ctx", "up", "writer",
               "pump", "held", "out", "st", "write"}
Phases == {"exec", "open", "loop", "loop ended", "cache", "usage", "done"}
Chunk == [text : Nat, finish : BOOLEAN, usage : BOOLEAN]

\* How many of the first k events carry text.
Texts(events, k) == Cardinality({i \in 1..k : events[i].text = 1})

\* A chunk that was made of the k-th event, and one of none (Gemini's usage).
MadeOf(events, k, x) ==
  k \in DOMAIN events /\ x.text = events[k].text /\ (x.finish => events[k].finish)
Textless(x) == x.text = 0 /\ ~x.finish

\* A stream that Recv reads.
StreamOK(st) ==
  /\ DOMAIN st = {"kind", "events", "pos", "usage", "done"}
  /\ st.kind \in {"openai", "anthropic", "gemini"}
  /\ st.events \in Seq(Event) /\ FinishComesLast(st.events)
  /\ st.pos \in Nat /\ st.usage \in BOOLEAN /\ st.done \in BOOLEAN

\* The assembler has the first a events; the channel, the pump and the stream follow on.
Assembled(f, a) ==
  /\ a \in 0..Len(f.st.events)
  /\ f.asm.text = Texts(f.st.events, a)
  /\ f.asm.finish => \E i \in 1..a : f.st.events[i].finish

ChannelOK(f, a) ==
  \A j \in DOMAIN f.out :
     \/ MadeOf(f.st.events, a + j, f.out[j])
     \/ /\ j = Len(f.out) /\ Textless(f.out[j])
        /\ f.pump # "send" /\ (f.pump = "recv" => f.st.done)

PumpOK(f, a) ==
  /\ f.pump = "send" =>
       \/ /\ MadeOf(f.st.events, a + Len(f.out) + 1, f.held)
          /\ f.st.done \/ f.st.pos = a + Len(f.out) + 1
       \/ Textless(f.held) /\ f.st.done
  /\ f.pump = "recv" => f.st.done \/ f.st.pos = a + Len(f.out)

-----------------------------------------------------------------------------
\* What Recv may return of a stream.
LEMMA RecvOK ==
  ASSUME NEW st, StreamOK(st), NEW r \in Recv(st)
  PROVE  /\ StreamOK(r.st) /\ r.st.events = st.events /\ r.end \in {"no", "eof", "error"}
         /\ r.end = "no" =>
              /\ ~st.done /\ r.chunk \in Chunk
              /\ \/ MadeOf(st.events, st.pos + 1, r.chunk) /\ r.st.pos = st.pos + 1
                 \/ Textless(r.chunk) /\ r.st.done
<1>0. Len(st.events) \in Nat
  BY DEF StreamOK
<1>1. CASE r = OnEOF(st)
  <2> DEFINE new == [st EXCEPT !.pos = Len(st.events), !.done = TRUE]
  <2>1. /\ DOMAIN new = DOMAIN st /\ new.kind = st.kind /\ new.events = st.events
        /\ new.pos = Len(st.events) /\ new.usage = st.usage /\ new.done = TRUE
    BY DEF StreamOK
  <2>2. r.st = new /\ r.end \in {"no", "eof"} /\ r.chunk = UsageChunk /\ (r.end = "no" => ~st.done)
    BY <1>1 DEF OnEOF
  <2> HIDE DEF new
  <2>3. UsageChunk \in Chunk /\ Textless(UsageChunk)
    BY DEF UsageChunk, Nothing, Chunk, Textless
  <2> QED BY <1>0, <2>1, <2>2, <2>3 DEF StreamOK
<1>2. CASE r = OnError(st)
  BY <1>2 DEF OnError
<1>3. CASE r \notin {OnEOF(st), OnError(st)}
  <2>1. PICK i \in DOMAIN st.events : i = st.pos + 1 /\ ~st.done /\ r = OnEvent(st, st.events[i])
    BY <1>3 DEF Recv
  <2> DEFINE e == st.events[i]
             read == [st EXCEPT !.pos = @ + 1]
             chunk == [text |-> e.text, finish |-> e.finish, usage |-> e.usage]
  <2>2. e \in Event
    BY DEF StreamOK
  <2>3. /\ DOMAIN read = DOMAIN st /\ read.kind = st.kind /\ read.events = st.events
        /\ read.pos = st.pos + 1 /\ read.usage = st.usage /\ read.done = st.done
    BY DEF StreamOK
  <2>4. chunk \in Chunk /\ [chunk EXCEPT !.usage = FALSE] \in Chunk
    <3>1. e.text \in 0..1 /\ e.finish \in BOOLEAN /\ e.usage \in BOOLEAN
      BY <2>2 DEF Event
    <3>2. e.text \in Nat
      BY <3>1
    <3> HIDE DEF e
    <3> QED BY <3>1, <3>2 DEF Chunk
  <2>5. /\ chunk.text = e.text /\ chunk.finish = e.finish
        /\ [chunk EXCEPT !.usage = FALSE].text = e.text /\ [chunk EXCEPT !.usage = FALSE].finish = e.finish
    OBVIOUS
  <2>6. CASE st.kind = "openai"
    <3>1. r = [end |-> IF e.end THEN "eof" ELSE "no", chunk |-> chunk, st |-> read]
      BY <2>1, <2>6 DEF OnEvent
    <3>2. r.st = read /\ r.chunk = chunk /\ r.end \in {"no", "eof"}
      BY <3>1
    <3> HIDE DEF read, chunk, e
    <3> QED BY <2>1, <2>3, <2>4, <2>5, <3>2 DEF StreamOK, MadeOf, e
  <2>7. CASE st.kind = "anthropic"
    <3> DEFINE new == [read EXCEPT !.done = e.end]
    <3>1. r = [end |-> "no", chunk |-> chunk, st |-> new]
      BY <2>1, <2>7 DEF OnEvent
    <3>2. r.st = new /\ r.chunk = chunk /\ r.end = "no"
      BY <3>1
    <3> HIDE DEF read, chunk
    <3>3. /\ DOMAIN new = DOMAIN st /\ new.kind = st.kind /\ new.events = st.events
          /\ new.pos = st.pos + 1 /\ new.usage = st.usage /\ new.done = e.end
      BY <2>3 DEF StreamOK
    <3>4. e.end \in BOOLEAN
      BY <2>2 DEF Event
    <3> HIDE DEF new, e
    <3> QED BY <2>1, <2>4, <2>5, <3>2, <3>3, <3>4 DEF StreamOK, MadeOf, e
  <2>8. CASE st.kind = "gemini"
    <3> DEFINE new == [read EXCEPT !.usage = @ \/ e.usage]
               bare == [chunk EXCEPT !.usage = FALSE]
    <3>1. r = [end |-> "no", chunk |-> bare, st |-> new]
      BY <2>1, <2>8 DEF OnEvent
    <3>2. r.st = new /\ r.chunk = bare /\ r.end = "no"
      BY <3>1
    <3>3. bare \in Chunk /\ bare.text = e.text /\ bare.finish = e.finish
      BY <2>4, <2>5
    <3> HIDE DEF read, chunk, bare
    <3>4. /\ DOMAIN new = DOMAIN st /\ new.kind = st.kind /\ new.events = st.events
          /\ new.pos = st.pos + 1 /\ new.done = st.done /\ new.usage = (read.usage \/ e.usage)
      BY <2>3 DEF StreamOK
    <3>5. new.usage \in BOOLEAN
      BY <3>4
    <3> HIDE DEF new, e
    <3> QED BY <2>1, <3>2, <3>3, <3>4, <3>5 DEF StreamOK, MadeOf, e
  <2> QED BY <2>6, <2>7, <2>8 DEF StreamOK
<1> QED BY <1>1, <1>2, <1>3

\* Opening a wire, or a stream anew.
LEMMA OpenedOK ==
  ASSUME NEW w, w \in Wires \/ StreamOK(w)
  PROVE  /\ StreamOK(Opened(w)) /\ Opened(w).events = w.events
         /\ Opened(w).pos = 0 /\ ~Opened(w).done
<1>1. w.kind \in {"openai", "anthropic", "gemini"} /\ w.events \in Seq(Event) /\ FinishComesLast(w.events)
  BY ServingAssumption DEF StreamOK, Wire
<1> QED BY <1>1 DEF Opened, StreamOK

-----------------------------------------------------------------------------
LEMMA TextsNone == ASSUME NEW events PROVE Texts(events, 0) = 0
<1>1. {i \in 1..0 : events[i].text = 1} = {}
  OBVIOUS
<1> QED BY <1>1, FS_EmptySet DEF Texts

\* The next event adds its text.
LEMMA TextsNext ==
  ASSUME NEW events \in Seq(Event), NEW a \in Nat, a + 1 \in DOMAIN events
  PROVE  Texts(events, a + 1) = Texts(events, a) + events[a + 1].text /\ Texts(events, a) \in Nat
<1> DEFINE S == {i \in 1..a : events[i].text = 1}
           T == {i \in 1..a + 1 : events[i].text = 1}
<1>1. IsFiniteSet(1..a)
  BY FS_Interval
<1>2. IsFiniteSet(S)
  BY <1>1, FS_Subset
<1>3. Cardinality(S) \in Nat
  BY <1>2, FS_CardinalityType
<1>4. events[a + 1].text \in 0..1
  <2>1. events[a + 1] \in Event
    OBVIOUS
  <2> QED BY <2>1 DEF Event
<1>5. CASE events[a + 1].text = 1
  <2>1. T = S \cup {a + 1} /\ a + 1 \notin S
    BY <1>5
  <2>2. Cardinality(T) = Cardinality(S) + 1
    BY <1>2, <2>1, FS_AddElement
  <2> QED BY <1>3, <1>5, <2>2 DEF Texts
<1>6. CASE events[a + 1].text = 0
  <2>1. T = S
    BY <1>6
  <2>2. Texts(events, a + 1) = Texts(events, a) /\ Texts(events, a) \in Nat
    BY <1>3, <2>1 DEF Texts
  <2> QED BY <1>6, <2>2
<1> QED BY <1>4, <1>5, <1>6

\* After the finish reason nothing is missing.
LEMMA TextsAll ==
  ASSUME NEW events \in Seq(Event), FinishComesLast(events), NEW a \in 0..Len(events),
         \E i \in 1..a : events[i].finish
  PROVE  Texts(events, a) = Cardinality({i \in DOMAIN events : events[i].text = 1})
<1>1. DOMAIN events = 1..Len(events) /\ Len(events) \in Nat
  OBVIOUS
<1>2. PICK i \in 1..a : events[i].finish
  OBVIOUS
<1>3. \A j \in DOMAIN events : j > a => events[j].text = 0
  BY <1>1, <1>2 DEF FinishComesLast
<1>4. {j \in 1..a : events[j].text = 1} = {j \in DOMAIN events : events[j].text = 1}
  BY <1>1, <1>3
<1> QED BY <1>4 DEF Texts

-----------------------------------------------------------------------------
\* What a call satisfies: its types, where its goroutine may be in each phase, and, for a
\* provider's stream, that nothing is lost between the provider and the assembler.
ShapeOK(f) ==
  /\ DOMAIN f = CallFields /\ f.pc \in Phases /\ f.hit \in BOOLEAN
  /\ f.held \in Chunk /\ f.asm \in Chunk
  /\ f.out \in Seq(Chunk) /\ Len(f.out) <= ChanCap
  /\ f.writer \in {"none", "running"} /\ f.pump \in {"off", "send", "recv", "ended"}

PhaseOK(c, f) ==
  /\ c \notin Streamed => f.pump = "off" /\ f.pc \notin {"open", "loop", "loop ended"}
  /\ c \in Streamed => f.pc # "exec"
  /\ f.hit => f.pump # "recv" /\ f.out = <<>> /\ f.pc # "open"
  /\ f.pc = "open" => f.pump = "off" /\ f.out = <<>> /\ f.asm = Nothing
  /\ ~f.hit /\ f.pc \in {"cache", "usage", "done"} => f.pump \in {"off", "ended"}
  /\ f.writer # "none" => f.pc \in {"usage", "done"} /\ ~f.hit /\ f.asm.finish

LiveOK(f) ==
  /\ StreamOK(f.st)
  /\ f.pc = "open" => f.st.pos = 0 /\ ~f.st.done
  /\ \E a \in Nat : Assembled(f, a) /\ (f.pc = "loop" => ChannelOK(f, a) /\ PumpOK(f, a))

CallOK(c, f) ==
  f = NewCall \/ (ShapeOK(f) /\ PhaseOK(c, f) /\ (c \in Streamed /\ ~f.hit => LiveOK(f)))

CallsOK == DOMAIN call = Calls /\ \A c \in Calls : CallOK(c, call[c])

\* The fields that CallOK reads, apart from the phase.
Same(f, g) ==
  /\ DOMAIN g = CallFields /\ g.hit = f.hit /\ g.held = f.held /\ g.asm = f.asm
  /\ g.out = f.out /\ g.writer = f.writer /\ g.pump = f.pump /\ g.st = f.st

LEMMA NothingChunk ==
  Nothing \in Chunk /\ UsageChunk \in Chunk /\ Textless(Nothing) /\ NewCall.pc = "new"
BY DEF Nothing, UsageChunk, Chunk, Textless, NewCall

LEMMA BegunCall ==
  ASSUME NEW c, NEW f, CallOK(c, f), f.pc # "new"
  PROVE  ShapeOK(f) /\ PhaseOK(c, f) /\ (c \in Streamed /\ ~f.hit => LiveOK(f))
BY NothingChunk DEF CallOK

LEMMA SetOK ==
  ASSUME CallsOK, NEW c \in Calls, NEW g, CallOK(c, g), Set(c, g)
  PROVE  CallsOK'
BY DEF CallsOK, Set

\* Timers, contexts and the end of a loop do not touch the stream.
LEMMA SameOK ==
  ASSUME NEW c, NEW f, NEW g, CallOK(c, f), f.pc # "new", Same(f, g),
         \/ g.pc = f.pc
         \/ f.pc = "loop" /\ g.pc = "loop ended"
         \/ f.pc = "loop ended" /\ g.pc = "cache" /\ (f.hit \/ f.pump = "ended")
  PROVE  CallOK(c, g)
<1>1. ShapeOK(f) /\ PhaseOK(c, f) /\ (c \in Streamed /\ ~f.hit => LiveOK(f))
  BY BegunCall
<1>2. ShapeOK(g)
  BY <1>1 DEF ShapeOK, Same, Phases
<1>3. PhaseOK(c, g)
  BY <1>1 DEF PhaseOK, Same, ShapeOK
<1>4. ASSUME c \in Streamed, ~g.hit PROVE LiveOK(g)
  <2>1. LiveOK(f)
    BY <1>1, <1>4 DEF Same
  <2>2. g.pc = "open" => f.pc = "open"
    OBVIOUS
  <2> QED BY <2>1, <2>2 DEF LiveOK, Assembled, ChannelOK, PumpOK, Same
<1> QED BY <1>2, <1>3, <1>4 DEF CallOK

-----------------------------------------------------------------------------
\* The beginnings of a call.
LEMMA BegunFields ==
  /\ DOMAIN Begun = CallFields /\ Begun.pc = "exec" /\ Begun.hit = FALSE /\ Begun.held = Nothing
  /\ Begun.asm = Nothing /\ Begun.out = <<>> /\ Begun.writer = "none" /\ Begun.pump = "off"
BY DEF Begun, CallFields

LEMMA ChatOK ==
  ASSUME NEW c \in Calls \ Streamed, NEW hit \in BOOLEAN
  PROVE  CallOK(c, [Begun EXCEPT !.hit = hit, !.pc = IF hit THEN "cache" ELSE "exec"])
<1> DEFINE p == IF hit THEN "cache" ELSE "exec"
           g == [Begun EXCEPT !.hit = hit, !.pc = p]
<1>1. p \in {"cache", "exec"}
  OBVIOUS
<1> HIDE DEF p
<1>2. /\ DOMAIN g = CallFields /\ g.pc = p /\ g.hit = hit /\ g.held = Nothing
      /\ g.asm = Nothing /\ g.out = <<>> /\ g.writer = "none" /\ g.pump = "off"
  BY BegunFields DEF CallFields
<1> HIDE DEF g
<1>3. <<>> \in Seq(Chunk) /\ Len(<<>>) = 0 /\ 0 <= ChanCap
  BY ServingAssumption
<1>4. ShapeOK(g)
  BY <1>1, <1>2, <1>3, NothingChunk DEF ShapeOK, Phases
<1>5. PhaseOK(c, g)
  BY <1>1, <1>2 DEF PhaseOK
<1> QED BY <1>4, <1>5 DEF CallOK, g, p

LEMMA ServeStreamOK ==
  ASSUME NEW c \in Streamed, NEW w \in Wires, NEW candidate
  PROVE  CallOK(c, [Begun EXCEPT !.st = Opened(w), !.pc = "open", !.candidate = candidate])
<1> DEFINE g == [Begun EXCEPT !.st = Opened(w), !.pc = "open", !.candidate = candidate]
<1>1. /\ DOMAIN g = CallFields /\ g.pc = "open" /\ g.hit = FALSE /\ g.held = Nothing
      /\ g.asm = Nothing /\ g.out = <<>> /\ g.writer = "none" /\ g.pump = "off" /\ g.st = Opened(w)
  BY BegunFields DEF CallFields
<1> HIDE DEF g
<1>2. <<>> \in Seq(Chunk) /\ Len(<<>>) = 0 /\ 0 <= ChanCap /\ DOMAIN <<>> = {}
  BY ServingAssumption
<1>3. ShapeOK(g)
  BY <1>1, <1>2, NothingChunk DEF ShapeOK, Phases
<1>4. PhaseOK(c, g)
  BY <1>1 DEF PhaseOK
<1>5. StreamOK(g.st) /\ g.st.pos = 0 /\ ~g.st.done
  BY <1>1, OpenedOK
<1>6. Len(g.st.events) \in Nat
  BY <1>5 DEF StreamOK
<1>7. 0 \in 0..Len(g.st.events) /\ Texts(g.st.events, 0) = 0
  BY <1>6, TextsNone
<1>8. g.asm.text = 0 /\ ~g.asm.finish
  BY <1>1 DEF Nothing
<1>9. Assembled(g, 0) /\ ChannelOK(g, 0) /\ PumpOK(g, 0)
  BY <1>1, <1>2, <1>7, <1>8 DEF Assembled, ChannelOK, PumpOK
<1>10. LiveOK(g)
  BY <1>5, <1>9 DEF LiveOK
<1> QED BY <1>3, <1>4, <1>10 DEF CallOK, g

LEMMA ReplayOK ==
  ASSUME NEW c \in Streamed
  PROVE  CallOK(c, [Begun EXCEPT !.hit = TRUE, !.pc = "loop", !.pump = "send",
                                 !.held = [text |-> 1, finish |-> TRUE, usage |-> FALSE]])
<1> DEFINE x == [text |-> 1, finish |-> TRUE, usage |-> FALSE]
           g == [Begun EXCEPT !.hit = TRUE, !.pc = "loop", !.pump = "send", !.held = x]
<1>1. x \in Chunk
  BY DEF Chunk
<1> HIDE DEF x
<1>2. /\ DOMAIN g = CallFields /\ g.pc = "loop" /\ g.hit = TRUE /\ g.held = x
      /\ g.asm = Nothing /\ g.out = <<>> /\ g.writer = "none" /\ g.pump = "send"
  BY BegunFields DEF CallFields
<1> HIDE DEF g
<1>3. <<>> \in Seq(Chunk) /\ Len(<<>>) = 0 /\ 0 <= ChanCap
  BY ServingAssumption
<1>4. ShapeOK(g)
  BY <1>1, <1>2, <1>3, NothingChunk DEF ShapeOK, Phases
<1>5. PhaseOK(c, g)
  BY <1>2 DEF PhaseOK
<1> QED BY <1>2, <1>4, <1>5 DEF CallOK, g, x

\* The provider's whole answer, or an error.
LEMMA ExecOK ==
  ASSUME NEW c \in Calls, NEW f, CallOK(c, f), f.pc = "exec", NEW answer \in Answers \cup {f.asm}, NEW err
  PROVE  CallOK(c, [f EXCEPT !.pc = "cache", !.err = err, !.asm = answer])
<1> DEFINE g == [f EXCEPT !.pc = "cache", !.err = err, !.asm = answer]
<1>1. ShapeOK(f) /\ PhaseOK(c, f)
  BY BegunCall
<1>2. /\ DOMAIN g = CallFields /\ g.pc = "cache" /\ g.hit = f.hit /\ g.held = f.held
      /\ g.asm = answer /\ g.out = f.out /\ g.writer = f.writer /\ g.pump = f.pump
  BY <1>1 DEF ShapeOK, CallFields
<1>3. answer \in Chunk
  <2>1. CASE answer \in Answers
    <3>1. PICK whole \in BOOLEAN : answer = [text |-> 1, finish |-> whole, usage |-> TRUE]
      BY <2>1 DEF Answers
    <3>2. 1 \in Nat
      OBVIOUS
    <3> QED BY <3>1, <3>2 DEF Chunk
  <2>2. CASE answer = f.asm
    BY <1>1, <2>2 DEF ShapeOK
  <2> QED BY <2>1, <2>2
<1>4. c \notin Streamed
  BY <1>1 DEF PhaseOK
<1> HIDE DEF g
<1>5. ShapeOK(g)
  BY <1>1, <1>2, <1>3 DEF ShapeOK, Phases
<1>6. PhaseOK(c, g)
  BY <1>1, <1>2, <1>4 DEF PhaseOK, ShapeOK
<1> QED BY <1>4, <1>5, <1>6 DEF CallOK, g

-----------------------------------------------------------------------------
\* openStream has its first chunk.
LEMMA OpenStreamOK ==
  ASSUME NEW c \in Calls, NEW f, CallOK(c, f), f.pc = "open", NEW r \in Recv(f.st)
  PROVE  LET s == [f EXCEPT !.st = r.st]
         IN CallOK(c, IF r.end = "no" THEN Pumped(s, r.chunk)
                      ELSE [s EXCEPT !.pc = "cache", !.err = TRUE, !.up = "cancelled", !.st = Opened(@)])
<1> DEFINE s == [f EXCEPT !.st = r.st]
           g == [s EXCEPT !.pc = "loop", !.pump = "send", !.held = r.chunk]
           h == [s EXCEPT !.pc = "cache", !.err = TRUE, !.up = "cancelled", !.st = Opened(s.st)]
<1>1. ShapeOK(f) /\ PhaseOK(c, f) /\ c \in Streamed /\ ~f.hit /\ LiveOK(f)
  BY BegunCall DEF PhaseOK, ShapeOK
<1>2. StreamOK(f.st) /\ f.st.pos = 0 /\ ~f.st.done /\ Len(f.st.events) \in Nat
  BY <1>1 DEF LiveOK, StreamOK
<1>3. f.out = <<>> /\ f.asm = Nothing /\ f.pump = "off" /\ f.writer = "none"
  BY <1>1 DEF PhaseOK, ShapeOK
<1>4. /\ StreamOK(r.st) /\ r.st.events = f.st.events /\ r.end \in {"no", "eof", "error"}
      /\ r.end = "no" =>
              /\ r.chunk \in Chunk
              /\ \/ MadeOf(f.st.events, f.st.pos + 1, r.chunk) /\ r.st.pos = f.st.pos + 1
                 \/ Textless(r.chunk) /\ r.st.done
  BY <1>2, RecvOK
<1>5. DOMAIN s = CallFields /\ s.st = r.st
  BY <1>1 DEF ShapeOK, CallFields
<1>6. /\ DOMAIN g = CallFields /\ g.pc = "loop" /\ g.hit = f.hit /\ g.held = r.chunk /\ g.asm = f.asm
      /\ g.out = f.out /\ g.writer = f.writer /\ g.pump = "send" /\ g.st = r.st
  BY <1>1 DEF ShapeOK, CallFields
<1>7. /\ DOMAIN h = CallFields /\ h.pc = "cache" /\ h.hit = f.hit /\ h.held = f.held /\ h.asm = f.asm
      /\ h.out = f.out /\ h.writer = f.writer /\ h.pump = f.pump /\ h.st = Opened(r.st)
  BY <1>1, <1>5 DEF ShapeOK, CallFields
<1>8. StreamOK(Opened(r.st)) /\ Opened(r.st).events = f.st.events
  BY <1>4, OpenedOK
<1> HIDE DEF g, h, s
<1>9. Texts(f.st.events, 0) = 0 /\ Nothing.text = 0 /\ ~Nothing.finish /\ 0 \in 0..Len(f.st.events)
  BY <1>2, TextsNone DEF Nothing
<1>10. CASE r.end = "no"
  <2>1. ShapeOK(g)
    BY <1>1, <1>4, <1>6, <1>10 DEF ShapeOK, Phases
  <2>2. PhaseOK(c, g)
    BY <1>1, <1>3, <1>6 DEF PhaseOK
  <2>3. Assembled(g, 0)
    BY <1>3, <1>4, <1>6, <1>9 DEF Assembled
  <2>4. ChannelOK(g, 0)
    BY <1>3, <1>6 DEF ChannelOK
  <2>5. 0 + Len(g.out) + 1 = 1 /\ f.st.pos + 1 = 1
    BY <1>2, <1>3, <1>6
  <2>6. PumpOK(g, 0)
    BY <1>4, <1>6, <1>10, <2>5 DEF PumpOK
  <2>7. LiveOK(g)
    BY <1>4, <1>6, <2>3, <2>4, <2>6 DEF LiveOK
  <2>8. CallOK(c, g)
    BY <2>1, <2>2, <2>7 DEF CallOK
  <2> QED BY <1>10, <2>8 DEF Pumped, g, s
<1>11. CASE r.end # "no"
  <2>1. ShapeOK(h)
    BY <1>1, <1>7 DEF ShapeOK, Phases
  <2>2. PhaseOK(c, h)
    BY <1>1, <1>3, <1>7 DEF PhaseOK
  <2>3. Assembled(h, 0)
    BY <1>3, <1>8, <1>7, <1>9 DEF Assembled
  <2>4. LiveOK(h)
    BY <1>7, <1>8, <2>3 DEF LiveOK
  <2>5. CallOK(c, h)
    BY <2>1, <2>2, <2>4 DEF CallOK
  <2> QED BY <1>11, <2>5 DEF h, s
<1> QED BY <1>10, <1>11

-----------------------------------------------------------------------------
\* Whatever the pump did last, its end loses nothing.
\* g is f after its pump ended, its stream having been at st.
LEMMA PumpEndsOK ==
  ASSUME NEW c \in Calls, NEW f, NEW g, NEW st, CallOK(c, f), f.pc # "new", f.pump \in {"send", "recv"},
         DOMAIN g = CallFields, g.pc = f.pc, g.hit = f.hit, g.held = Nothing, g.asm = f.asm,
         g.out = f.out, g.writer = f.writer, g.pump = "ended",
         ~f.hit => StreamOK(st) /\ st.events = f.st.events /\ g.st = Opened(st)
  PROVE  CallOK(c, g)
<1>1. ShapeOK(f) /\ PhaseOK(c, f) /\ (c \in Streamed /\ ~f.hit => LiveOK(f))
  BY BegunCall
<1>2. ShapeOK(g)
  BY <1>1, NothingChunk DEF ShapeOK
<1>3. PhaseOK(c, g)
  BY <1>1 DEF PhaseOK
<1>4. ASSUME c \in Streamed, ~g.hit PROVE LiveOK(g)
  <2>1. LiveOK(f)
    BY <1>1, <1>4
  <2>2. StreamOK(Opened(st)) /\ Opened(st).events = f.st.events
    BY <1>4, OpenedOK
  <2>3. g.pc # "open"
    BY <1>1 DEF PhaseOK
  <2>4. PICK a \in Nat : Assembled(f, a) /\ (f.pc = "loop" => ChannelOK(f, a) /\ PumpOK(f, a))
    BY <2>1 DEF LiveOK
  <2>5. Assembled(g, a)
    BY <1>4, <2>2, <2>4 DEF Assembled
  <2>6. g.pc = "loop" => ChannelOK(g, a) /\ PumpOK(g, a)
    BY <1>4, <2>2, <2>4 DEF ChannelOK, PumpOK
  <2> QED BY <1>4, <2>2, <2>3, <2>5, <2>6 DEF LiveOK
<1> QED BY <1>2, <1>3, <1>4 DEF CallOK

LEMMA PumpSendOK ==
  ASSUME NEW c \in Calls, CallOK(c, call[c]), PumpSend(c)
  PROVE  \E g : CallOK(c, g) /\ Set(c, g) /\ g.pc = call[c].pc /\ g.writer = call[c].writer
<1> DEFINE f == call[c]
<1>1. f.pc # "new" /\ f.pump = "send"
  BY DEF PumpSend
<1>2. ShapeOK(f) /\ PhaseOK(c, f) /\ (c \in Streamed /\ ~f.hit => LiveOK(f))
  BY <1>1, BegunCall
<1>3. CASE Len(f.out) < Room(c) /\ Set(c, [f EXCEPT !.pump = "recv", !.out = Append(@, f.held), !.held = Nothing])
  <2> DEFINE g == [f EXCEPT !.pump = "recv", !.out = Append(@, f.held), !.held = Nothing]
             n == Len(f.out)
  <2>1. /\ DOMAIN g = CallFields /\ g.pc = f.pc /\ g.hit = f.hit /\ g.held = Nothing /\ g.asm = f.asm
        /\ g.out = Append(f.out, f.held) /\ g.writer = f.writer /\ g.pump = "recv" /\ g.st = f.st
    BY <1>2 DEF ShapeOK, CallFields
  <2>2. f.out \in Seq(Chunk) /\ f.held \in Chunk /\ n \in Nat
    BY <1>2 DEF ShapeOK
  <2>3. ~f.hit /\ n < ChanCap
    BY <1>2, <1>3, <2>2 DEF Room, ShapeOK
  <2>4. /\ g.out \in Seq(Chunk) /\ Len(g.out) = n + 1 /\ DOMAIN g.out = 1..n + 1 /\ DOMAIN f.out = 1..n
        /\ g.out[n + 1] = f.held /\ \A j \in 1..n : g.out[j] = f.out[j]
    <3>1. g.out = Append(f.out, f.held)
      BY <2>1
    <3> HIDE DEF g
    <3> QED BY <2>2, <3>1
  <2>5. Len(g.out) <= ChanCap
    <3>1. ChanCap \in Nat
      BY ServingAssumption
    <3> QED BY <2>2, <2>3, <2>4, <3>1
  <2> HIDE DEF g, n
  <2>6. ShapeOK(g)
    BY <1>2, <2>1, <2>4, <2>5, NothingChunk DEF ShapeOK
  <2>7. PhaseOK(c, g)
    BY <1>1, <1>2, <2>1, <2>3 DEF PhaseOK
  <2>8. ASSUME c \in Streamed, ~g.hit PROVE LiveOK(g)
    <3>1. LiveOK(f)
      BY <1>2, <2>3, <2>8
    <3>2. PICK a \in Nat : Assembled(f, a) /\ (f.pc = "loop" => ChannelOK(f, a) /\ PumpOK(f, a))
      BY <3>1 DEF LiveOK
    <3>3. Assembled(g, a)
      BY <2>1, <3>2 DEF Assembled
    <3>4. ASSUME g.pc = "loop" PROVE ChannelOK(g, a) /\ PumpOK(g, a)
      <4>1. ChannelOK(f, a) /\ PumpOK(f, a)
        BY <2>1, <3>2, <3>4
      <4>2. \A j \in 1..n : MadeOf(f.st.events, a + j, f.out[j])
        BY <1>1, <2>4, <4>1 DEF ChannelOK
      <4>3. \/ /\ MadeOf(f.st.events, a + n + 1, f.held)
               /\ f.st.done \/ f.st.pos = a + n + 1
            \/ Textless(f.held) /\ f.st.done
        BY <1>1, <4>1 DEF PumpOK, n
      <4>4. a + (n + 1) = a + n + 1
        BY <2>2
      <4>5. \A j \in DOMAIN g.out : j \in 1..n \/ j = n + 1
        BY <2>2, <2>4
      <4>6. ChannelOK(g, a)
        BY <2>1, <2>4, <4>2, <4>3, <4>4, <4>5 DEF ChannelOK
      <4>7. PumpOK(g, a)
        BY <2>1, <2>4, <4>3, <4>4 DEF PumpOK
      <4> QED BY <4>6, <4>7
    <3>5. StreamOK(g.st) /\ (g.pc = "open" => g.st.pos = 0 /\ ~g.st.done)
      BY <2>1, <3>1 DEF LiveOK
    <3> QED BY <3>2, <3>3, <3>4, <3>5 DEF LiveOK
  <2>9. CallOK(c, g)
    BY <2>6, <2>7, <2>8 DEF CallOK
  <2>10. Set(c, g)
    BY <1>3 DEF g
  <2> QED BY <2>1, <2>9, <2>10
<1>4. CASE Set(c, PumpEnds(f))
  <2> DEFINE g == PumpEnds(f)
  <2>1. /\ DOMAIN g = CallFields /\ g.pc = f.pc /\ g.hit = f.hit /\ g.held = Nothing /\ g.asm = f.asm
        /\ g.out = f.out /\ g.writer = f.writer /\ g.pump = "ended"
        /\ g.st = IF f.hit THEN f.st ELSE Opened(f.st)
    BY <1>2 DEF ShapeOK, PumpEnds, CallFields
  <2>2. ~f.hit => StreamOK(f.st)
    <3>1. c \in Streamed
      BY <1>1, <1>2 DEF PhaseOK
    <3> QED BY <1>2, <3>1 DEF LiveOK
  <2> HIDE DEF g
  <2>3. CallOK(c, g)
    BY <1>1, <2>1, <2>2, PumpEndsOK
  <2> QED BY <1>4, <2>1, <2>3 DEF g
<1> QED BY <1>3, <1>4 DEF PumpSend

LEMMA PumpRecvOK ==
  ASSUME NEW c \in Calls, CallOK(c, call[c]), PumpRecv(c)
  PROVE  \E g : CallOK(c, g) /\ Set(c, g) /\ g.pc = call[c].pc /\ g.writer = call[c].writer
<1> DEFINE f == call[c]
<1>1. f.pc # "new" /\ f.pump = "recv"
  BY DEF PumpRecv
<1>2. ShapeOK(f) /\ PhaseOK(c, f) /\ (c \in Streamed /\ ~f.hit => LiveOK(f))
  BY <1>1, BegunCall
<1>3. c \in Streamed /\ ~f.hit /\ LiveOK(f) /\ StreamOK(f.st)
  BY <1>1, <1>2 DEF PhaseOK, LiveOK
<1>4. PICK r \in Recv(f.st) :
        LET s == [f EXCEPT !.st = r.st]
        IN Set(c, CASE r.end = "eof" -> PumpEnds(s)
                    [] r.end = "error" -> [PumpEnds(s) EXCEPT !.failed = s.ctx = "live"]
                    [] r.end = "no" -> [s EXCEPT !.pump = "send", !.held = r.chunk])
  BY DEF PumpRecv
<1> DEFINE s == [f EXCEPT !.st = r.st]
<1>5. /\ StreamOK(r.st) /\ r.st.events = f.st.events /\ r.end \in {"no", "eof", "error"}
      /\ r.end = "no" =>
              /\ ~f.st.done /\ r.chunk \in Chunk
              /\ \/ MadeOf(f.st.events, f.st.pos + 1, r.chunk) /\ r.st.pos = f.st.pos + 1
                 \/ Textless(r.chunk) /\ r.st.done
  BY <1>3, RecvOK
<1>6. /\ DOMAIN s = CallFields /\ s.pc = f.pc /\ s.hit = f.hit /\ s.held = f.held /\ s.asm = f.asm
      /\ s.out = f.out /\ s.writer = f.writer /\ s.pump = f.pump /\ s.st = r.st
  BY <1>2 DEF ShapeOK, CallFields
<1>7. CASE r.end \in {"eof", "error"}
  <2> DEFINE e == PumpEnds(s)
             g == IF r.end = "eof" THEN e ELSE [e EXCEPT !.failed = s.ctx = "live"]
  <2>0. Set(c, g)
    BY <1>4, <1>7
  <2> HIDE DEF s
  <2>1. /\ DOMAIN e = CallFields /\ e.pc = s.pc /\ e.hit = s.hit /\ e.held = Nothing /\ e.asm = s.asm
        /\ e.out = s.out /\ e.writer = s.writer /\ e.pump = "ended"
        /\ e.st = IF s.hit THEN s.st ELSE Opened(s.st)
    BY <1>6 DEF PumpEnds, CallFields
  <2> HIDE DEF e
  <2>2. /\ DOMAIN g = CallFields /\ g.pc = e.pc /\ g.hit = e.hit /\ g.held = e.held /\ g.asm = e.asm
        /\ g.out = e.out /\ g.writer = e.writer /\ g.pump = e.pump /\ g.st = e.st
    BY <2>1 DEF CallFields
  <2> HIDE DEF g
  <2>3. g.st = Opened(r.st)
    BY <1>3, <1>6, <2>1, <2>2
  <2>4. CallOK(c, g)
    BY <1>1, <1>5, <1>6, <2>1, <2>2, <2>3, PumpEndsOK
  <2> QED BY <1>6, <2>0, <2>1, <2>2, <2>4
<1>8. CASE r.end = "no"
  <2> DEFINE g == [s EXCEPT !.pump = "send", !.held = r.chunk]
             n == Len(f.out)
  <2>0. Set(c, g)
    BY <1>4, <1>8
  <2> HIDE DEF s
  <2>1. /\ DOMAIN g = CallFields /\ g.pc = f.pc /\ g.hit = f.hit /\ g.held = r.chunk /\ g.asm = f.asm
        /\ g.out = f.out /\ g.writer = f.writer /\ g.pump = "send" /\ g.st = r.st
    BY <1>6 DEF CallFields
  <2> HIDE DEF g
  <2>2. ShapeOK(g)
    BY <1>2, <1>5, <1>8, <2>1 DEF ShapeOK
  <2>3. PhaseOK(c, g)
    BY <1>1, <1>2, <2>1 DEF PhaseOK
  <2>4. PICK a \in Nat : Assembled(f, a) /\ (f.pc = "loop" => ChannelOK(f, a) /\ PumpOK(f, a))
    BY <1>3 DEF LiveOK
  <2>5. Assembled(g, a)
    BY <1>5, <2>1, <2>4 DEF Assembled
  <2>6. ASSUME g.pc = "loop" PROVE ChannelOK(g, a) /\ PumpOK(g, a)
    <3>1. ChannelOK(f, a) /\ PumpOK(f, a)
      BY <2>1, <2>4, <2>6
    <3>2. \A j \in DOMAIN f.out : MadeOf(f.st.events, a + j, f.out[j])
      BY <1>1, <1>5, <1>8, <3>1 DEF ChannelOK
    <3>3. f.st.pos = a + Len(f.out)
      BY <1>1, <1>5, <1>8, <3>1 DEF PumpOK
    <3>4. f.st.pos + 1 = a + Len(f.out) + 1
      BY <3>3
    <3>5. ChannelOK(g, a)
      BY <1>5, <2>1, <3>2 DEF ChannelOK
    <3>6. PumpOK(g, a)
      BY <1>5, <1>8, <2>1, <3>4 DEF PumpOK
    <3> QED BY <3>5, <3>6
  <2>7. g.pc # "open"
    BY <1>1, <1>2, <2>1 DEF PhaseOK
  <2>8. LiveOK(g)
    BY <1>5, <2>1, <2>4, <2>5, <2>6, <2>7 DEF LiveOK
  <2>9. CallOK(c, g)
    BY <2>2, <2>3, <2>8 DEF CallOK
  <2> QED BY <2>0, <2>1, <2>9
<1> QED BY <1>5, <1>7, <1>8

-----------------------------------------------------------------------------
\* The assembler and the client get x; f is the call without it.
Served(f, x) == [f EXCEPT !.asm = Add(@, x)]
Stalled(f, x) == [f EXCEPT !.asm = Add(@, x), !.write = "blocked"]
Lost(f, x) == [Left(f) EXCEPT !.asm = Add(@, x), !.gone = TRUE, !.pc = "loop ended"]

\* x is the next that the assembler of f is to get.
Follows(f, x) ==
  /\ StreamOK(f.st)
  /\ \E b \in 0..Len(f.st.events) :
       /\ f.asm.text + x.text = Texts(f.st.events, b)
       /\ f.asm.finish \/ x.finish => \E i \in 1..b : f.st.events[i].finish
       /\ ChannelOK(f, b) /\ PumpOK(f, b)

LEMMA DeliverOK ==
  ASSUME NEW c \in Streamed, NEW x \in Chunk, NEW f, ShapeOK(f), PhaseOK(c, f), f.pc = "loop",
         f.hit \/ Follows(f, x)
  PROVE  /\ CallOK(c, Served(f, x)) /\ Served(f, x).pc = "loop" /\ Served(f, x).writer = f.writer
         /\ CallOK(c, Stalled(f, x)) /\ Stalled(f, x).pc = "loop" /\ Stalled(f, x).writer = f.writer
         /\ CallOK(c, Lost(f, x)) /\ Lost(f, x).pc = "loop ended" /\ Lost(f, x).writer = f.writer
<1> DEFINE new == Add(f.asm, x)
           far == [f EXCEPT !.ctx = "done", !.up = "cancelled"]
           kept == [f EXCEPT !.asm = new]
           held == [f EXCEPT !.asm = new, !.write = "blocked"]
           lost == [far EXCEPT !.asm = Add(far.asm, x), !.gone = TRUE, !.pc = "loop ended"]
<1>1. new \in Chunk /\ new.text = f.asm.text + x.text /\ new.finish = (f.asm.finish \/ x.finish)
  <2>1. f.asm \in Chunk
    BY DEF ShapeOK
  <2>2. f.asm.text \in Nat /\ x.text \in Nat
    BY <2>1 DEF Chunk
  <2>3. f.asm.text + x.text \in Nat
    BY <2>2
  <2> QED BY <2>3 DEF Add, Chunk
<1>2. /\ DOMAIN far = CallFields /\ far.pc = f.pc /\ far.hit = f.hit /\ far.held = f.held /\ far.asm = f.asm
      /\ far.out = f.out /\ far.writer = f.writer /\ far.pump = f.pump /\ far.st = f.st
  BY DEF ShapeOK, CallFields
<1>3. Served(f, x) = kept /\ Stalled(f, x) = held /\ Lost(f, x) = lost
  BY DEF Left, Served, Stalled, Lost
<1> HIDE DEF new, far
<1>4. /\ DOMAIN kept = CallFields /\ kept.pc = "loop" /\ kept.hit = f.hit /\ kept.held = f.held
      /\ kept.asm = new /\ kept.out = f.out /\ kept.writer = f.writer /\ kept.pump = f.pump
      /\ kept.st = f.st
  BY DEF ShapeOK, CallFields
<1>8. /\ DOMAIN held = CallFields /\ held.pc = "loop" /\ held.hit = f.hit /\ held.held = f.held
      /\ held.asm = new /\ held.out = f.out /\ held.writer = f.writer /\ held.pump = f.pump
      /\ held.st = f.st
  BY DEF ShapeOK, CallFields
<1>5. /\ DOMAIN lost = CallFields /\ lost.pc = "loop ended" /\ lost.hit = f.hit /\ lost.held = f.held
      /\ lost.asm = new /\ lost.out = f.out /\ lost.writer = f.writer /\ lost.pump = f.pump
      /\ lost.st = f.st
  BY <1>2 DEF CallFields, new
<1> HIDE DEF kept, held, lost
<1>6. f.writer = "none"
  BY DEF PhaseOK, ShapeOK
<1>7. ASSUME NEW g, g \in {kept, held, lost} PROVE CallOK(c, g)
  <2>1. /\ DOMAIN g = CallFields /\ g.pc \in {"loop", "loop ended"} /\ g.hit = f.hit /\ g.held = f.held
        /\ g.asm = new /\ g.out = f.out /\ g.writer = f.writer /\ g.pump = f.pump
        /\ g.st = f.st
    BY <1>4, <1>5, <1>7, <1>8
  <2>2. ShapeOK(g)
    BY <1>1, <2>1 DEF ShapeOK, Phases
  <2>3. PhaseOK(c, g)
    BY <1>6, <2>1 DEF PhaseOK
  <2>4. ASSUME ~g.hit PROVE LiveOK(g)
    <3>1. PICK b \in 0..Len(f.st.events) :
                        /\ f.asm.text + x.text = Texts(f.st.events, b)
                        /\ f.asm.finish \/ x.finish => \E i \in 1..b : f.st.events[i].finish
                        /\ ChannelOK(f, b) /\ PumpOK(f, b)
      BY <2>1, <2>4 DEF Follows
    <3>2. Assembled(g, b)
      BY <1>1, <2>1, <3>1 DEF Assembled
    <3>3. ChannelOK(g, b) /\ PumpOK(g, b)
      BY <2>1, <3>1 DEF ChannelOK, PumpOK
    <3>4. b \in Nat
      OBVIOUS
    <3> QED BY <2>1, <2>4, <3>2, <3>3, <3>4 DEF LiveOK, Follows
  <2> QED BY <2>2, <2>3, <2>4 DEF CallOK
<1> QED BY <1>3, <1>4, <1>5, <1>7, <1>8

LEMMA ServeChunkOK ==
  ASSUME NEW c \in Calls, CallOK(c, call[c]), ServeChunk(c)
  PROVE  \E g : CallOK(c, g) /\ Set(c, g) /\ g.pc \in {"loop", "loop ended"} /\ g.writer = call[c].writer
<1> DEFINE f == call[c]
<1>1. f.pc = "loop"
  BY DEF ServeChunk, At
<1>2. ShapeOK(f) /\ PhaseOK(c, f) /\ (c \in Streamed /\ ~f.hit => LiveOK(f))
  BY <1>1, BegunCall
<1>3. c \in Streamed
  BY <1>1, <1>2 DEF PhaseOK
<1>4. CASE f.out # <<>> /\ Deliver(c, Head(f.out), [f EXCEPT !.out = Tail(@)])
  <2> DEFINE g == [f EXCEPT !.out = Tail(@)]
             x == Head(f.out)
             n == Len(f.out)
  <2>1. /\ DOMAIN g = CallFields /\ g.pc = f.pc /\ g.hit = f.hit /\ g.held = f.held /\ g.asm = f.asm
        /\ g.out = Tail(f.out) /\ g.writer = f.writer /\ g.pump = f.pump /\ g.st = f.st
    BY <1>2 DEF ShapeOK, CallFields
  <2>2. f.out \in Seq(Chunk) /\ f.out # <<>> /\ n <= ChanCap
    BY <1>2, <1>4 DEF ShapeOK
  <2>3. Deliver(c, x, g)
    BY <1>4
  <2> HIDE DEF g
  <2>4. /\ g.out \in Seq(Chunk) /\ Len(g.out) = n - 1 /\ x = f.out[1] /\ x \in Chunk /\ n \in Nat /\ n > 0
        /\ DOMAIN f.out = 1..n /\ DOMAIN g.out = 1..n - 1 /\ \A j \in 1..n - 1 : g.out[j] = f.out[j + 1]
    <3>1. g.out = Tail(f.out)
      BY <2>1
    <3> QED BY <2>2, <3>1
  <2> HIDE DEF n, x
  <2>5. Len(g.out) <= ChanCap
    <3>1. ChanCap \in Nat
      BY ServingAssumption
    <3> QED BY <2>2, <2>4, <3>1 DEF n
  <2>6. ShapeOK(g)
    BY <1>2, <2>1, <2>4, <2>5 DEF ShapeOK
  <2>7. ~f.hit
    BY <1>2, <2>2 DEF PhaseOK, ShapeOK
  <2>8. PhaseOK(c, g)
    BY <1>1, <1>2, <1>3, <2>1, <2>7 DEF PhaseOK
  <2>9. LiveOK(f) /\ StreamOK(f.st) /\ f.st.events \in Seq(Event) /\ Len(f.st.events) \in Nat
    BY <1>2, <1>3, <2>7 DEF LiveOK, StreamOK
  <2>10. PICK a \in Nat : Assembled(f, a) /\ ChannelOK(f, a) /\ PumpOK(f, a)
    BY <1>1, <2>9 DEF LiveOK
  <2>11. f.asm.text = Texts(f.st.events, a) /\ a \in 0..Len(f.st.events)
    BY <2>10 DEF Assembled
  <2>12. 1 \in DOMAIN f.out
    BY <2>4
  <2>13. ASSUME MadeOf(f.st.events, a + 1, x) PROVE Follows(g, x)
    <3>1. a + 1 \in DOMAIN f.st.events /\ x.text = f.st.events[a + 1].text
      BY <2>13 DEF MadeOf
    <3>2. f.asm.text + x.text = Texts(f.st.events, a + 1)
      BY <2>9, <2>11, <3>1, TextsNext
    <3>3. ASSUME f.asm.finish \/ x.finish PROVE \E i \in 1..a + 1 : f.st.events[i].finish
      <4>1. CASE f.asm.finish
        <5>1. PICK i \in 1..a : f.st.events[i].finish
          BY <2>10, <4>1 DEF Assembled
        <5>2. i \in 1..a + 1
          OBVIOUS
        <5> QED BY <5>1, <5>2
      <4>2. CASE x.finish
        <5>1. f.st.events[a + 1].finish
          BY <2>13, <4>2 DEF MadeOf
        <5>2. a + 1 \in 1..a + 1
          OBVIOUS
        <5> QED BY <5>1, <5>2
      <4> QED BY <3>3, <4>1, <4>2
    <3>4. a + 1 \in 0..Len(f.st.events)
      BY <2>9, <3>1
    <3>5. \A j \in 1..n - 1 : a + 1 + j = a + (j + 1) /\ j + 1 \in 1..n /\ (j + 1 = n => j = n - 1)
      BY <2>4
    <3>6. ChannelOK(g, a + 1)
      <4> SUFFICES ASSUME NEW j \in 1..n - 1
                   PROVE  \/ MadeOf(f.st.events, a + 1 + j, g.out[j])
                          \/ /\ j = n - 1 /\ Textless(g.out[j])
                             /\ f.pump # "send" /\ (f.pump = "recv" => f.st.done)
        BY <2>1, <2>4 DEF ChannelOK
      <4>1. \/ MadeOf(f.st.events, a + (j + 1), f.out[j + 1])
            \/ /\ j + 1 = n /\ Textless(f.out[j + 1])
               /\ f.pump # "send" /\ (f.pump = "recv" => f.st.done)
        BY <2>4, <2>10, <3>5 DEF ChannelOK, n
      <4>2. g.out[j] = f.out[j + 1]
        BY <2>4
      <4> QED BY <3>5, <4>1, <4>2
    <3>7. a + 1 + Len(g.out) = a + n
      BY <2>4
    <3>8. PumpOK(g, a + 1)
      BY <2>1, <2>10, <3>7 DEF PumpOK, n
    <3> QED BY <2>1, <2>9, <3>2, <3>3, <3>4, <3>6, <3>8 DEF Follows
  <2>14. ASSUME ~MadeOf(f.st.events, a + 1, x) PROVE Follows(g, x)
    <3>1. 1 = n /\ Textless(x) /\ f.pump # "send" /\ (f.pump = "recv" => f.st.done)
      BY <2>4, <2>10, <2>12, <2>14 DEF ChannelOK, n
    <3>2. f.asm.text + x.text = Texts(f.st.events, a)
      <4>1. f.asm.text \in Nat /\ x.text = 0
        BY <1>2, <3>1 DEF ShapeOK, Chunk, Textless
      <4> QED BY <2>11, <4>1
    <3>3. f.asm.finish \/ x.finish => \E i \in 1..a : f.st.events[i].finish
      BY <2>10, <3>1 DEF Assembled, Textless
    <3>4. DOMAIN g.out = {}
      BY <2>4, <3>1
    <3>5. ChannelOK(g, a) /\ PumpOK(g, a)
      BY <2>1, <3>1, <3>4 DEF ChannelOK, PumpOK
    <3> QED BY <2>1, <2>9, <2>11, <3>2, <3>3, <3>5 DEF Follows
  <2>15. Follows(g, x)
    BY <2>13, <2>14
  <2>16. g.pc = "loop" /\ g.writer = f.writer /\ x \in Chunk
    BY <1>1, <2>1, <2>4
  <2>17. /\ CallOK(c, Served(g, x)) /\ Served(g, x).pc = "loop" /\ Served(g, x).writer = g.writer
         /\ CallOK(c, Stalled(g, x)) /\ Stalled(g, x).pc = "loop" /\ Stalled(g, x).writer = g.writer
         /\ CallOK(c, Lost(g, x)) /\ Lost(g, x).pc = "loop ended" /\ Lost(g, x).writer = g.writer
    BY <1>3, <2>6, <2>8, <2>15, <2>16, DeliverOK
  <2> QED BY <2>3, <2>16, <2>17 DEF Deliver, Served, Stalled, Lost
<1>5. CASE /\ f.hit /\ f.pump = "send"
           /\ Deliver(c, f.held, IF f.held.usage THEN PumpEnds(f) ELSE [f EXCEPT !.held = UsageChunk])
  <2> DEFINE e == PumpEnds(f)
             k == [f EXCEPT !.held = UsageChunk]
  <2>1. /\ DOMAIN e = CallFields /\ e.pc = f.pc /\ e.hit = f.hit /\ e.held = Nothing /\ e.asm = f.asm
        /\ e.out = f.out /\ e.writer = f.writer /\ e.pump = "ended"
    BY <1>2 DEF ShapeOK, PumpEnds, CallFields
  <2>2. /\ DOMAIN k = CallFields /\ k.pc = f.pc /\ k.hit = f.hit /\ k.held = UsageChunk /\ k.asm = f.asm
        /\ k.out = f.out /\ k.writer = f.writer /\ k.pump = f.pump
    BY <1>2 DEF ShapeOK, CallFields
  <2>3. PICK g \in {e, k} : Deliver(c, f.held, g)
    BY <1>5
  <2>10. PICK x : x = f.held
    OBVIOUS
  <2> HIDE DEF e, k
  <2>4. /\ DOMAIN g = CallFields /\ g.pc = f.pc /\ g.hit = f.hit /\ g.held \in {Nothing, UsageChunk}
        /\ g.asm = f.asm /\ g.out = f.out /\ g.writer = f.writer /\ g.pump \in {"send", "ended"}
    BY <1>5, <2>1, <2>2
  <2>5. ShapeOK(g)
    BY <1>2, <2>4, NothingChunk DEF ShapeOK
  <2>6. PhaseOK(c, g)
    BY <1>1, <1>2, <1>3, <1>5, <2>4 DEF PhaseOK
  <2>7. x \in Chunk /\ Deliver(c, x, g)
    BY <1>2, <2>3, <2>10 DEF ShapeOK
  <2>8. g.pc = "loop" /\ g.writer = f.writer /\ g.hit
    BY <1>1, <1>5, <2>4
  <2>9. /\ CallOK(c, Served(g, x)) /\ Served(g, x).pc = "loop" /\ Served(g, x).writer = g.writer
        /\ CallOK(c, Stalled(g, x)) /\ Stalled(g, x).pc = "loop" /\ Stalled(g, x).writer = g.writer
        /\ CallOK(c, Lost(g, x)) /\ Lost(g, x).pc = "loop ended" /\ Lost(g, x).writer = g.writer
    BY <1>3, <2>5, <2>6, <2>7, <2>8, DeliverOK
  <2> QED BY <2>7, <2>8, <2>9 DEF Deliver, Served, Stalled, Lost
<1> QED BY <1>4, <1>5 DEF ServeChunk

-----------------------------------------------------------------------------
\* The cache stage, usage and a writer's end.
LEMMA AfterCacheOK ==
  ASSUME NEW c \in Calls, CallOK(c, call[c]), AfterCache(c)
  PROVE  \E g : CallOK(c, g) /\ Set(c, g)
<1> DEFINE f == call[c]
           h == Answered(f)
           g == [h EXCEPT !.writer = "running", !.asm = f.asm]
<1>1. f.pc = "cache" /\ ((Stores(c) /\ Set(c, g)) \/ Set(c, h))
  BY DEF AfterCache, At
<1>2. ShapeOK(f) /\ PhaseOK(c, f) /\ (c \in Streamed /\ ~f.hit => LiveOK(f))
  BY <1>1, BegunCall
<1>4. /\ DOMAIN h = CallFields /\ h.pc = "usage" /\ h.hit = f.hit /\ h.held = Nothing /\ h.asm = Nothing
      /\ h.out = <<>> /\ h.writer = "none" /\ h.pump = f.pump /\ h.st = f.st
  BY BegunFields DEF CallFields, Answered
<1> HIDE DEF h
<1>3. /\ DOMAIN g = CallFields /\ g.pc = "usage" /\ g.hit = f.hit /\ g.held = Nothing /\ g.asm = f.asm
      /\ g.out = <<>> /\ g.writer = "running" /\ g.pump = f.pump /\ g.st = f.st
  BY <1>4 DEF CallFields
<1> HIDE DEF g
<1>7. <<>> \in Seq(Chunk) /\ Len(<<>>) = 0 /\ 0 <= ChanCap
  BY ServingAssumption
<1>5. CASE Stores(c) /\ Set(c, g)
  <2>1. ~f.hit /\ f.asm.finish
    BY <1>5 DEF Stores, Storable
  <2>2. ShapeOK(g)
    BY <1>2, <1>3, <1>7, NothingChunk DEF ShapeOK, Phases
  <2>3. PhaseOK(c, g)
    BY <1>1, <1>2, <1>3, <2>1 DEF PhaseOK
  <2>4. c \in Streamed => LiveOK(g)
    BY <1>1, <1>2, <1>3, <2>1 DEF LiveOK, Assembled
  <2> QED BY <1>5, <2>2, <2>3, <2>4 DEF CallOK
<1>6. CASE Set(c, h)
  <2>2. ShapeOK(h)
    BY <1>2, <1>4, <1>7, NothingChunk DEF ShapeOK, Phases
  <2>3. PhaseOK(c, h)
    BY <1>1, <1>2, <1>4 DEF PhaseOK
  <2>4. ASSUME c \in Streamed, ~h.hit PROVE LiveOK(h)
    <3>1. StreamOK(h.st) /\ Len(h.st.events) \in Nat
      BY <1>2, <1>4, <2>4 DEF LiveOK, StreamOK
    <3>2. Assembled(h, 0)
      BY <1>4, <3>1, TextsNone DEF Assembled, Nothing
    <3> QED BY <1>4, <3>1, <3>2 DEF LiveOK
  <2> QED BY <1>6, <2>2, <2>3, <2>4 DEF CallOK
<1> QED BY <1>1, <1>5, <1>6

LEMMA AfterUsageOK ==
  ASSUME NEW c \in Calls, CallOK(c, call[c]), AfterUsage(c)
  PROVE  \E g : CallOK(c, g) /\ Set(c, g)
<1> DEFINE f == call[c]
           g == [f EXCEPT !.pc = "done"]
<1>1. f.pc = "usage" /\ Set(c, g)
  BY DEF AfterUsage, At
<1>2. ShapeOK(f) /\ PhaseOK(c, f) /\ (c \in Streamed /\ ~f.hit => LiveOK(f))
  BY <1>1, BegunCall
<1>3. /\ DOMAIN g = CallFields /\ g.pc = "done" /\ g.hit = f.hit /\ g.held = f.held /\ g.asm = f.asm
      /\ g.out = f.out /\ g.writer = f.writer /\ g.pump = f.pump /\ g.st = f.st
  BY <1>2 DEF ShapeOK, CallFields
<1> HIDE DEF g
<1>4. ShapeOK(g)
  BY <1>2, <1>3 DEF ShapeOK, Phases
<1>5. PhaseOK(c, g)
  BY <1>1, <1>2, <1>3 DEF PhaseOK
<1>6. c \in Streamed /\ ~g.hit => LiveOK(g)
  BY <1>2, <1>3 DEF LiveOK, Assembled
<1> QED BY <1>1, <1>4, <1>5, <1>6 DEF CallOK

LEMMA WriterEndsOK ==
  ASSUME NEW c \in Calls, CallOK(c, call[c]), WriterEnds(c)
  PROVE  \E g : CallOK(c, g) /\ Set(c, g) /\ g.pc = call[c].pc /\ g.writer = "none"
<1> DEFINE f == call[c]
           g == [f EXCEPT !.writer = "none", !.asm = Nothing]
<1>1. f.pc # "new" /\ f.writer = "running" /\ Set(c, g)
  BY DEF WriterEnds
<1>2. ShapeOK(f) /\ PhaseOK(c, f) /\ (c \in Streamed /\ ~f.hit => LiveOK(f))
  BY <1>1, BegunCall
<1>3. /\ DOMAIN g = CallFields /\ g.pc = f.pc /\ g.hit = f.hit /\ g.held = f.held /\ g.asm = Nothing
      /\ g.out = f.out /\ g.writer = "none" /\ g.pump = f.pump /\ g.st = f.st
  BY <1>2 DEF ShapeOK, CallFields
<1> HIDE DEF g
<1>4. f.pc \in {"usage", "done"}
  BY <1>1, <1>2 DEF PhaseOK
<1>5. ShapeOK(g)
  BY <1>2, <1>3, NothingChunk DEF ShapeOK
<1>6. PhaseOK(c, g)
  BY <1>2, <1>3, <1>4 DEF PhaseOK
<1>7. ASSUME c \in Streamed, ~g.hit PROVE LiveOK(g)
  <2>1. StreamOK(g.st) /\ Len(g.st.events) \in Nat
    BY <1>2, <1>3, <1>7 DEF LiveOK, StreamOK
  <2>2. Assembled(g, 0)
    BY <1>3, <2>1, TextsNone DEF Assembled, Nothing
  <2> QED BY <1>3, <1>4, <2>1, <2>2 DEF LiveOK
<1> QED BY <1>1, <1>3, <1>5, <1>6, <1>7 DEF CallOK

-----------------------------------------------------------------------------
\* Rows: a row that a queue took is in its channel, in its batch or written.
Queue == [ch : Seq(Calls), buf : SUBSET Calls, closed : BOOLEAN, loop : {"run", "drain", "ended"}]

Waits(x, c) == \E i \in DOMAIN queue[x].ch : queue[x].ch[i] = c

QueuesOK ==
  /\ queue \in [Queues -> Queue]
  /\ \A x \in Queues : Len(queue[x].ch) <= Capacity /\ Cardinality(queue[x].buf) < BatchSize

Ledger ==
  /\ accepted \subseteq Queues \X Calls /\ written \subseteq Queues \X Calls
  /\ \A x \in Queues, c \in Calls :
       <<x, c>> \in accepted <=> (<<x, c>> \in written \/ c \in queue[x].buf \/ Waits(x, c))

Ends ==
  /\ queue["usage"].loop # "drain"
  /\ \A x \in Queues : queue[x].loop = "ended" => queue[x].closed /\ queue[x].buf = {}
  /\ queue["usage"].loop = "ended" => queue["usage"].ch = <<>>
  /\ queue["shadow"].loop = "ended" /\ drained => queue["shadow"].ch = <<>>

Closing ==
  /\ main \in {"serving", "drain", "wait", "usage", "shadow", "exited", "failed"}
  /\ main \in {"serving", "drain", "failed"} => ~drained
  /\ main \in {"serving", "drain", "wait"} => ~queue["usage"].closed /\ refused = {}
  /\ main \in {"serving", "drain", "wait", "usage"} => ~queue["shadow"].closed
  /\ main \in {"shadow", "exited"} /\ flushed => queue["usage"].loop = "ended"
  /\ main = "exited" => queue["shadow"].loop = "ended"
  /\ drained => refused = {}

Idle ==
  /\ drained => Active = {}
  /\ drained /\ main \in {"usage", "shadow", "exited"} => Writers = {}

RowsInv == QueuesOK /\ Ledger /\ Ends /\ Closing

ServingInv == CallsOK /\ RowsInv /\ Idle

-----------------------------------------------------------------------------
LEMMA InTail ==
  ASSUME NEW S, NEW s \in Seq(S), s # <<>>, NEW d
  PROVE  (\E i \in DOMAIN s : s[i] = d) <=> (d = Head(s) \/ \E i \in DOMAIN Tail(s) : Tail(s)[i] = d)
<1>1. /\ Len(s) \in Nat /\ Len(s) > 0 /\ DOMAIN s = 1..Len(s) /\ DOMAIN Tail(s) = 1..Len(s) - 1
      /\ Head(s) = s[1] /\ \A i \in 1..Len(s) - 1 : Tail(s)[i] = s[i + 1]
  OBVIOUS
<1>2. ASSUME NEW i \in DOMAIN s, s[i] = d, i # 1 PROVE \E j \in DOMAIN Tail(s) : Tail(s)[j] = d
  <2>1. i - 1 \in 1..Len(s) - 1 /\ i - 1 + 1 = i
    BY <1>1, <1>2
  <2>2. Tail(s)[i - 1] = s[i - 1 + 1]
    BY <1>1, <2>1
  <2> QED BY <1>1, <1>2, <2>1, <2>2
<1>3. ASSUME NEW j \in DOMAIN Tail(s), Tail(s)[j] = d PROVE \E i \in DOMAIN s : s[i] = d
  <2>1. j + 1 \in 1..Len(s)
    BY <1>1
  <2> QED BY <1>1, <1>3, <2>1
<1>4. 1 \in DOMAIN s
  BY <1>1
<1> QED BY <1>1, <1>2, <1>3, <1>4

LEMMA InAppend ==
  ASSUME NEW S, NEW s \in Seq(S), NEW e, NEW d
  PROVE  (\E i \in DOMAIN Append(s, e) : Append(s, e)[i] = d) <=> (d = e \/ \E i \in DOMAIN s : s[i] = d)
<1>1. /\ Len(s) \in Nat /\ DOMAIN s = 1..Len(s) /\ DOMAIN Append(s, e) = 1..Len(s) + 1
      /\ Append(s, e)[Len(s) + 1] = e /\ \A i \in 1..Len(s) : Append(s, e)[i] = s[i]
  OBVIOUS
<1>2. \A i \in 1..Len(s) + 1 : i \in 1..Len(s) \/ i = Len(s) + 1
  BY <1>1
<1>3. Len(s) + 1 \in 1..Len(s) + 1 /\ \A i \in 1..Len(s) : i \in 1..Len(s) + 1
  BY <1>1
<1> QED BY <1>1, <1>2, <1>3

LEMMA SmallBatches ==
  /\ Cardinality({}) = 0 /\ 0 < BatchSize /\ BatchSize \in Nat /\ Capacity \in Nat
  /\ \A B \in SUBSET Calls : Cardinality(B) \in Nat
<1>1. IsFiniteSet(1..MaxCalls)
  BY ServingAssumption, FS_Interval
<1>2. \A B \in SUBSET Calls : IsFiniteSet(B)
  BY <1>1, FS_Subset DEF Calls
<1> QED BY <1>2, FS_CardinalityType, FS_EmptySet, ServingAssumption

\* A queue gets a new value.
LEMMA QueueSet ==
  ASSUME QueuesOK, NEW x \in Queues, NEW q \in Queue, Len(q.ch) <= Capacity, Cardinality(q.buf) < BatchSize,
         queue' = [queue EXCEPT ![x] = q]
  PROVE  QueuesOK' /\ queue'[x] = q /\ \A y \in Queues : y # x => queue'[y] = queue[y]
BY DEF QueuesOK

LEMMA EmitOK ==
  ASSUME RowsInv, Idle, NEW x \in Queues, NEW c \in Calls, call[c].pc \notin {"new", "done"},
         Emit(x, c), UNCHANGED <<written, process>>
  PROVE  RowsInv'
<1>1. ~drained /\ drained' = drained /\ main' = main /\ flushed' = flushed /\ written' = written
  BY DEF Idle, Active, process
<1>2. queue[x] \in Queue
  BY DEF RowsInv, QueuesOK
<1>3. CASE ~Refuses(x) /\ Len(queue[x].ch) < Capacity
  <2>1. PICK q : q = [queue[x] EXCEPT !.ch = Append(@, c)]
    OBVIOUS
  <2>2. q \in Queue /\ q.ch = Append(queue[x].ch, c) /\ q.buf = queue[x].buf /\ q.closed = queue[x].closed
           /\ q.loop = queue[x].loop
    <3>1. queue[x].ch \in Seq(Calls)
      BY <1>2 DEF Queue
    <3>2. Append(queue[x].ch, c) \in Seq(Calls)
      BY <3>1
    <3> QED BY <1>2, <2>1, <3>2 DEF Queue
  <2>3. /\ queue' = [queue EXCEPT ![x] = q] /\ accepted' = accepted \cup {<<x, c>>} /\ refused' = refused
    BY <1>3, <2>1 DEF Emit
  <2>4. queue[x].ch \in Seq(Calls) /\ Cardinality(q.buf) < BatchSize
    BY <1>2, <2>2 DEF Queue, RowsInv, QueuesOK
  <2>5. Len(q.ch) <= Capacity
    <3>1. Len(q.ch) = Len(queue[x].ch) + 1 /\ Len(queue[x].ch) \in Nat
      BY <2>2, <2>4
    <3> QED BY <1>3, <3>1, SmallBatches
  <2>6. QueuesOK' /\ queue'[x] = q /\ \A y \in Queues : y # x => queue'[y] = queue[y]
    BY <2>2, <2>3, <2>4, <2>5, QueueSet DEF RowsInv
  <2>7. \A d \in Calls : Waits(x, d)' <=> (d = c \/ Waits(x, d))
    <3>1. \A d \in Calls : (\E i \in DOMAIN q.ch : q.ch[i] = d)
                            <=> (d = c \/ \E i \in DOMAIN queue[x].ch : queue[x].ch[i] = d)
      BY <2>2, <2>4, InAppend
    <3> QED BY <2>6, <3>1 DEF Waits
  <2>8. \A y \in Queues, d \in Calls : y # x => (Waits(y, d)' <=> Waits(y, d))
    BY <2>6 DEF Waits
  <2>9. \A y \in Queues : queue'[y].buf = queue[y].buf
    BY <2>2, <2>6
  <2>10. Ledger'
    <3>1. accepted' \subseteq Queues \X Calls /\ written' \subseteq Queues \X Calls
      BY <1>1, <2>3 DEF RowsInv, Ledger
    <3>2. ASSUME NEW y \in Queues, NEW d \in Calls
          PROVE  <<y, d>> \in accepted' <=> (<<y, d>> \in written' \/ d \in queue'[y].buf \/ Waits(y, d)')
      <4>1. <<y, d>> \in accepted <=> (<<y, d>> \in written \/ d \in queue[y].buf \/ Waits(y, d))
        BY DEF RowsInv, Ledger
      <4>2. CASE y = x
        BY <1>1, <2>3, <2>7, <2>9, <4>1, <4>2
      <4>3. CASE y # x
        BY <1>1, <2>3, <2>8, <2>9, <4>1, <4>3
      <4> QED BY <4>2, <4>3
    <3> QED BY <3>1, <3>2 DEF Ledger
  <2>11. x = "usage" => ~queue[x].closed
    BY <1>3 DEF Refuses
  <2>12. Ends'
    BY <1>1, <2>2, <2>6, <2>11 DEF RowsInv, Ends, Queues
  <2>13. Closing'
    BY <1>1, <2>2, <2>3, <2>6 DEF RowsInv, Closing, Queues
  <2> QED BY <2>6, <2>10, <2>12, <2>13 DEF RowsInv
<1>4. CASE ~(~Refuses(x) /\ Len(queue[x].ch) < Capacity)
  <2>1. queue' = queue /\ accepted' = accepted /\ (refused' = refused \/ Refuses(x))
    BY <1>4 DEF Emit
  <2>2. Refuses(x) => main \notin {"serving", "drain", "wait"}
    BY DEF Refuses, RowsInv, Closing
  <2>3. QueuesOK' /\ Ledger' /\ Ends'
    BY <1>1, <2>1 DEF RowsInv, QueuesOK, Ledger, Ends, Waits
  <2>4. Closing'
    BY <1>1, <2>1, <2>2 DEF RowsInv, Closing
  <2> QED BY <2>3, <2>4 DEF RowsInv
<1> QED BY <1>3, <1>4

-----------------------------------------------------------------------------
\* Rows move from the channel to the batch and from there to ClickHouse: the queue is q
\* afterwards, and the rows of batch are written.
Moves(x, q, batch) ==
  \A d \in Calls : (d \in queue[x].buf \/ Waits(x, d))
                     <=> (d \in batch \/ d \in q.buf \/ \E i \in DOMAIN q.ch : q.ch[i] = d)

NextLoop(x, q) ==
  \/ q.loop = queue[x].loop /\ q.loop # "ended"
  \/ q.loop = "drain" /\ queue[x].loop # "ended" /\ x = "shadow"
  \/ q.loop = "ended" /\ q.closed /\ q.buf = {} /\ q.ch = <<>>

LEMMA MoveOK ==
  ASSUME RowsInv, NEW x \in Queues, NEW q \in Queue, NEW batch \in SUBSET Calls,
         Len(q.ch) <= Capacity, Cardinality(q.buf) < BatchSize, q.closed = queue[x].closed,
         queue' = [queue EXCEPT ![x] = q], Flush(x, batch), UNCHANGED <<offers, process>>,
         Moves(x, q, batch), NextLoop(x, q)
  PROVE  RowsInv'
<1>1. UNCHANGED <<accepted, refused, main, drained, flushed>> /\ written' = written \cup {<<x, d>> : d \in batch}
  BY DEF offers, process, Flush
<1>2. QueuesOK' /\ queue'[x] = q /\ \A y \in Queues : y # x => queue'[y] = queue[y]
  BY QueueSet DEF RowsInv
<1>3. Ledger'
  <2>1. accepted' \subseteq Queues \X Calls /\ written' \subseteq Queues \X Calls
    BY <1>1 DEF RowsInv, Ledger
  <2>2. ASSUME NEW y \in Queues, NEW d \in Calls
        PROVE  <<y, d>> \in accepted' <=> (<<y, d>> \in written' \/ d \in queue'[y].buf \/ Waits(y, d)')
    <3>1. <<y, d>> \in accepted <=> (<<y, d>> \in written \/ d \in queue[y].buf \/ Waits(y, d))
      BY DEF RowsInv, Ledger
    <3>2. CASE y = x
      <4>1. <<y, d>> \in written' <=> (<<y, d>> \in written \/ d \in batch)
        BY <1>1, <3>2
      <4>2. Waits(y, d)' <=> \E i \in DOMAIN q.ch : q.ch[i] = d
        BY <1>2, <3>2 DEF Waits
      <4> QED BY <1>1, <1>2, <3>1, <3>2, <4>1, <4>2 DEF Moves
    <3>3. CASE y # x
      <4>1. <<y, d>> \in written' <=> <<y, d>> \in written
        BY <1>1, <3>3
      <4>2. Waits(y, d)' <=> Waits(y, d)
        BY <1>2, <3>3 DEF Waits
      <4> QED BY <1>1, <1>2, <3>1, <3>3, <4>1, <4>2
    <3> QED BY <3>2, <3>3
  <2> QED BY <2>1, <2>2 DEF Ledger
<1>4. Ends'
  BY <1>1, <1>2 DEF RowsInv, Ends, Queues, NextLoop
<1>5. Closing'
  BY <1>1, <1>2 DEF RowsInv, Closing, Queues, NextLoop
<1> QED BY <1>2, <1>3, <1>4, <1>5 DEF RowsInv

LEMMA CollectOK ==
  ASSUME RowsInv, NEW x \in Queues, Collect(x)
  PROVE  RowsInv'
<1>1. queue[x] \in Queue /\ queue[x].ch # <<>> /\ queue[x].loop # "ended" /\ Len(queue[x].ch) <= Capacity
  BY DEF RowsInv, QueuesOK, Collect
<1>2. queue[x].ch \in Seq(Calls) /\ queue[x].buf \in SUBSET Calls
  BY <1>1 DEF Queue
<1>3. Tail(queue[x].ch) \in Seq(Calls) /\ Head(queue[x].ch) \in Calls
  BY <1>1, <1>2
<1>4. Len(Tail(queue[x].ch)) <= Capacity
  <2>1. Len(Tail(queue[x].ch)) = Len(queue[x].ch) - 1 /\ Len(queue[x].ch) \in Nat
    BY <1>1, <1>2
  <2> QED BY <1>1, <2>1, SmallBatches
<1>5. Take(x) \in SUBSET Calls
  BY <1>2, <1>3 DEF Take
<1>6. \A d \in Calls : Waits(x, d)
         <=> (d = Head(queue[x].ch) \/ \E i \in DOMAIN Tail(queue[x].ch) : Tail(queue[x].ch)[i] = d)
  BY <1>1, <1>2, InTail DEF Waits
<1>7. UNCHANGED <<offers, process>>
  BY DEF Collect
<1>8. CASE Cardinality(Take(x)) >= BatchSize
  <2>1. PICK q : q = [queue[x] EXCEPT !.ch = Tail(@), !.buf = {}]
    OBVIOUS
  <2>2. /\ q \in Queue /\ q.ch = Tail(queue[x].ch) /\ q.buf = {} /\ q.closed = queue[x].closed
        /\ q.loop = queue[x].loop
    BY <1>1, <1>3, <2>1 DEF Queue
  <2>3. queue' = [queue EXCEPT ![x] = q]
    BY <1>8, <2>1 DEF Collect
  <2>4. PICK batch \in SUBSET Calls : batch = Take(x)
    BY <1>5
  <2>5. Flush(x, batch)
    BY <1>8, <2>4 DEF Collect
  <2>6. Moves(x, q, batch)
    BY <1>6, <2>2, <2>4 DEF Take, Moves
  <2>7. Cardinality(q.buf) < BatchSize
    BY <2>2, SmallBatches
  <2>8. NextLoop(x, q) /\ Len(q.ch) <= Capacity
    BY <1>1, <1>4, <2>2 DEF NextLoop
  <2> QED BY <1>7, <2>2, <2>3, <2>5, <2>6, <2>7, <2>8, MoveOK
<1>9. CASE ~(Cardinality(Take(x)) >= BatchSize)
  <2>1. PICK q : q = [queue[x] EXCEPT !.ch = Tail(@), !.buf = Take(x)]
    OBVIOUS
  <2>2. /\ q \in Queue /\ q.ch = Tail(queue[x].ch) /\ q.buf = Take(x) /\ q.closed = queue[x].closed
        /\ q.loop = queue[x].loop
    BY <1>1, <1>3, <1>5, <2>1 DEF Queue
  <2>3. queue' = [queue EXCEPT ![x] = q]
    BY <1>9, <2>1 DEF Collect
  <2>4. PICK batch \in SUBSET Calls : batch = {}
    OBVIOUS
  <2>5. Flush(x, batch)
    BY <1>9, <2>4 DEF Collect, Flush
  <2>6. Moves(x, q, batch)
    BY <1>6, <2>2, <2>4 DEF Take, Moves
  <2>7. Cardinality(q.buf) < BatchSize
    <3>1. Cardinality(Take(x)) \in Nat
      BY <1>5, SmallBatches
    <3> QED BY <1>9, <2>2, <3>1, SmallBatches
  <2>8. NextLoop(x, q) /\ Len(q.ch) <= Capacity
    BY <1>1, <1>4, <2>2 DEF NextLoop
  <2> QED BY <1>7, <2>2, <2>3, <2>5, <2>6, <2>7, <2>8, MoveOK
<1> QED BY <1>8, <1>9

LEMMA FlushOK ==
  ASSUME RowsInv, NEW x \in Queues, FlushInterval(x) \/ FinalFlush(x)
  PROVE  RowsInv'
<1>1. queue[x] \in Queue /\ Len(queue[x].ch) <= Capacity
  BY DEF RowsInv, QueuesOK
<1>2. PICK batch \in SUBSET Calls : batch = queue[x].buf
  BY <1>1 DEF Queue
<1>3. UNCHANGED <<offers, process>> /\ Flush(x, batch)
  BY <1>2 DEF FlushInterval, FinalFlush
<1>4. PICK l : l = IF FlushInterval(x) THEN queue[x].loop ELSE "ended"
  OBVIOUS
<1>5. PICK q : q = [queue[x] EXCEPT !.buf = {}, !.loop = l]
  OBVIOUS
<1>6. l \in {"run", "drain", "ended"}
  BY <1>1, <1>4 DEF Queue
<1>7. /\ q \in Queue /\ q.ch = queue[x].ch /\ q.buf = {} /\ q.closed = queue[x].closed /\ q.loop = l
  BY <1>1, <1>5, <1>6 DEF Queue
<1>8. queue' = [queue EXCEPT ![x] = q]
  <2>1. CASE FlushInterval(x)
    <3>1. [queue[x] EXCEPT !.buf = {}] = q
      BY <1>1, <1>4, <1>5, <2>1 DEF Queue
    <3> QED BY <2>1, <3>1 DEF FlushInterval
  <2>2. CASE ~FlushInterval(x)
    BY <1>4, <1>5, <2>2 DEF FinalFlush
  <2> QED BY <2>1, <2>2
<1>9. NextLoop(x, q)
  BY <1>4, <1>7 DEF FlushInterval, FinalFlush, NextLoop
<1>10. Moves(x, q, batch)
  BY <1>2, <1>7 DEF Waits, Moves
<1>11. Cardinality(q.buf) < BatchSize
  BY <1>7, SmallBatches
<1>12. Len(q.ch) <= Capacity
  BY <1>1, <1>7
<1> QED BY <1>3, <1>7, <1>8, <1>9, <1>10, <1>11, <1>12, MoveOK

LEMMA NoticeStopOK ==
  ASSUME RowsInv, NoticeStop
  PROVE  RowsInv'
<1>1. PICK x \in Queues : x = "shadow"
  BY DEF Queues
<1>2. queue[x] \in Queue /\ Len(queue[x].ch) <= Capacity /\ Cardinality(queue[x].buf) < BatchSize
  BY DEF RowsInv, QueuesOK
<1>3. PICK q : q = [queue[x] EXCEPT !.loop = "drain"]
  OBVIOUS
<1>4. /\ q \in Queue /\ q.ch = queue[x].ch /\ q.buf = queue[x].buf /\ q.closed = queue[x].closed
      /\ q.loop = "drain"
  BY <1>2, <1>3 DEF Queue
<1>5. queue' = [queue EXCEPT ![x] = q] /\ queue[x].loop # "ended" /\ UNCHANGED <<offers, process>>
  BY <1>1, <1>3 DEF NoticeStop
<1>6. PICK batch \in SUBSET Calls : batch = {}
  OBVIOUS
<1>7. Flush(x, batch)
  BY <1>6 DEF NoticeStop, Flush
<1>8. Moves(x, q, batch)
  BY <1>4, <1>6 DEF Waits, Moves
<1>9. NextLoop(x, q) /\ Len(q.ch) <= Capacity /\ Cardinality(q.buf) < BatchSize
  BY <1>1, <1>2, <1>4, <1>5 DEF NextLoop
<1> QED BY <1>4, <1>5, <1>7, <1>8, <1>9, MoveOK

-----------------------------------------------------------------------------
\* The end of run.
LEMMA CloseOK ==
  ASSUME QueuesOK, Ledger, NEW x \in Queues, Close(x), UNCHANGED <<offers, written>>
  PROVE  /\ QueuesOK' /\ Ledger' /\ queue'[x].closed /\ queue'[x].loop = queue[x].loop
         /\ queue'[x].ch = queue[x].ch /\ queue'[x].buf = queue[x].buf
         /\ \A y \in Queues : y # x => queue'[y] = queue[y]
<1>1. queue[x] \in Queue /\ Len(queue[x].ch) <= Capacity /\ Cardinality(queue[x].buf) < BatchSize
  BY DEF QueuesOK
<1>2. PICK q : q = [queue[x] EXCEPT !.closed = TRUE]
  OBVIOUS
<1>3. /\ q \in Queue /\ q.ch = queue[x].ch /\ q.buf = queue[x].buf /\ q.closed = TRUE
      /\ q.loop = queue[x].loop
  BY <1>1, <1>2 DEF Queue
<1>4. queue' = [queue EXCEPT ![x] = q]
  BY <1>2 DEF Close
<1>5. QueuesOK' /\ queue'[x] = q /\ \A y \in Queues : y # x => queue'[y] = queue[y]
  BY <1>1, <1>3, <1>4, QueueSet
<1>6. \A y \in Queues : queue'[y].ch = queue[y].ch /\ queue'[y].buf = queue[y].buf
  BY <1>3, <1>5
<1>7. Ledger'
  BY <1>6 DEF Ledger, offers, Waits
<1> QED BY <1>3, <1>5, <1>7

LEMMA RunEndsOK ==
  ASSUME RowsInv, Idle,
         Shutdown \/ ListenerFails \/ Drain \/ CloseUsage \/ CloseShadow \/ RunReturns
  PROVE  RowsInv' /\ Idle'
<1>1. call' = call
  BY DEF Shutdown, ListenerFails, Drain, CloseUsage, CloseShadow, RunReturns
<1>2. Active' = Active /\ Writers' = Writers
  BY <1>1 DEF Active, Writers
<1>3. CASE Shutdown \/ ListenerFails \/ Drain \/ RunReturns
  <2>1. UNCHANGED <<queue, accepted, refused, written, flushed>>
    BY <1>3 DEF Shutdown, ListenerFails, Drain, RunReturns, rows, offers
  <2>2. QueuesOK' /\ Ledger'
    BY <2>1 DEF RowsInv, QueuesOK, Ledger, Waits
  <2>3. Closing'
    BY <1>3, <2>1 DEF RowsInv, Closing, Shutdown, ListenerFails, Drain, RunReturns
  <2>4. Ends'
    <3>1. Drain => queue["shadow"].loop # "ended"
      BY DEF Drain, RowsInv, Closing, Ends, Queues
    <3> QED BY <1>3, <2>1, <3>1 DEF RowsInv, Ends, Shutdown, ListenerFails, Drain, RunReturns
  <2>5. Idle'
    <3>1. CASE Shutdown \/ ListenerFails
      BY <1>2, <3>1 DEF Idle, Shutdown, ListenerFails, RowsInv, Closing
    <3>2. CASE Drain
      BY <1>2, <3>2 DEF Idle, Drain
    <3>3. CASE RunReturns
      BY <1>2, <3>3 DEF Idle, RunReturns
    <3> QED BY <1>3, <3>1, <3>2, <3>3
  <2> QED BY <2>2, <2>3, <2>4, <2>5 DEF RowsInv
<1>4. CASE CloseUsage
  <2>1. /\ main = "wait" /\ Writers = {} /\ main' = "usage" /\ Close("usage")
        /\ UNCHANGED <<offers, written, drained, flushed>>
    BY <1>4 DEF CloseUsage
  <2>2. /\ QueuesOK' /\ Ledger' /\ queue'["usage"].loop = queue["usage"].loop
        /\ queue'["usage"].ch = queue["usage"].ch /\ queue'["usage"].buf = queue["usage"].buf
        /\ queue'["usage"].closed /\ queue'["shadow"] = queue["shadow"]
    BY <2>1, CloseOK DEF RowsInv, Queues
  <2>3. Ends'
    BY <2>1, <2>2 DEF RowsInv, Ends, Queues
  <2>4. Closing'
    BY <2>1, <2>2 DEF RowsInv, Closing, offers
  <2>5. Idle'
    BY <1>2, <2>1 DEF Idle
  <2> QED BY <2>2, <2>3, <2>4, <2>5 DEF RowsInv
<1>5. CASE CloseShadow
  <2>1. /\ main = "usage" /\ main' = "shadow" /\ Close("shadow")
        /\ flushed' = (queue["usage"].loop = "ended")
        /\ UNCHANGED <<offers, written, drained>>
    BY <1>5 DEF CloseShadow
  <2>2. /\ QueuesOK' /\ Ledger' /\ queue'["shadow"].loop = queue["shadow"].loop
        /\ queue'["shadow"].ch = queue["shadow"].ch /\ queue'["shadow"].buf = queue["shadow"].buf
        /\ queue'["shadow"].closed /\ queue'["usage"] = queue["usage"]
    BY <2>1, CloseOK DEF RowsInv, Queues
  <2>3. Ends'
    BY <2>1, <2>2 DEF RowsInv, Ends, Queues
  <2>4. Closing'
    BY <2>1, <2>2 DEF RowsInv, Closing, offers
  <2>5. Idle'
    BY <1>2, <2>1 DEF Idle
  <2> QED BY <2>2, <2>3, <2>4, <2>5 DEF RowsInv
<1> QED BY <1>3, <1>4, <1>5

-----------------------------------------------------------------------------
\* Once the requests are drained no call gets an active handler or a writer again.
StaysIdle(c, g) ==
  \/ main = "serving" \/ call[c].pc \notin {"new", "done"}
  \/ call[c].pc # "new" /\ g.pc = call[c].pc /\ g.writer \in {call[c].writer, "none"}

LEMMA CallSet ==
  ASSUME ServingInv, NEW c \in Calls, NEW g, CallOK(c, g), Set(c, g), StaysIdle(c, g),
         UNCHANGED process, RowsInv'
  PROVE  ServingInv'
<1>1. CallsOK'
  BY SetOK DEF ServingInv
<1>2. UNCHANGED <<main, drained>>
  BY DEF process
<1>3. \A d \in Calls : call'[d] = IF d = c THEN g ELSE call[d]
  BY DEF Set, ServingInv, CallsOK
<1>4. ASSUME drained PROVE Active' = {} /\ (main \in {"usage", "shadow", "exited"} => Writers' = {})
  <2>1. Active = {} /\ (main \in {"usage", "shadow", "exited"} => Writers = {}) /\ main # "serving"
    BY <1>4 DEF ServingInv, Idle, RowsInv, Closing
  <2>2. call[c].pc \in {"new", "done"}
    BY <2>1 DEF Active
  <2>3. call[c].pc # "new" /\ g.pc = call[c].pc /\ g.writer \in {call[c].writer, "none"}
    BY <2>1, <2>2 DEF StaysIdle
  <2>4. Active' = {}
    BY <1>3, <2>1, <2>3 DEF Active
  <2>5. main \in {"usage", "shadow", "exited"} => Writers' = {}
    BY <1>3, <2>1, <2>3 DEF Writers
  <2> QED BY <2>4, <2>5
<1>5. Idle'
  BY <1>2, <1>4 DEF Idle
<1> QED BY <1>1, <1>5 DEF ServingInv

LEMMA RowsSame ==
  ASSUME RowsInv, UNCHANGED <<rows, process>>
  PROVE  RowsInv'
BY DEF RowsInv, QueuesOK, Ledger, Ends, Closing, Waits, rows, offers, process

\* Timers, contexts, and the ends of the loop and of serveStream.
LEMMA SameStepOK ==
  ASSUME NEW c \in Calls, CallOK(c, call[c]),
         \/ ClientLeaves(c) \/ FirstTokenTimeout(c) \/ StreamIdleTimeout(c) \/ LoopEnds(c)
         \/ Finish(c) \/ AnswerBlocks(c) \/ WriteReturns(c)
  PROVE  \E g : CallOK(c, g) /\ Set(c, g) /\ StaysIdle(c, g)
<1> DEFINE f == call[c]
<1>1. f.pc # "new" /\ ShapeOK(f)
  BY BegunCall DEF ClientLeaves, FirstTokenTimeout, StreamIdleTimeout, LoopEnds, Finish, At,
                   AnswerBlocks, WriteReturns
<1>2. CASE ClientLeaves(c)
  <2>1. PICK g : g = [f EXCEPT !.ctx = "done", !.up = "cancelled"]
    OBVIOUS
  <2>2. Same(f, g) /\ g.pc = f.pc
    BY <1>1, <2>1 DEF Same, ShapeOK, CallFields
  <2>3. Set(c, g)
    BY <1>2, <2>1 DEF ClientLeaves, Left
  <2>4. CallOK(c, g)
    BY <1>1, <2>2, SameOK
  <2> QED BY <1>1, <2>2, <2>3, <2>4 DEF StaysIdle, Same
<1>3. CASE FirstTokenTimeout(c) \/ StreamIdleTimeout(c)
  <2>1. PICK g : g = [f EXCEPT !.up = "cancelled"]
    OBVIOUS
  <2>2. Same(f, g) /\ g.pc = f.pc
    BY <1>1, <2>1 DEF Same, ShapeOK, CallFields
  <2>3. Set(c, g)
    BY <1>3, <2>1 DEF FirstTokenTimeout, StreamIdleTimeout
  <2>4. CallOK(c, g)
    BY <1>1, <2>2, SameOK
  <2> QED BY <1>1, <2>2, <2>3, <2>4 DEF StaysIdle, Same
<1>4. CASE LoopEnds(c)
  <2>1. PICK g : g = [f EXCEPT !.pc = "loop ended"]
    OBVIOUS
  <2>2. Same(f, g) /\ g.pc = "loop ended" /\ f.pc = "loop"
    BY <1>1, <1>4, <2>1 DEF Same, ShapeOK, CallFields, LoopEnds, At
  <2>3. Set(c, g)
    BY <1>4, <2>1 DEF LoopEnds
  <2>4. CallOK(c, g)
    BY <1>1, <2>2, SameOK
  <2> QED BY <2>2, <2>3, <2>4 DEF StaysIdle
<1>5. CASE Finish(c)
  <2>1. PICK g : g = [f EXCEPT !.pc = "cache", !.err = f.gone \/ f.failed, !.up = "cancelled"]
    OBVIOUS
  <2>2. Same(f, g) /\ g.pc = "cache"
    BY <1>1, <2>1 DEF Same, ShapeOK, CallFields
  <2>3. Set(c, g) /\ f.pc = "loop ended" /\ (f.hit \/ f.pump = "ended")
    BY <1>5, <2>1 DEF Finish, At
  <2>4. CallOK(c, g)
    BY <1>1, <2>2, <2>3, SameOK
  <2> QED BY <2>3, <2>4 DEF StaysIdle
<1>6. CASE AnswerBlocks(c)
  <2>1. PICK g : g = [f EXCEPT !.write = "blocked"]
    OBVIOUS
  <2>2. Same(f, g) /\ g.pc = f.pc
    BY <1>1, <2>1 DEF Same, ShapeOK, CallFields
  <2>3. Set(c, g)
    BY <1>6, <2>1 DEF AnswerBlocks
  <2>4. CallOK(c, g)
    BY <1>1, <2>2, SameOK
  <2> QED BY <1>1, <2>2, <2>3, <2>4 DEF StaysIdle, Same
<1>7. CASE WriteReturns(c)
  <2> DEFINE far == [f EXCEPT !.ctx = "done", !.up = "cancelled"]
             idle == [f EXCEPT !.write = "idle"]
             lost == [far EXCEPT !.gone = TRUE, !.pc = "loop ended", !.write = "idle"]
             done == [far EXCEPT !.write = "idle"]
  <2>1. \/ Set(c, idle)
        \/ f.pc = "loop" /\ Set(c, lost)
        \/ Set(c, done)
    BY <1>7 DEF WriteReturns, Left
  <2>2. Same(f, far) /\ far.pc = f.pc
    BY <1>1 DEF Same, ShapeOK, CallFields
  <2>3. Same(f, idle) /\ idle.pc = f.pc
    BY <1>1 DEF Same, ShapeOK, CallFields
  <2> HIDE DEF far
  <2>4. Same(f, lost) /\ lost.pc = "loop ended"
    BY <2>2 DEF Same, CallFields
  <2>5. Same(f, done) /\ done.pc = f.pc
    BY <2>2 DEF Same, CallFields
  <2> HIDE DEF idle, lost, done
  <2>6. CallOK(c, idle) /\ CallOK(c, done)
    BY <1>1, <2>3, <2>5, SameOK
  <2>7. f.pc = "loop" => CallOK(c, lost)
    BY <1>1, <2>4, SameOK
  <2>8. StaysIdle(c, idle) /\ StaysIdle(c, done) /\ (f.pc = "loop" => StaysIdle(c, lost))
    BY <1>1, <2>3, <2>5 DEF StaysIdle, Same
  <2> QED BY <2>1, <2>6, <2>7, <2>8
<1> QED BY <1>2, <1>3, <1>4, <1>5, <1>6, <1>7

LEMMA BeginOK ==
  ASSUME NEW c \in Calls, NEW fields, CallOK(c, fields), Begins(c, fields)
  PROVE  \E g : CallOK(c, g) /\ Set(c, g) /\ StaysIdle(c, g)
BY DEF Begins, StaysIdle

LEMMA CallStepOK ==
  ASSUME NEW c \in Calls, CallOK(c, call[c]),
         \/ Chat(c, TRUE) \/ Chat(c, FALSE) \/ ReplayStream(c) \/ ExecChat(c)
         \/ ClientLeaves(c) \/ FirstTokenTimeout(c) \/ OpenStream(c)
         \/ PumpSend(c) \/ PumpRecv(c) \/ StreamIdleTimeout(c)
         \/ ServeChunk(c) \/ LoopEnds(c) \/ Finish(c) \/ WriterEnds(c)
         \/ AnswerBlocks(c) \/ WriteReturns(c)
  PROVE  UNCHANGED <<rows, process>> /\ \E g : CallOK(c, g) /\ Set(c, g) /\ StaysIdle(c, g)
<1> DEFINE f == call[c]
<1>1. UNCHANGED <<rows, process>>
  BY DEF Chat, ReplayStream, Begins, ExecChat, ClientLeaves, FirstTokenTimeout, OpenStream, PumpSend,
         PumpRecv, StreamIdleTimeout, ServeChunk, LoopEnds, Finish, WriterEnds, AnswerBlocks,
         WriteReturns
<1> SUFFICES \E g : CallOK(c, g) /\ Set(c, g) /\ StaysIdle(c, g)
  BY <1>1
<1>2. CASE Chat(c, TRUE) \/ Chat(c, FALSE)
  <2>1. PICK hit \in BOOLEAN : Chat(c, hit)
    BY <1>2
  <2>2. CallOK(c, [Begun EXCEPT !.hit = hit, !.pc = IF hit THEN "cache" ELSE "exec"])
    BY <2>1, ChatOK DEF Chat
  <2> QED BY <2>1, <2>2, BeginOK DEF Chat
<1>3. CASE ReplayStream(c)
  BY <1>3, ReplayOK, BeginOK DEF ReplayStream
<1>4. CASE ExecChat(c)
  <2>1. f.pc = "exec"
    BY <1>4 DEF ExecChat, At
  <2>2. ShapeOK(f)
    BY <2>1, BegunCall
  <2>3. [f EXCEPT !.pc = "cache", !.err = TRUE] = [f EXCEPT !.pc = "cache", !.err = TRUE, !.asm = f.asm]
    BY <2>2 DEF ShapeOK, CallFields
  <2>4. PICK answer \in Answers \cup {f.asm}, err \in BOOLEAN :
          Set(c, [f EXCEPT !.pc = "cache", !.err = err, !.asm = answer])
    BY <1>4, <2>3 DEF ExecChat
  <2>5. CallOK(c, [f EXCEPT !.pc = "cache", !.err = err, !.asm = answer])
    BY <2>1, ExecOK
  <2> QED BY <2>1, <2>4, <2>5 DEF StaysIdle
<1>5. CASE OpenStream(c)
  <2>1. f.pc = "open"
    BY <1>5 DEF OpenStream, At
  <2>2. PICK r \in Recv(f.st) :
         LET s == [f EXCEPT !.st = r.st]
         IN Set(c, IF r.end = "no" THEN Pumped(s, r.chunk)
                   ELSE [s EXCEPT !.pc = "cache", !.err = TRUE, !.up = "cancelled", !.st = Opened(@)])
    BY <1>5 DEF OpenStream
  <2>3. LET s == [f EXCEPT !.st = r.st]
        IN CallOK(c, IF r.end = "no" THEN Pumped(s, r.chunk)
                     ELSE [s EXCEPT !.pc = "cache", !.err = TRUE, !.up = "cancelled", !.st = Opened(@)])
    BY <2>1, OpenStreamOK
  <2> QED BY <2>1, <2>2, <2>3 DEF StaysIdle
<1>6. CASE ServeChunk(c)
  <2>1. f.pc = "loop"
    BY <1>6 DEF ServeChunk, At
  <2> QED BY <1>6, <2>1, ServeChunkOK DEF StaysIdle
<1>7. CASE PumpSend(c) \/ PumpRecv(c)
  <2>1. f.pc # "new"
    BY <1>7 DEF PumpSend, PumpRecv
  <2>2. PICK g : CallOK(c, g) /\ Set(c, g) /\ g.pc = f.pc /\ g.writer = f.writer
    BY <1>7, PumpSendOK, PumpRecvOK
  <2> QED BY <2>1, <2>2 DEF StaysIdle
<1>8. CASE WriterEnds(c)
  <2>1. f.pc # "new"
    BY <1>8 DEF WriterEnds
  <2>2. PICK g : CallOK(c, g) /\ Set(c, g) /\ g.pc = f.pc /\ g.writer = "none"
    BY <1>8, WriterEndsOK
  <2> QED BY <2>1, <2>2 DEF StaysIdle
<1> QED BY <1>2, <1>3, <1>4, <1>5, <1>6, <1>7, <1>8, SameStepOK

-----------------------------------------------------------------------------
LEMMA ServingInvInit == ServingInit => ServingInv
<1> SUFFICES ASSUME ServingInit PROVE ServingInv
  OBVIOUS
<1>1. CallsOK
  BY DEF ServingInit, CallsOK, CallOK
<1>2. QueuesOK
  <2>1. EmptyQueue \in Queue /\ EmptyQueue.ch = <<>> /\ EmptyQueue.buf = {}
    BY DEF EmptyQueue, Queue
  <2>2. Len(<<>>) = 0 /\ 0 <= Capacity
    BY SmallBatches
  <2> QED BY <2>1, <2>2, SmallBatches DEF ServingInit, QueuesOK
<1>3. \A x \in Queues : /\ queue[x].ch = <<>> /\ queue[x].buf = {} /\ ~queue[x].closed
                         /\ queue[x].loop = "run"
  BY DEF ServingInit, EmptyQueue
<1>4. Ledger
  BY <1>3 DEF ServingInit, Ledger, Waits
<1>5. Ends /\ Closing
  BY <1>3 DEF ServingInit, Ends, Closing, Queues
<1>6. Idle
  BY DEF ServingInit, Idle
<1> QED BY <1>1, <1>2, <1>4, <1>5, <1>6 DEF ServingInv, RowsInv

LEMMA ServingInvNext ==
  ASSUME ServingInv, [ServingNext]_servingVars
  PROVE  ServingInv'
<1>1. CallsOK /\ RowsInv /\ Idle
  BY DEF ServingInv
<1>2. ASSUME NEW c \in Calls, NEW w \in Wires, NEW candidate \in BOOLEAN, ServeStream(c, w, candidate)
      PROVE  ServingInv'
  <2>1. c \in Streamed /\ UNCHANGED <<rows, process>>
    BY <1>2 DEF ServeStream, Begins
  <2>2. CallOK(c, [Begun EXCEPT !.st = Opened(w), !.pc = "open", !.candidate = candidate])
    BY <2>1, ServeStreamOK
  <2>3. PICK g : CallOK(c, g) /\ Set(c, g) /\ StaysIdle(c, g)
    BY <1>2, <2>2, BeginOK DEF ServeStream
  <2> QED BY <1>1, <2>1, <2>3, RowsSame, CallSet
<1>3. ASSUME NEW c \in Calls,
             \/ Chat(c, TRUE) \/ Chat(c, FALSE) \/ ReplayStream(c) \/ ExecChat(c)
             \/ ClientLeaves(c) \/ FirstTokenTimeout(c) \/ OpenStream(c)
             \/ PumpSend(c) \/ PumpRecv(c) \/ StreamIdleTimeout(c)
             \/ ServeChunk(c) \/ LoopEnds(c) \/ Finish(c) \/ WriterEnds(c)
             \/ AnswerBlocks(c) \/ WriteReturns(c)
      PROVE  ServingInv'
  <2>1. CallOK(c, call[c])
    BY <1>1 DEF CallsOK
  <2>2. UNCHANGED <<rows, process>> /\ \E g : CallOK(c, g) /\ Set(c, g) /\ StaysIdle(c, g)
    BY <1>3, <2>1, CallStepOK
  <2>3. PICK g : CallOK(c, g) /\ Set(c, g) /\ StaysIdle(c, g)
    BY <2>2
  <2> QED BY <1>1, <2>2, <2>3, RowsSame, CallSet
<1>4. ASSUME NEW c \in Calls, AfterCache(c) PROVE ServingInv'
  <2>1. CallOK(c, call[c]) /\ call[c].pc = "cache" /\ UNCHANGED <<written, process>>
    BY <1>1, <1>4 DEF CallsOK, AfterCache, At
  <2>2. PICK g : CallOK(c, g) /\ Set(c, g)
    BY <1>4, <2>1, AfterCacheOK
  <2>3. StaysIdle(c, g)
    BY <2>1 DEF StaysIdle
  <2>4. RowsInv'
    <3>1. CASE Emit("shadow", c)
      <4>1. "shadow" \in Queues /\ call[c].pc \notin {"new", "done"}
        BY <2>1 DEF Queues
      <4> QED BY <1>1, <2>1, <3>1, <4>1, EmitOK
    <3>2. CASE UNCHANGED <<queue, offers>>
      <4>1. UNCHANGED <<rows, process>>
        BY <2>1, <3>2 DEF rows
      <4> QED BY <1>1, <4>1, RowsSame
    <3> QED BY <1>4, <3>1, <3>2 DEF AfterCache
  <2> QED BY <2>1, <2>2, <2>3, <2>4, CallSet
<1>5. ASSUME NEW c \in Calls, AfterUsage(c) PROVE ServingInv'
  <2>1. CallOK(c, call[c]) /\ call[c].pc = "usage" /\ UNCHANGED <<written, process>> /\ Emit("usage", c)
    BY <1>1, <1>5 DEF CallsOK, AfterUsage, At
  <2>2. PICK g : CallOK(c, g) /\ Set(c, g)
    BY <1>5, <2>1, AfterUsageOK
  <2>3. StaysIdle(c, g) /\ "usage" \in Queues /\ call[c].pc \notin {"new", "done"}
    BY <2>1 DEF StaysIdle, Queues
  <2>4. RowsInv'
    BY <1>1, <2>1, <2>3, EmitOK
  <2> QED BY <2>1, <2>2, <2>3, <2>4, CallSet
<1>6. ASSUME NEW x \in Queues, Collect(x) \/ FlushInterval(x) \/ FinalFlush(x) PROVE ServingInv'
  <2>1. RowsInv'
    BY <1>1, <1>6, CollectOK, FlushOK
  <2>2. UNCHANGED <<call, process>>
    BY <1>6 DEF Collect, FlushInterval, FinalFlush
  <2> QED BY <1>1, <2>1, <2>2 DEF ServingInv, CallsOK, Idle, Active, Writers, process
<1>7. CASE NoticeStop
  <2>1. RowsInv'
    BY <1>1, <1>7, NoticeStopOK
  <2>2. UNCHANGED <<call, process>>
    BY <1>7 DEF NoticeStop
  <2> QED BY <1>1, <2>1, <2>2 DEF ServingInv, CallsOK, Idle, Active, Writers, process
<1>8. CASE Shutdown \/ ListenerFails \/ Drain \/ CloseUsage \/ CloseShadow \/ RunReturns
  <2>1. RowsInv' /\ Idle'
    BY <1>1, <1>8, RunEndsOK
  <2>2. call' = call
    BY <1>8 DEF Shutdown, ListenerFails, Drain, CloseUsage, CloseShadow, RunReturns
  <2> QED BY <1>1, <2>1, <2>2 DEF ServingInv, CallsOK
<1>9. CASE UNCHANGED servingVars
  <2>1. UNCHANGED <<rows, process>> /\ call' = call
    BY <1>9 DEF servingVars, rows, process, offers
  <2>2. RowsInv'
    BY <1>1, <2>1, RowsSame
  <2> QED BY <1>1, <2>1, <2>2 DEF ServingInv, CallsOK, Idle, Active, Writers, process
<1> QED BY <1>2, <1>3, <1>4, <1>5, <1>6, <1>7, <1>8, <1>9 DEF ServingNext

\* Between the provider and the assembler no event of a stream is lost or overtaken, also while
\* a write waits for the client; a row that a queue took is in its channel, in its batch or
\* written, and once the requests are drained there is neither a handler nor, after
\* cacheStage.Wait, a writer.  A listener's failure ends run from serving, with the queues as
\* they are (stream.go openStream, pump, serveStream; batcher.go; shadow_cache.go; main.go run).
THEOREM ServingInvariance == ServingSpec => []ServingInv
<1>1. ServingInit => ServingInv
  BY ServingInvInit
<1>2. ServingInv /\ [ServingNext]_servingVars => ServingInv'
  BY ServingInvNext
<1> QED BY <1>1, <1>2, PTL DEF ServingSpec

\* Only whole answers are handed to a cache writer: for every number of calls, every stream of
\* events whose finish reason comes last and every length of the pump's channel, whatever the
\* timers and the client do (stream.go serveStream, pump; stage.go storable).
THEOREM AnswersStoredWhole == ServingSpec => []StoredIsComplete
<1>1. ServingInv => StoredIsComplete
  <2> SUFFICES ASSUME ServingInv, NEW c \in Streamed, call[c].pc # "new", call[c].writer # "none"
               PROVE  call[c].asm.text = Cardinality({i \in DOMAIN call[c].st.events : call[c].st.events[i].text = 1})
    BY DEF StoredIsComplete
  <2> DEFINE f == call[c]
  <2>1. c \in Calls
    BY ServingAssumption DEF Calls
  <2>2. CallOK(c, f)
    BY <2>1 DEF ServingInv, CallsOK
  <2>3. PhaseOK(c, f) /\ (c \in Streamed /\ ~f.hit => LiveOK(f))
    BY <2>2, BegunCall
  <2>4. ~f.hit /\ f.asm.finish /\ LiveOK(f)
    BY <2>3 DEF PhaseOK
  <2>5. PICK a \in Nat : Assembled(f, a)
    BY <2>4 DEF LiveOK
  <2>6. /\ f.st.events \in Seq(Event) /\ FinishComesLast(f.st.events) /\ a \in 0..Len(f.st.events)
        /\ f.asm.text = Texts(f.st.events, a) /\ \E i \in 1..a : f.st.events[i].finish
    BY <2>4, <2>5 DEF LiveOK, StreamOK, Assembled
  <2>7. Texts(f.st.events, a) = Cardinality({i \in DOMAIN f.st.events : f.st.events[i].text = 1})
    BY <2>6, TextsAll
  <2> QED BY <2>6, <2>7
<1> QED BY <1>1, ServingInvariance, PTL

\* When a process that was told to stop is gone every accepted usage row has been handed to
\* ClickHouse unless flush_timeout cut it off; if the requests were drained in time no row was
\* refused, the shadow evidence is written too and no cache write was cut off.  Until then an
\* accepted row waits or is written, so that a process that ends because a listener failed loses
\* only what waited; no queue, batch or channel ever exceeds its bound (batcher.go Emit, loop,
\* Close; shadow_cache.go run, Close; main.go run).
THEOREM RowsAreKept == ServingSpec => []RowsKept
<1>1. ServingInv => RowsKept
  <2> SUFFICES ASSUME ServingInv PROVE RowsKept
    OBVIOUS
  <2>1. CallsOK /\ QueuesOK /\ Ledger /\ Ends /\ Closing /\ Idle
    BY DEF ServingInv, RowsInv
  <2>2. ServingTypeOK
    <3>1. ASSUME NEW c \in Calls
          PROVE  /\ call[c].pc \in {"new", "exec", "open", "loop", "loop ended", "cache", "usage", "done"}
                 /\ c \in Active => Len(call[c].out) <= ChanCap
      <4>1. CallOK(c, call[c])
        BY <2>1 DEF CallsOK
      <4>2. CASE call[c].pc = "new"
        BY <4>2 DEF Active
      <4>3. CASE call[c].pc # "new"
        BY <4>1, <4>3, BegunCall DEF ShapeOK, Phases
      <4> QED BY <4>2, <4>3
    <3>2. written \subseteq accepted
      BY <2>1 DEF Ledger
    <3> QED BY <2>1, <3>1, <3>2 DEF ServingTypeOK, QueuesOK, Active
  <2>3. ASSUME NEW x \in Queues, queue[x].buf = {}, queue[x].ch = <<>>
        PROVE  {a \in accepted : a[1] = x} \subseteq written
    <3> SUFFICES ASSUME NEW a \in accepted, a[1] = x PROVE a \in written
      OBVIOUS
    <3>1. PICK c \in Calls : a = <<x, c>>
      BY <2>1 DEF Ledger
    <3>2. ~Waits(x, c)
      BY <2>3 DEF Waits
    <3> QED BY <2>1, <2>3, <3>1, <3>2 DEF Ledger
  <2>4. ASSUME main = "exited", flushed PROVE {a \in accepted : a[1] = "usage"} \subseteq written
    <3>1. "usage" \in Queues /\ queue["usage"].buf = {} /\ queue["usage"].ch = <<>>
      BY <2>1, <2>4 DEF Closing, Ends, Queues
    <3> QED BY <2>3, <3>1
  <2>5. ASSUME main = "exited", drained PROVE {a \in accepted : a[1] = "shadow"} \subseteq written
    <3>1. "shadow" \in Queues /\ queue["shadow"].buf = {} /\ queue["shadow"].ch = <<>>
      BY <2>1, <2>5 DEF Closing, Ends, Queues
    <3> QED BY <2>3, <3>1
  <2>6. ASSUME main = "exited", drained PROVE refused = {} /\ Writers = {}
    BY <2>1, <2>6 DEF Closing, Idle
  <2>7. accepted \ written \subseteq Pending
    <3> SUFFICES ASSUME NEW a \in accepted, a \notin written PROVE a \in Pending
      OBVIOUS
    <3>1. PICK x \in Queues, c \in Calls : a = <<x, c>>
      BY <2>1 DEF Ledger
    <3>2. c \in queue[x].buf \/ Waits(x, c)
      BY <2>1, <3>1 DEF Ledger
    <3> QED BY <3>1, <3>2 DEF Pending, Waits
  <2> QED BY <2>2, <2>4, <2>5, <2>6, <2>7 DEF RowsKept
<1> QED BY <1>1, ServingInvariance, PTL
=============================================================================
