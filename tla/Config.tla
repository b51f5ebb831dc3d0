------------------------------- MODULE Config -------------------------------
(***************************************************************************)
(* The configuration file of internal/config: Parse (environment, defaults *)
(* and validation), Lint, and the overlay of database overrides that       *)
(* internal/server lays over it.                                           *)
(*                                                                         *)
(* Numbers and durations are abstracted to what the checks tell apart:     *)
(* negative, zero (unset) or positive, by field name in "num"; a cache     *)
(* threshold and a sample rate are in hundredths, the admin session's      *)
(* durations in minutes.  A URL is [scheme, host], host "local" or "wide". *)
(* Of a name that has a form to keep, and of trusted proxies, the model    *)
(* has what the check finds: slashed, named, and the forms of the entries. *)
(***************************************************************************)
EXTENDS Integers, Sequences, FiniteSets

CONSTANTS Unset     \* an absent string, route or environment variable

(* Fields that default to a positive value and must not be negative.       *)
ServerFields ==
    {"server.max_request_body_bytes", "server.max_upstream_response_bytes",
     "server.read_header_timeout", "server.idle_timeout", "server.drain_timeout"}

Checked == ServerFields \cup
    {"database.max_conns",
     "usage_batcher.capacity", "usage_batcher.batch_size", "usage_batcher.flush_interval",
     "mcp_batcher.capacity", "mcp_batcher.batch_size", "mcp_batcher.flush_interval",
     "analytics.flush_timeout", "analytics.text_ttl_hours", "analytics.ttl_days",
     "breakers.threshold", "breakers.cooldown",
     "auth.cache_ttl", "auth.negative_cache_ttl", "auth.max_cached_keys",
     "mcp.max_request_body_bytes", "mcp.request_timeout",
     "defaults.max_tokens_reserve", "defaults.default_max_tokens", "defaults.embedder_cache_size",
     "defaults.agent_loop_repeats", "defaults.agent_loop_window",
     "health.probe_timeout", "watcher_interval", "override_interval"}

(* Fields that default to a positive value and are not checked.            *)
Unchecked ==
    {"server.read_timeout", "defaults.agent_run_ttl", "health.breaches", "health.recover",
     "health.min_samples", "health.probe_interval", "proof.monitor_interval", "proof.min_pairs",
     "secrets.cache_ttl", "admin_auth.chat.rpm", "admin_auth.chat.tpm"}

(* Per route: all defaulted, all checked.                                  *)
RouteFields ==
    {"retry.max_attempts", "retry.base_delay", "timeout", "deadline",
     "first_token_timeout", "stream_idle_timeout", "cache.max_entry_bytes"}

Modes == {"off", "shadow", "on"}
Percent == 0..100

(* What the YAML decodes to.                                               *)
Text == STRING \cup {Unset}
ModelRefs == SUBSET (Text \X Text)     \* provider and model

CacheConfig ==
    [mode : Text, threshold : Int, audit : Int, semantic : BOOLEAN, embedding_route : Text,
     acknowledged : BOOLEAN]
RouteConfig ==
    [name : Text, slashed : BOOLEAN, targets : ModelRefs, strategy : Text, embeddings : BOOLEAN,
     num : [RouteFields -> Int], hedge : BOOLEAN, hedge_extra : Int, injection : Text, pii : Text,
     smart : Text, smart_targets : ModelRefs, cache : CacheConfig]
ProviderConfig ==
    [name : Text, type : Text, scheme : Text, host : Text, key_env : Text, key_db : BOOLEAN,
     insecure : BOOLEAN]
MCPServerConfig == [name : Text, named : BOOLEAN, scheme : Text, host : Text]
SessionConfig == [idle : Int, abs : Int, attempts : Int, lockout : Int]
ConfigFile ==
    [num : [Checked \cup Unchecked -> Int], redis : Text, admin_addr : Text, admin_auth : BOOLEAN,
     store_text : Text, sample_rate : Int, fuzzy_threshold : Int, alpha : Int, min_threshold : Int,
     session : SessionConfig, share_mode : Text, trusted_proxies : SUBSET Text,
     gossip_addr : BOOLEAN, gossip_secret : Text, unsigned_gossip : BOOLEAN,
     providers : Seq(ProviderConfig), pricing : ModelRefs, slos : ModelRefs,
     require_pricing : BOOLEAN, routes : Seq(RouteConfig), mcp_servers : Seq(MCPServerConfig),
     mcp_insecure_hosts : SUBSET Text]

-----------------------------------------------------------------------------
(* applyEnvOverrides: PROOFGATE_* win over the file; DATABASE_URL and      *)
(* REDIS_URL only fill a gap.  env is a record of the variables.           *)
Filled(v, e) == IF v = Unset THEN e ELSE v
Replaced(v, e) == IF e = Unset THEN v ELSE e

applyEnvOverrides(c, env) ==
    [c EXCEPT !.redis = Filled(@, env.REDIS_URL),
              !.admin_addr = Replaced(@, env.PROOFGATE_ADMIN_ADDR),
              !.store_text = Replaced(@, env.PROOFGATE_ANALYTICS_STORE_TEXT),
              !.share_mode = Replaced(@, env.PROOFGATE_HEALTH_SHARE_MODE),
              !.gossip_secret = Replaced(@, env.PROOFGATE_GOSSIP_SECRET)]

-----------------------------------------------------------------------------
(* applyDefaults                                                            *)

Positive(n) == IF n = 0 THEN 1 ELSE n
Default(n, d) == IF n = 0 THEN d ELSE n

DefaultShareMode(c) ==
    IF c.redis # Unset THEN "redis" ELSE IF c.gossip_addr THEN "gossip" ELSE "none"

DefaultRoute(r) ==
    [r EXCEPT !.num = [f \in RouteFields |-> Positive(r.num[f])],
              !.strategy = Filled(@, "fallback"),
              !.cache.mode = Filled(@, "off"),
              !.cache.threshold = Default(@, 95),
              !.hedge_extra = Default(@, 10)]

applyDefaults(c) ==
    [c EXCEPT !.num = [f \in Checked \cup Unchecked |-> Positive(c.num[f])],
              !.admin_addr = Filled(@, "loopback"),
              !.store_text = Filled(@, "hash"),
              !.sample_rate = Default(@, 100),
              !.fuzzy_threshold = Default(@, 95),
              !.alpha = Default(@, 20),
              !.min_threshold = Default(@, 86),
              !.session.idle = Default(@, 30),
              !.session.abs = Default(@, 720),
              !.session.attempts = Default(@, 5),
              !.session.lockout = Default(@, 15),
              !.share_mode = Filled(@, DefaultShareMode(c)),
              !.routes = [k \in DOMAIN c.routes |-> DefaultRoute(c.routes[k])]]

-----------------------------------------------------------------------------
(* validate                                                                 *)

Distinct(seq) == \A j, k \in DOMAIN seq : seq[j].name = seq[k].name => j = k
ProviderNames(c) == {c.providers[k].name : k \in DOMAIN c.providers}

(* Addresses and networks; a blank entry is passed over.                   *)
ParsedTrustedProxies(c) == c.trusted_proxies \subseteq {"blank", "address", "network"}

(* Numbers, proxies, text storage, sampling, admin sessions and sharing.   *)
ServerValid(c) ==
    /\ ParsedTrustedProxies(c)
    /\ \A f \in Checked : c.num[f] >= 0
    /\ c.store_text \in {"full", "hash", "none"}
    /\ c.sample_rate \in Percent /\ c.fuzzy_threshold \in Percent /\ c.alpha \in Percent
    /\ c.session.idle >= 1 /\ c.session.abs >= c.session.idle
    /\ c.session.attempts >= 1 /\ c.session.lockout >= 1
    /\ c.share_mode \in {"none", "redis", "gossip"}
    /\ c.share_mode = "gossip" => c.gossip_secret # Unset \/ c.unsigned_gossip

(* A provider has a known type and an http(s) base_url: https unless local *)
(* or explicitly insecure, a key unless local, and one source for the key. *)
ProviderValid(p) ==
    /\ p.type \in {"openai", "anthropic", "gemini"}
    /\ p.scheme \in {"http", "https"}
    /\ p.scheme = "http" => p.host = "local" \/ p.insecure
    /\ p.host # "local" => p.key_env # Unset \/ p.key_db
    /\ ~(p.key_env # Unset /\ p.key_db)

EmbedRoutes(c) == {c.routes[k].name : k \in {j \in DOMAIN c.routes : c.routes[j].embeddings}}

(* A route names known providers, priced ones when the cheapest is asked   *)
(* for, and an embedding route when its cache is semantic.                 *)
RouteValid(c, r) ==
    /\ r.name # Unset /\ ~r.slashed
    /\ r.targets # {}
    /\ r.strategy \in {"fallback", "cheapest"}
    /\ \A f \in RouteFields : r.num[f] >= 0
    /\ r.hedge => r.hedge_extra \in Percent
    /\ r.injection \in {Unset, "block", "warn"}
    /\ r.pii \in {Unset, "redact", "mask"}
    /\ r.smart \in Modes \cup {Unset}
    /\ \A t \in r.targets : /\ t[1] \in ProviderNames(c)
                            /\ r.strategy = "cheapest" => t \in c.pricing
    /\ r.cache.mode \in Modes
    /\ r.cache.threshold \in 1..100
    /\ r.cache.semantic => r.cache.embedding_route \in EmbedRoutes(c)

MCPValid(c, s) ==
    /\ s.named
    /\ s.scheme \in {"http", "https"}
    /\ s.scheme = "http" => s.host = "local" \/ s.host \in c.mcp_insecure_hosts

validate(c) ==
    /\ ServerValid(c)
    /\ c.providers # <<>> /\ c.routes # <<>>
    /\ Distinct(c.providers) /\ Distinct(c.routes) /\ Distinct(c.mcp_servers)
    /\ \A k \in DOMAIN c.providers : ProviderValid(c.providers[k])
    /\ \A t \in c.pricing \cup c.slos : t[1] \in ProviderNames(c)
    /\ \A k \in DOMAIN c.routes : RouteValid(c, c.routes[k])
    /\ \A k \in DOMAIN c.mcp_servers : MCPValid(c, c.mcp_servers[k])

-----------------------------------------------------------------------------
(* Parse: a file with an unknown key is refused before anything else.      *)
Parsed(raw, env) == applyDefaults(applyEnvOverrides(raw.config, env))
Parses(raw, env) == raw.known_fields /\ validate(Parsed(raw, env))

(* Lint's errors (its warnings only log): an uncalibrated cache, missing   *)
(* prices, an exposed admin listener.                                      *)
Uncalibrated(r) == r.cache.mode = "on" /\ ~r.cache.acknowledged
Unpriced(c, r) ==
    \/ ~(r.targets \subseteq c.pricing)
    \/ r.smart \in {"shadow", "on"} /\ ~(r.smart_targets \subseteq c.pricing)

LintErrors(c) ==
    \/ ~validate(c)
    \/ \E k \in DOMAIN c.routes : Uncalibrated(c.routes[k])
    \/ c.require_pricing /\ \E k \in DOMAIN c.routes : Unpriced(c, c.routes[k])
    \/ c.admin_addr # "loopback" /\ ~c.admin_auth

-----------------------------------------------------------------------------
(* ApplyOverrides: rows of route_overrides, [route, key, value].  A row    *)
(* for an unknown route, with an unknown key or a bad value is skipped.    *)
\* Mutant of Acceptable: thresholds are taken as they are.
AcceptableUnchecked(o) ==
    \/ o.key \in {"cache.mode", "smart_route.mode"} /\ o.value \in Modes
    \/ o.key \in {"cache.threshold", "cache.audit_sample_rate"}

Acceptable(o) ==
    \/ o.key \in {"cache.mode", "smart_route.mode"} /\ o.value \in Modes
    \/ o.key = "cache.threshold" /\ o.value \in 1..100
    \/ o.key = "cache.audit_sample_rate" /\ o.value \in Percent

Effective(r, ovs, key, configured) ==
    LET mine == {o \in ovs : o.route = r.name /\ o.key = key /\ Acceptable(o)}
    IN IF mine = {} THEN configured ELSE (CHOOSE o \in mine : TRUE).value

OverlayRoute(r, ovs) ==
    [r EXCEPT !.cache.mode = Effective(r, ovs, "cache.mode", @),
              !.cache.threshold = Effective(r, ovs, "cache.threshold", @),
              !.cache.audit = Effective(r, ovs, "cache.audit_sample_rate", @),
              !.smart = Effective(r, ovs, "smart_route.mode", @)]

ApplyOverrides(c, ovs) ==
    [c EXCEPT !.routes = [k \in DOMAIN c.routes |-> OverlayRoute(c.routes[k], ovs)]]

-----------------------------------------------------------------------------
(* NewRegistry refuses a repeated provider name and an unknown type.       *)
Registers(c) ==
    /\ Distinct(c.providers)
    /\ \A k \in DOMAIN c.providers : c.providers[k].type \in {"openai", "anthropic", "gemini"}

(* Intervals that reach time.NewTicker unguarded, and channel capacities:  *)
(* a value of zero or less panics there, a negative capacity too.          *)
Tickers == {"watcher_interval", "override_interval", "usage_batcher.flush_interval",
            "mcp_batcher.flush_interval"}
Starts(c) ==
    /\ \A f \in Tickers : c.num[f] > 0
    /\ \A f \in {"usage_batcher.capacity", "mcp_batcher.capacity"} : c.num[f] >= 0

(* planFor: what a call of a route may be sent to.  With smart_route on,   *)
(* its cheap or its strong target comes first; validate does not look at   *)
(* their providers.                                                        *)
SmartTargets(r) == IF r.smart = "on" THEN r.smart_targets ELSE {}
PlanTargets(r) == SmartTargets(r) \cup r.targets

(* A plan holds no provider that the registry lacks, unless smart_route    *)
(* put it there.                                                           *)
Routable(c) ==
    \A k \in DOMAIN c.routes : \A t \in PlanTargets(c.routes[k]) :
        t[1] \in ProviderNames(c) \/ t \in SmartTargets(c.routes[k])
=============================================================================
