--------------------------- MODULE MCControlLoop ---------------------------
(***************************************************************************)
(* ControlLoop for TLC: one good file and variants of it, each with one    *)
(* thing changed.                                                          *)
(***************************************************************************)
EXTENDS ControlLoop

Provider(n, scheme, host) ==
    [name |-> n, type |-> "openai", scheme |-> scheme, host |-> host,
     key_env |-> "KEY", key_db |-> FALSE, insecure |-> FALSE]

ChatRoute ==
    [name |-> "chat", slashed |-> FALSE, targets |-> {<<"p", "m">>}, strategy |-> Unset, embeddings |-> FALSE,
     num |-> [f \in RouteFields |-> 0], hedge |-> TRUE, hedge_extra |-> 0,
     injection |-> "block", pii |-> Unset, smart |-> "on", smart_targets |-> {<<"p", "m">>},
     cache |-> [mode |-> "on", threshold |-> 0, semantic |-> FALSE, embedding_route |-> Unset,
                acknowledged |-> TRUE, audit |-> 0]]

Base ==
    [num |-> [f \in Checked \cup Unchecked |-> 0],
     redis |-> "redis", admin_addr |-> Unset, admin_auth |-> FALSE, store_text |-> Unset,
     sample_rate |-> 0, fuzzy_threshold |-> 0, alpha |-> 0, min_threshold |-> 0,
     session |-> [idle |-> 0, abs |-> 0, attempts |-> 0, lockout |-> 0],
     trusted_proxies |-> {"network"}, share_mode |-> Unset, gossip_addr |-> FALSE, gossip_secret |-> Unset, unsigned_gossip |-> FALSE,
     providers |-> <<Provider("p", "https", "wide")>>, pricing |-> {<<"p", "m">>}, slos |-> {},
     require_pricing |-> TRUE, routes |-> <<ChatRoute>>,
     mcp_servers |-> <<[name |-> "tools", named |-> TRUE, scheme |-> "http", host |-> "local"]>>,
     mcp_insecure_hosts |-> {}]

EnvDef ==
    [REDIS_URL |-> Unset, PROOFGATE_ADMIN_ADDR |-> Unset, PROOFGATE_ANALYTICS_STORE_TEXT |-> Unset,
     PROOFGATE_HEALTH_SHARE_MODE |-> Unset, PROOFGATE_GOSSIP_SECRET |-> Unset]

\* A ticker stopped, an unknown target, an unknown target of smart_route, an uncalibrated cache.
ContentDef ==
    LET Variant ==
          [base |-> Base,
           stopped |-> [Base EXCEPT !.num["watcher_interval"] = -1],
           unknown |-> [Base EXCEPT !.routes[1].targets = {<<"q", "m">>}],
           unsmart |-> [Base EXCEPT !.routes[1].smart_targets = {<<"q", "m">>}],
           unlinted |-> [Base EXCEPT !.routes[1].cache.acknowledged = FALSE]]
    IN [f \in DOMAIN Variant |-> [known_fields |-> TRUE, config |-> Variant[f]]]

FilesDef == DOMAIN ContentDef

\* A threshold out of range and a row for a route that is gone.
LeftoversDef == {{}, {Row("chat", "cache.threshold", 0), Row("gone", "cache.mode", "on")}}
=============================================================================
