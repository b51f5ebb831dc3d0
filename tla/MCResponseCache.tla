-------------------------- MODULE MCResponseCache --------------------------
(* ResponseCache for TLC: two tenants, two routes, one tag.                *)
EXTENDS ResponseCache

Ask == [tenant |-> "t1", route |-> "chat", user |-> "", params |-> "p", system |-> "sys",
        history |-> None, text |-> "hello", query |-> None, tags |-> {"v1"},
        optOut |-> FALSE, tools |-> FALSE, format |-> FALSE, consent |-> TRUE]

RequestsDef ==
    {Ask,
     [Ask EXCEPT !.user = "ann", !.text = "hi", !.tags = {}],
     [Ask EXCEPT !.tenant = "t2", !.tags = {}],
     [Ask EXCEPT !.history = "turns"]}

Section == [mode |-> "on", exact |-> TRUE, semantic |-> TRUE, perUser |-> FALSE,
            allowClientKey |-> FALSE, version |-> 1, ttl |-> 1, consentRequired |-> FALSE]

Same(g) == [r \in Routes |-> g]

ConfigsDef == {Same(Section), Same([Section EXCEPT !.mode = "shadow", !.perUser = TRUE])}

CloseDef == {{"hello", "hi"}}

PurgeDef == {[tenant |-> None, route |-> "chat", tag |-> None],
             [tenant |-> "t1", route |-> None, tag |-> "v1"]}

(* Clients that choose the query text, with different documents in the     *)
(* user message.                                                           *)
RagRequests == {[Ask EXCEPT !.text = d, !.query = "q"] : d \in {"doc1", "doc2"}}
RagConfigs == {Same([Section EXCEPT !.allowClientKey = TRUE])}

(* A purge of one of two routes.                                           *)
PurgeBatch == {[tenant |-> None, route |-> "batch", tag |-> None]}

(* Routes with different ttl that share a tag.                             *)
TwoRoutes == {Ask, [Ask EXCEPT !.route = "batch"]}
TwoTTLs == {[r \in Routes |-> [Section EXCEPT !.ttl = IF r = "chat" THEN 2 ELSE 1]]}
=============================================================================
