-------------------------- MODULE MCHealthSharing --------------------------
(* HealthSharing for TLC: two replicas with one secret, an SLO on the rate *)
(* of tokens, which successful requests and given-up ones may miss.        *)
EXTENDS HealthSharing

LimitsDef == [m \in Metrics |-> IF m \in LowIsBad THEN Scale ELSE 0]
PlansDef == {[known |-> TRUE, slo |-> FALSE], [known |-> FALSE, slo |-> TRUE]}
SecretDef == [r \in Replicas |-> "secret"]
=============================================================================
