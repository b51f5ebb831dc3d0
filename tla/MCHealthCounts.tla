-------------------------- MODULE MCHealthCounts ---------------------------
(* HealthSharing with no more than MaxCount requests in all, so that every *)
(* count that stands for requests is one that peers accept.                *)
EXTENDS MCHealthSharing

VARIABLE samples

CountedInit == HealthInit /\ samples = 0

CountedNext ==
    \/ /\ samples < MaxCount /\ samples' = samples + 1
       /\ \E r \in up : Request(r) \/ Probe(r)
    \/ /\ samples' = samples
       /\ \/ \E r \in up : \/ BroadcastOnce(r) \/ PublishOnce(r) \/ SetTargets(r) \/ Crash(r)
                           \/ \E f \in redis : PullField(r, f)
          \/ \E p \in net : MergeMessage(p) \/ Lose(p)
          \/ Tick

CountedSpec == CountedInit /\ [][CountedNext]_<<healthVars, samples>>
=============================================================================
