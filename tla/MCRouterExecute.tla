--------------------------- MODULE MCRouterExecute ---------------------------
(* Small instances of RouterExecute for TLC. *)
EXTENDS RouterExecute, TLC

CONSTANTS a, b, r1, r2

MCTargets == {a, b}

\* A route with a fallback, and the plan left when one target is filtered out.
MCPlans == {<<a, b>>, <<b>>}

OneFallback == {<<a, b>>}

TwoRequests == {r1, r2}

RequestSymmetry == Permutations(Requests)
=============================================================================
