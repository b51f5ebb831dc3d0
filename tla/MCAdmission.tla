----------------------------- MODULE MCAdmission -----------------------------
(* Small instances of Admission for TLC. *)
EXTENDS Admission, TLC

CONSTANTS c1, c2, f1, f2

TwoCalls == {c1, c2}

\* A failed call or cache hit, a call within its estimates, a hedged one beyond them.
ModestUsages == {[tokens |-> 0, cost |-> 0, hedge |-> 0],
                 [tokens |-> 1, cost |-> 1, hedge |-> 0],
                 [tokens |-> 4, cost |-> 2, hedge |-> 1]}

\* A stream that goes on far beyond the reserve.
LongUsages == {[tokens |-> 9, cost |-> 1, hedge |-> 0]}

\* A strict tenant with everything on, and one that fails open, with and without
\* reservations.
ThreePolicies == {[strict |-> TRUE, reserve |-> TRUE, fuzzy |-> TRUE],
                  [strict |-> FALSE, reserve |-> TRUE, fuzzy |-> FALSE],
                  [strict |-> FALSE, reserve |-> FALSE, fuzzy |-> FALSE]}
StrictPolicy == {[strict |-> TRUE, reserve |-> TRUE, fuzzy |-> TRUE]}

CallSymmetry == Permutations(Calls)
=============================================================================
