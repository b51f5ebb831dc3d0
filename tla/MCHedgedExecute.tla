--------------------------- MODULE MCHedgedExecute ---------------------------
(* Small instances of HedgedExecute for TLC. *)
EXTENDS HedgedExecute

CONSTANTS a, b, c, r1

ThreeTargets == {a, b, c}

\* With and without a rest after the race, and too short to be raced.
HedgedPlans == {<<a, b, c>>, <<a, b>>, <<a>>}
=============================================================================
