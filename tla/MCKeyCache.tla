----------------------------- MODULE MCKeyCache ------------------------------
(* A small instance of KeyCache for TLC. *)
EXTENDS KeyCache, TLC

CONSTANTS r1, r2, p

OneFamily == p :> {p}

\* One replica is asked for the credential; rotations and purges happen on both.
OneAsked == {<<r1, p>>}
=============================================================================
