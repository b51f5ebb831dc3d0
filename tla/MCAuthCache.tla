----------------------------- MODULE MCAuthCache -----------------------------
(* A small instance of AuthCache for TLC. *)
EXTENDS AuthCache, TLC

CONSTANTS r1, k1, k2, t1

\* Two keys of one tenant.
OneOwner == k1 :> t1 @@ k2 :> t1

AllAsked == Replicas \X Keys

KeySymmetry == Permutations(Keys)
=============================================================================
