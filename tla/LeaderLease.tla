---------------------------- MODULE LeaderLease ----------------------------
(***************************************************************************)
(* What the leader lock of internal/proof promises, without saying how: a  *)
(* lease with at most one holder, passed on only through "free", which     *)
(* nobody but its holder gives up before it lapses, and a belief in being  *)
(* the leader that only a granted lease can start.  ProofLeader implements *)
(* it over a Redis key with a TTL.                                         *)
(***************************************************************************)
EXTENDS Naturals

CONSTANTS
    Instances,  \* gateway processes, one per instance id
    Nobody,     \* the lease is free
    Term        \* how long a lease lasts

VARIABLES
    holder,     \* who holds the lease
    term,       \* how long it still lasts
    granted,    \* instances granted the lease whose grant is not yet known to them
    believers   \* instances that act as the leader

leaseVars == <<holder, term, granted, believers>>

LeaseInit == holder = Nobody /\ term = 0 /\ granted = {} /\ believers = {}

(* A free lease is given to one instance; the answer travels or is lost.   *)
Grant(i) ==
    /\ holder = Nobody
    /\ holder' = i /\ term' = Term
    /\ granted' \in {granted, granted \cup {i}}
    /\ UNCHANGED believers

(* Only an instance that was granted the lease starts to lead.             *)
Believe(i) ==
    /\ i \in granted
    /\ granted' = granted \ {i}
    /\ believers' = believers \cup {i}
    /\ UNCHANGED <<holder, term>>

(* Its holder, and nobody else, makes it last longer.                      *)
Extend(i) == holder = i /\ term' = Term /\ UNCHANGED <<holder, granted, believers>>

(* Time passes; at the end of its term the lease lapses, whatever its      *)
(* holder believes.                                                        *)
Age ==
    /\ holder # Nobody
    /\ term' = term - 1
    /\ holder' = IF term = 1 THEN Nobody ELSE holder
    /\ UNCHANGED <<granted, believers>>

(* An instance stops leading, or is gone with all it knew.                 *)
Quit(i) ==
    /\ believers' = believers \ {i}
    /\ granted' = granted \ {i}
    /\ UNCHANGED <<holder, term>>

(* A leader that gives the lease back frees its own lease and no other.    *)
GiveBack(i) ==
    /\ i \in believers
    /\ holder = i
    /\ holder' = Nobody /\ term' = 0
    /\ UNCHANGED <<granted, believers>>

LeaseNext ==
    \/ Age
    \/ \E i \in Instances : Grant(i) \/ Extend(i) \/ Believe(i) \/ Quit(i) \/ GiveBack(i)

LeaseSpec == LeaseInit /\ [][LeaseNext]_leaseVars
=============================================================================
