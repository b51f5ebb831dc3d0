--------------------------- MODULE MCProofLeader ---------------------------
(* ProofLeader for TLC: the evaluations all run in one process.            *)
EXTENDS ProofLeader

CONSTANT i1

Owner == [e \in Evals |-> i1]
=============================================================================
