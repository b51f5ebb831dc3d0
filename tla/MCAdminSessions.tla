-------------------------- MODULE MCAdminSessions --------------------------
(* AdminSessions for TLC: two administrators, one of them logged in.  The  *)
(* clients are interchangeable.                                            *)
EXTENDS AdminSessions, TLC

RoleDef == [u \in Users |-> "admin"]
ClientSymmetry == Permutations(Clients)
=============================================================================
