----------------------------- MODULE ControlBus ------------------------------
(***************************************************************************)
(* The control bus of internal/control/bus.go: Redis pub/sub between the   *)
(* replicas.  An event reaches the replicas whose subscription is up when  *)
(* it is published, the sender's too, in order and once; the others never  *)
(* get it.                                                                 *)
(***************************************************************************)
EXTENDS Naturals, Sequences

CONSTANT Replicas

VARIABLE inbox  \* events received and not yet dispatched, oldest first

BusInit == inbox = [r \in Replicas |-> << >>]

\* Bus.Publish: any of the replicas may be disconnected; if Redis fails, it reaches none.
Publish(event) ==
  \E subscribed \in SUBSET Replicas :
    inbox' = [r \in Replicas |-> IF r \in subscribed THEN Append(inbox[r], event) ELSE inbox[r]]

\* Bus.Run takes the oldest event for Dispatch.
Take(r) == inbox[r] # << >> /\ inbox' = [inbox EXCEPT ![r] = Tail(@)]

=============================================================================
