---------------------------- MODULE WebhookRelay ----------------------------
(***************************************************************************)
(* What hook-relay promises whoever posts an event: once accepted, the     *)
(* event is answered with a 2xx by each endpoint or its delivery is a dead *)
(* letter (README.md: "Events are never dropped").  A dead letter can      *)
(* still be answered, when a cut-off transaction had the event published   *)
(* twice and the second delivery fares better; an answer is for ever.      *)
(***************************************************************************)
CONSTANTS Events, Endpoints

Pairs == Events \X Endpoints

VARIABLES
  accepted,  \* events that are stored
  outcome    \* of each delivery

vars == <<accepted, outcome>>

Init == accepted = {} /\ outcome = [d \in Pairs |-> "pending"]

Accept(e) == accepted' = accepted \cup {e} /\ UNCHANGED outcome

Answer(d) ==
  /\ d[1] \in accepted /\ outcome[d] # "answered"
  /\ outcome' = [outcome EXCEPT ![d] = "answered"]
  /\ UNCHANGED accepted

DeadLetter(d) ==
  /\ d[1] \in accepted /\ outcome[d] = "pending"
  /\ outcome' = [outcome EXCEPT ![d] = "dead"]
  /\ UNCHANGED accepted

Next ==
  \/ \E e \in Events : Accept(e)
  \/ \E d \in Pairs : Answer(d) \/ DeadLetter(d)

Spec == Init /\ [][Next]_vars

(* No accepted event stays pending. *)
Resolved == \A d \in Pairs : d[1] \in accepted ~> outcome[d] # "pending"

=============================================================================
