---------------------------- MODULE EventStatus ----------------------------
(***************************************************************************)
(* GET /events/{id}: get_event derives the status of an event from its     *)
(* rows in delivery_attempts and dlq_entries while Delivery's tasks,       *)
(* schedulers and operators change them.                                   *)
(***************************************************************************)
EXTENDS Delivery

(* The states of an endpoint that has a row for the event. *)
Tried(e, p) == \E n \in Attempts : attempts[Retry(e, p, n)] # "none"
InDLQ(e, p) == dlq[<<e, p>>] # "none"

Succeeded(e) == {p \in Endpoints : HasSuccess(e, p)}
Exhausted(e) == {p \in Endpoints : InDLQ(e, p) /\ ~HasSuccess(e, p)}

(* The mutant takes the dead letter queue to be a kind of retrying. *)
RetryingOrDead(e) == {p \in Endpoints : (Tried(e, p) \/ InDLQ(e, p)) /\ ~HasSuccess(e, p)}

(* An attempt on record, no success and no dead letter: still retrying. *)
Retrying(e) == {p \in Endpoints : Tried(e, p) /\ ~HasSuccess(e, p) /\ ~InDLQ(e, p)}

DerivedStatus(e) ==
  LET s == Succeeded(e) # {}
      x == Exhausted(e) # {}
      r == Retrying(e) # {}
  IN  CASE ~s /\ ~x /\ ~r -> "pending"
        [] ~s /\ r        -> "retrying"
        [] s /\ ~x /\ ~r  -> "delivered"
        [] s /\ r         -> "partially_retrying"
        [] s /\ x /\ ~r   -> "partially_delivered"
        [] OTHER          -> "dlq"

-----------------------------------------------------------------------------

(* "Retrying" is the truth: an endpoint the status counts as retrying has  *)
(* a message, a task or a scheduled retry on its way to it, unless an      *)
(* operator gave the delivery up (README.md: "Inconsistencies are          *)
(* transient and self-correcting as workers complete").                    *)
RetryingIsPending ==
  \A e \in Events :
    DerivedStatus(e) \in {"retrying", "partially_retrying"} =>
      \A p \in Retrying(e) : Pending(e, p) \/ <<e, p>> \in waived

(* What the status says of an event whose deliveries are over; of one that *)
(* had no endpoint it says "pending" for ever.                             *)
Settled(e) ==
  LET ok == {p \in Endpoints : acked[<<e, p>>] > 0}
  IN  DerivedStatus(e) =
        IF Endpoints = {} THEN "pending"
        ELSE IF ok = Endpoints THEN "delivered"
        ELSE IF ok = {} THEN "dlq" ELSE "partially_delivered"

=============================================================================
