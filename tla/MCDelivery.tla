----------------------------- MODULE MCDelivery -----------------------------
(* Instances of Delivery and EventStatus for TLC. *)
EXTENDS EventStatus, TLC

Symmetry == Permutations(Workers) \cup Permutations(Slots) \cup Permutations(Endpoints)

=============================================================================
