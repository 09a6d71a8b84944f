------------------------------ MODULE MCOutbox ------------------------------
(* Instances of Outbox for TLC. *)
EXTENDS Outbox, TLC

Symmetry == Permutations(Keys) \cup Permutations(Requests) \cup Permutations(Relays)

=============================================================================
