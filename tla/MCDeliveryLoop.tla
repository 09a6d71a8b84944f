--------------------------- MODULE MCDeliveryLoop ---------------------------
(* Instances of DeliveryLoop for TLC. *)
EXTENDS DeliveryLoop, TLC

WorkerSymmetry == Permutations(Workers)

(* A log whose second record of each partition is a poison pill. *)
SecondMalformed ==
  [r \in Records |-> IF r[2] = 1 THEN "malformed" ELSE "wellformed"]

(* A log with a record of each kind. *)
OneOfEach ==
  [r \in Records |-> CASE r[2] = 1 -> "malformed"
                       [] r[2] = 2 -> "illtyped"
                       [] OTHER -> "wellformed"]

(* A log whose first record of each partition does not have the right types. *)
FirstIllTyped ==
  [r \in Records |-> IF r[2] = 0 THEN "illtyped" ELSE "wellformed"]

=============================================================================
