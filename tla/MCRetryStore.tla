---------------------------- MODULE MCRetryStore ----------------------------
(* An instance of RetryStore for TLC: the first retry of a delivery and    *)
(* the second of another, which is beyond the cap; the misfiled payload    *)
(* names the first.                                                        *)
EXTENDS RetryStore

CONSTANTS m1, m2

Attempts == [m \in {m1, m2} |-> IF m = m1 THEN 1 ELSE 2]
NamesFirst == [m \in Misfiled |-> m1]

(* The unusable entry is due when the others have been polled for a while. *)
UnusableLater == [m \in Planted |-> IF m \in Unusable THEN 4 ELSE 0]

=============================================================================
