---------------------------- MODULE AtLeastOnce -----------------------------
(***************************************************************************)
(* What the delivery worker pool promises of a partitioned log: a record   *)
(* may be processed any number of times, in any order, but the consumer    *)
(* group's committed offset of a partition only ever stands behind         *)
(* records that have all been processed.  A restart resumes from that      *)
(* offset, so no record is skipped.  The committed offset may move back:   *)
(* that costs a second delivery, never a lost one.                         *)
(***************************************************************************)
EXTENDS Naturals

CONSTANTS Partitions, Offsets

VARIABLES processed,   \* the <<partition, offset>> pairs processed at least once
          committed    \* the next offset to read after a restart, by partition

vars == <<processed, committed>>

Init ==
  /\ processed = {}
  /\ committed = [p \in Partitions |-> 0]

Process(p, o) ==
  /\ processed' = processed \cup {<<p, o>>}
  /\ UNCHANGED committed

Commit(p, c) ==
  /\ \A o \in Offsets : o <= c => <<p, o>> \in processed
  /\ committed' = [committed EXCEPT ![p] = c + 1]
  /\ UNCHANGED processed

Next ==
  \E p \in Partitions, o \in Offsets : Process(p, o) \/ Commit(p, o)

Spec == Init /\ [][Next]_vars

=============================================================================
