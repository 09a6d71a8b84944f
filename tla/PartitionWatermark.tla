------------------------- MODULE PartitionWatermark -------------------------
(***************************************************************************)
(* The per-partition offset bookkeeping of the delivery worker, class      *)
(* PartitionWatermark of worker/delivery.py.  A watermark is a record      *)
(*                                                                         *)
(*   in_flight       offsets dispatched and not yet marked done            *)
(*   last_seen       the highest offset dispatched, -1 at first            *)
(*   last_committed  the highest offset handed to a commit, -1 at first    *)
(*                                                                         *)
(* Its two methods run without an await, so each is one pure operator.     *)
(***************************************************************************)
EXTENDS Integers, FiniteSetsExt

Watermark == [in_flight : SUBSET Nat, last_seen : Int, last_committed : Int]

Fresh == [in_flight |-> {}, last_seen |-> -1, last_committed |-> -1]

(* The mutant loses track of the offset. *)
StartUntracked(wm, offset) ==
  [wm EXCEPT !.last_seen = IF offset > @ THEN offset ELSE @]

(* start(offset): the record is dispatched. *)
Start(wm, offset) ==
  [wm EXCEPT !.in_flight = @ \cup {offset},
             !.last_seen = IF offset > @ THEN offset ELSE @]

(* The mutant forgets that a later offset may finish before an earlier one. *)
CandidateLastSeen(wm) == wm.last_seen

(* Everything up to the candidate has been processed: the last offset seen *)
(* when nothing is in flight, else the one before the oldest in flight.    *)
Candidate(wm) ==
  IF wm.in_flight = {} THEN wm.last_seen ELSE Min(wm.in_flight) - 1

Discard(wm, offset) == [wm EXCEPT !.in_flight = @ \ {offset}]

(* done(offset), its effect on the watermark ... *)
Done(wm, offset) ==
  LET rest == Discard(wm, offset)
  IN  [rest EXCEPT !.last_committed =
         IF Candidate(rest) > @ THEN Candidate(rest) ELSE @]

(* The mutant commits whatever the candidate is. *)
CommitAtEachEnd(wm, offset) == {Candidate(Discard(wm, offset))}

(* ... and its result: the offset to commit, or nothing (None in the code). *)
CommitAt(wm, offset) ==
  LET candidate == Candidate(Discard(wm, offset))
  IN  IF candidate > wm.last_committed THEN {candidate} ELSE {}

=============================================================================
