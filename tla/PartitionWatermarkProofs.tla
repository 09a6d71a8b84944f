---------------------- MODULE PartitionWatermarkProofs ----------------------
(* Facts about the watermark operators, for the proofs about DeliveryLoop. *)
EXTENDS PartitionWatermark, WellFoundedInduction, TLAPS

(* The smallest member of a set of offsets exists and is below them all. *)
LEMMA MinOfOffsets ==
  ASSUME NEW S, S \subseteq Nat, S # {}
  PROVE  Min(S) \in S /\ \A x \in S : Min(S) <= x
<1>1. PICK x \in S : \A y \in S : ~ (<<y, x>> \in OpToRel(<, Nat))
  BY NatLessThanWellFounded, WFMin
<1>2. ASSUME NEW y \in S PROVE x <= y
  <2>1. CASE y < x
    <3>1. <<y, x>> \in OpToRel(<, Nat)
      BY <2>1, Zenon DEF OpToRel
    <3>. QED BY <1>1, <3>1
  <2>2. CASE ~ (y < x)
    BY <2>2
  <2>. QED BY <2>1, <2>2
<1>. QED BY <1>2 DEF Min

(* A watermark whose offsets all lie in 0 .. n - 1. *)
WatermarkUpTo(n) ==
  [in_flight : SUBSET (0 .. n - 1), last_seen : -1 .. n - 1,
   last_committed : -1 .. n - 1]

(* start() keeps the type and adds its offset. *)
LEMMA StartType ==
  ASSUME NEW n \in Nat, NEW m \in WatermarkUpTo(n), NEW o \in 0 .. n - 1
  PROVE  /\ Start(m, o) \in WatermarkUpTo(n)
         /\ Start(m, o).in_flight = m.in_flight \cup {o}
         /\ Start(m, o).last_seen = IF o > m.last_seen THEN o ELSE m.last_seen
<1>. DEFINE seen == IF o > m.last_seen THEN o ELSE m.last_seen
            flying == m.in_flight \cup {o}
<1>1. flying \in SUBSET (0 .. n - 1) /\ seen \in -1 .. n - 1
  BY DEF WatermarkUpTo
<1>2. Start(m, o) = [m EXCEPT !.in_flight = flying, !.last_seen = seen]
  BY Zenon DEF Start
<1>. HIDE DEF seen, flying
<1>3. /\ Start(m, o) \in WatermarkUpTo(n)
      /\ Start(m, o).in_flight = flying
      /\ Start(m, o).last_seen = seen
  BY <1>1, <1>2 DEF WatermarkUpTo
<1>. QED BY <1>3 DEF seen, flying

(* The candidate is an offset of the log, or -1. *)
LEMMA CandidateType ==
  ASSUME NEW n \in Nat, NEW m \in WatermarkUpTo(n)
  PROVE  Candidate(m) \in -1 .. n - 1
<1>1. CASE m.in_flight = {}
  BY <1>1 DEF Candidate, WatermarkUpTo
<1>2. CASE m.in_flight # {}
  <2>1. m.in_flight \subseteq 0 .. n - 1
    BY DEF WatermarkUpTo
  <2>2. Min(m.in_flight) \in 0 .. n - 1
    BY <1>2, <2>1, MinOfOffsets
  <2>. QED BY <1>2, <2>2 DEF Candidate
<1>. QED BY <1>1, <1>2

(* No offset up to the candidate is in flight, and all have been seen when *)
(* nothing beyond the last one seen is in flight.                          *)
LEMMA CandidateIsBehind ==
  ASSUME NEW n \in Nat, NEW m \in WatermarkUpTo(n),
         \A o \in m.in_flight : o <= m.last_seen,
         NEW o \in 0 .. n - 1, o <= Candidate(m)
  PROVE  o \notin m.in_flight /\ o <= m.last_seen
<1>1. CASE m.in_flight = {}
  BY <1>1 DEF Candidate, WatermarkUpTo
<1>2. CASE m.in_flight # {}
  <2>1. m.in_flight \subseteq 0 .. n - 1 /\ m.last_seen \in Int
    BY DEF WatermarkUpTo
  <2>2. /\ Min(m.in_flight) \in m.in_flight
        /\ \A x \in m.in_flight : Min(m.in_flight) <= x
    BY <1>2, <2>1, MinOfOffsets
  <2>3. o <= Min(m.in_flight) - 1
    BY <1>2 DEF Candidate
  <2>. QED BY <2>1, <2>2, <2>3
<1>. QED BY <1>1, <1>2

(* Discarding an offset keeps the type. *)
LEMMA DiscardType ==
  ASSUME NEW n \in Nat, NEW m \in WatermarkUpTo(n), NEW o \in 0 .. n - 1
  PROVE  /\ Discard(m, o) \in WatermarkUpTo(n)
         /\ Discard(m, o).in_flight = m.in_flight \ {o}
         /\ Discard(m, o).last_seen = m.last_seen
         /\ Discard(m, o).last_committed = m.last_committed
  BY DEF Discard, WatermarkUpTo

(* done() keeps the type and takes its offset out of flight. *)
LEMMA DoneType ==
  ASSUME NEW n \in Nat, NEW m \in WatermarkUpTo(n), NEW o \in 0 .. n - 1
  PROVE  /\ Done(m, o) \in WatermarkUpTo(n)
         /\ Done(m, o).in_flight = m.in_flight \ {o}
         /\ Done(m, o).last_seen = m.last_seen
<1>. DEFINE rest == Discard(m, o)
<1>1. rest \in WatermarkUpTo(n) /\ Candidate(rest) \in -1 .. n - 1
  BY DiscardType, CandidateType
<1>2. Done(m, o) = [rest EXCEPT !.last_committed =
                      IF Candidate(rest) > @ THEN Candidate(rest) ELSE @]
  BY DEF Done
<1>3. /\ rest.in_flight = m.in_flight \ {o}
      /\ rest.last_seen = m.last_seen
  BY DiscardType
<1>. HIDE DEF rest
<1>. QED BY <1>1, <1>2, <1>3 DEF WatermarkUpTo

(* What done(o) commits is an offset of the log ... *)
LEMMA CommitAtType ==
  ASSUME NEW n \in Nat, NEW m \in WatermarkUpTo(n), NEW o \in 0 .. n - 1,
         NEW c \in CommitAt(m, o)
  PROVE  c \in 0 .. n - 1
<1>1. Candidate(Discard(m, o)) \in -1 .. n - 1
  BY DiscardType, CandidateType
<1>2. c = Candidate(Discard(m, o)) /\ Candidate(Discard(m, o)) > m.last_committed
  BY DEF CommitAt
<1>3. m.last_committed \in -1 .. n - 1
  BY DEF WatermarkUpTo
<1>. QED BY <1>1, <1>2, <1>3

(* ... and everything up to it is o itself, or was seen and is no longer   *)
(* in flight.                                                              *)
LEMMA CommitAtIsBehind ==
  ASSUME NEW n \in Nat, NEW m \in WatermarkUpTo(n), NEW o \in 0 .. n - 1,
         \A q \in m.in_flight : q <= m.last_seen,
         NEW c \in CommitAt(m, o), NEW q \in 0 .. n - 1, q <= c
  PROVE  q = o \/ (q \notin m.in_flight /\ q <= m.last_seen)
<1>. DEFINE rest == Discard(m, o)
<1>1. /\ rest \in WatermarkUpTo(n)
      /\ rest.in_flight = m.in_flight \ {o}
      /\ rest.last_seen = m.last_seen
  BY DiscardType
<1>2. c = Candidate(rest)
  BY DEF CommitAt
<1>. HIDE DEF rest
<1>3. q \notin rest.in_flight /\ q <= rest.last_seen
  BY <1>1, <1>2, CandidateIsBehind
<1>. QED BY <1>1, <1>3

=============================================================================
