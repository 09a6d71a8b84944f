------------------------- MODULE DeliveryLoopProofs -------------------------
(***************************************************************************)
(* Proofs about DeliveryLoop, for every set of workers and partitions,     *)
(* every log, every concurrency and every bound: its type invariant, that  *)
(* no record is skipped, that it implements AtLeastOnce, and that no       *)
(* permit of a semaphore is lost.                                          *)
(***************************************************************************)
EXTENDS DeliveryLoop, PartitionWatermarkProofs, FiniteSetTheorems

USE NAssumption, ConcurrencyAssumption, NoWorkerAssumption, BoundsAssumption

(* A watermark over the log, in the words of TypeOK. *)
LEMMA WatermarkTypeIs ==
  WatermarkUpTo(N) = [in_flight : SUBSET Offsets, last_seen : -1 .. N - 1,
                      last_committed : -1 .. N - 1]
BY DEF WatermarkUpTo, Offsets

(* A new watermark is one. *)
LEMMA FreshType == Fresh \in WatermarkUpTo(N)
BY DEF Fresh, WatermarkUpTo

(* So is each watermark of a worker. *)
LEMMA TypeOfWm ==
  ASSUME TypeOK, NEW w \in Workers, NEW p \in Partitions
  PROVE  wm[w][p] \in WatermarkUpTo(N)
BY WatermarkTypeIs DEF TypeOK

(* A worker that exits (RaiseFatal, Crash) leaves a state of the right type. *)
LEMMA ExitType ==
  ASSUME TypeOK, NEW w \in Workers, Exit(w),
         UNCHANGED <<committed, ghosts, commitFailures, rebalances>>,
         faults' \in 0 .. MaxFaults
  PROVE  TypeOK'
<1>1. FreshWatermarks \in [Partitions -> WatermarkUpTo(N)]
  BY FreshType DEF FreshWatermarks
<1>2. wm' \in [Workers -> [Partitions -> WatermarkUpTo(N)]]
  BY <1>1, WatermarkTypeIs DEF TypeOK, Exit
<1>3. [p \in Partitions |-> 0] \in [Partitions -> 0 .. N]
  OBVIOUS
<1>4. NoTasks \in [Records -> Nat]
  BY DEF NoTasks
<1>5. position' \in [Workers -> [Partitions -> 0 .. N]]
  BY <1>3 DEF TypeOK, Exit
<1>6. running' \in [Workers -> [Records -> Nat]]
  BY <1>4 DEF TypeOK, Exit
<1>. QED BY <1>2, <1>5, <1>6, WatermarkTypeIs DEF TypeOK, Exit, LoopStates, ghosts

(* The initial state has its types. *)
LEMMA TypeInit == Init => TypeOK
<1>1. FreshWatermarks \in [Partitions -> WatermarkUpTo(N)]
  BY FreshType DEF FreshWatermarks
<1>2. NoTasks \in [Records -> Nat]
  BY DEF NoTasks
<1>. QED BY <1>1, <1>2, WatermarkTypeIs DEF Init, TypeOK, LoopStates

(* The end of a task keeps the types of permits and running tasks. *)
LEMMA TaskEndsType ==
  ASSUME TypeOK, NEW w \in Workers, NEW r \in Records, TaskEnds(w, r)
  PROVE  /\ running' \in [Workers -> [Records -> Nat]]
         /\ permits' \in [Workers -> Nat]
<1>1. running[w] \in [Records -> Nat] /\ running[w][r] \in Nat /\ running[w][r] > 0
  BY DEF TypeOK, TaskEnds
<1>2. [running[w] EXCEPT ![r] = @ - 1] \in [Records -> Nat]
  BY <1>1
<1>3. running' \in [Workers -> [Records -> Nat]]
  BY <1>2 DEF TypeOK, TaskEnds
<1>. QED BY <1>3 DEF TypeOK, TaskEnds

(* Every step keeps the types. *)
LEMMA TypeStep ==
  ASSUME TypeOK, [Next]_vars
  PROVE  TypeOK'
<1>1. ASSUME NEW w \in Workers, RaiseFatal(w) PROVE TypeOK'
  BY <1>1, ExitType DEF RaiseFatal, spent, ghosts, TypeOK
<1>2. ASSUME NEW w \in Workers, CheckFatal(w) PROVE TypeOK'
  BY <1>2 DEF CheckFatal, TypeOK, LoopStates, broker, ghosts, spent
<1>3. ASSUME NEW w \in Workers, GetMany(w) PROVE TypeOK'
  <2>1. PICK pos \in Polls(w) :
          /\ batch' = [batch EXCEPT ![w] = Fetched(w, pos)]
          /\ position' = [position EXCEPT ![w] = pos]
    BY <1>3 DEF GetMany
  <2>2. pos \in [Partitions -> 0 .. N] /\ Fetched(w, pos) \in SUBSET Records
    BY DEF Polls, Fetched
  <2>3. /\ batch' \in [Workers -> SUBSET Records]
        /\ position' \in [Workers -> [Partitions -> 0 .. N]]
    BY <2>1, <2>2 DEF TypeOK
  <2>4. loop' \in [Workers -> LoopStates]
    BY <1>3 DEF GetMany, TypeOK, LoopStates
  <2>. QED BY <1>3, <2>3, <2>4 DEF GetMany, TypeOK, broker, ghosts, spent
<1>4. ASSUME NEW w \in Workers, NEW r \in Records, Dispatch(w, r) PROVE TypeOK'
  <2>1. r[1] \in Partitions /\ r[2] \in 0 .. N - 1
    BY DEF Records, Offsets
  <2>2. wm' \in [Workers -> [Partitions -> WatermarkUpTo(N)]]
    <3>1. Start(wm[w][r[1]], r[2]) \in WatermarkUpTo(N)
      BY <2>1, TypeOfWm, StartType
    <3>. QED BY <1>4, <2>1, <3>1, WatermarkTypeIs DEF Dispatch, TypeOK
  <2>3. running' \in [Workers -> [Records -> Nat]]
    <3>1. [running[w] EXCEPT ![r] = @ + 1] \in [Records -> Nat]
      BY DEF TypeOK
    <3>. QED BY <1>4, <3>1 DEF Dispatch, TypeOK
  <2>4. /\ permits' \in [Workers -> Nat]
        /\ batch' \in [Workers -> SUBSET Records]
        /\ loop' \in [Workers -> LoopStates]
    BY <1>4 DEF Dispatch, TypeOK, LoopStates
  <2>. QED BY <1>4, <2>2, <2>3, <2>4, WatermarkTypeIs
           DEF Dispatch, TypeOK, broker, ghosts, spent
<1>5. ASSUME NEW w \in Workers, NEW r \in Records, Advance(w, r) PROVE TypeOK'
  <2>1. r[1] \in Partitions /\ r[2] \in 0 .. N - 1
    BY DEF Records, Offsets
  <2>2. wm' \in [Workers -> [Partitions -> WatermarkUpTo(N)]]
    <3>1. Done(wm[w][r[1]], r[2]) \in WatermarkUpTo(N)
      BY <2>1, TypeOfWm, DoneType
    <3>. QED BY <1>5, <2>1, <3>1, WatermarkTypeIs DEF Advance, TypeOK
  <2>3. committing' \in [Workers -> SUBSET [p : Partitions, at : Offsets]]
    <3>1. \A c \in CommitAt(wm[w][r[1]], r[2]) : c \in Offsets
      BY <2>1, TypeOfWm, CommitAtType DEF Offsets
    <3>. QED BY <1>5, <2>1, <3>1 DEF Advance, TypeOK
  <2>4. /\ running' \in [Workers -> [Records -> Nat]]
        /\ permits' \in [Workers -> Nat]
    BY <1>5, TaskEndsType DEF Advance
  <2>. QED BY <1>5, <2>2, <2>3, <2>4, WatermarkTypeIs DEF Advance, TypeOK, broker, ghosts, spent
<1>6. ASSUME NEW w \in Workers, NEW r \in Records, Fail(w, r) PROVE TypeOK'
  <2>1. /\ running' \in [Workers -> [Records -> Nat]]
        /\ permits' \in [Workers -> Nat]
    BY <1>6, TaskEndsType DEF Fail
  <2>2. faults' \in 0 .. MaxFaults
    BY <1>6 DEF Fail, Raises, TypeOK
  <2>. QED BY <1>6, <2>1, <2>2 DEF Fail, TypeOK, broker, ghosts
<1>7. ASSUME NEW w \in Workers, NEW c \in committing[w], CommitLands(w, c) PROVE TypeOK'
  <2>1. c.p \in Partitions /\ c.at \in Offsets
    BY DEF TypeOK
  <2>2. NextToFetch(c.at) \in 0 .. N
    BY <2>1 DEF Offsets, NextToFetch
  <2>. QED BY <1>7, <2>1, <2>2 DEF CommitLands, TypeOK, spent
<1>8. ASSUME NEW w \in Workers, NEW c \in committing[w], CommitFails(w, c) PROVE TypeOK'
  <2>1. commitFailures' \in 0 .. MaxCommitFailures
    BY <1>8 DEF CommitFails, TypeOK
  <2>. QED BY <1>8, <2>1 DEF CommitFails, TypeOK, broker, ghosts
<1>9. ASSUME NEW w \in Workers, Crash(w) PROVE TypeOK'
  <2>1. faults' \in 0 .. MaxFaults
    BY <1>9 DEF Crash, TypeOK
  <2>. QED BY <1>9, <2>1, ExitType DEF Crash
<1>10. ASSUME NEW w \in Workers, Restart(w) PROVE TypeOK'
  BY <1>10 DEF Restart, TypeOK, LoopStates, broker, ghosts, spent
<1>11. ASSUME Rebalance PROVE TypeOK'
  <2>1. PICK new \in [Partitions -> Live] : Assign(new)
    BY <1>11 DEF Rebalance
  <2>2. rejoin' \in BOOLEAN
    BY <1>11 DEF Rebalance
  <2>3. owner' \in [Partitions -> Workers \cup {NoWorker}]
    BY <2>1 DEF Assign, Live
  <2>4. position' \in [Workers -> [Partitions -> 0 .. N]]
    BY <2>1 DEF Assign, TypeOK
  <2>. QED BY <2>1, <2>2, <2>3, <2>4 DEF Assign, TypeOK, ghosts, spent
<1>12. ASSUME Unsettle PROVE TypeOK'
  <2>1. rebalances' \in 0 .. MaxRebalances
    BY <1>12 DEF Unsettle, TypeOK
  <2>. QED BY <1>12, <2>1 DEF Unsettle, TypeOK, ghosts, local
<1>13. CASE UNCHANGED vars
  BY <1>13 DEF vars, broker, ghosts, local, spent, TypeOK
<1>. QED BY <1>1, <1>2, <1>3, <1>4, <1>5, <1>6, <1>7, <1>8, <1>9, <1>10, <1>11, <1>12,
            <1>13
         DEF Next

(* Every reachable state of the worker pool has its types.  In particular  *)
(* no watermark tracks an offset beyond the log and no commit goes past    *)
(* its end.                                                                *)
THEOREM TypeCorrect == Spec => []TypeOK
<1>1. Init => TypeOK
  BY TypeInit
<1>2. TypeOK /\ [Next]_vars => TypeOK'
  BY TypeStep
<1>. QED BY <1>1, <1>2, PTL DEF Spec

-----------------------------------------------------------------------------
(* No record is skipped.  The parts of NoGap, for one worker each.         *)

Idle(w) == loop[w] # "dispatch" => batch[w] = {}

Seen(w) ==
  \A p \in Partitions, o \in Offsets :
    /\ o \in wm[w][p].in_flight => o <= wm[w][p].last_seen
    /\ o <= wm[w][p].last_seen =>
         <<p, o>> \in processed \/ o \in wm[w][p].in_flight

Reached(w) ==
  \A p \in Partitions, o \in Offsets :
    owner[p] = w /\ o < position[w][p] => Held(w, p, o)

Queued(w) ==
  \A p \in Partitions, o \in Offsets, q \in Offsets :
    <<p, q>> \in batch[w] /\ o < q => Held(w, p, o)

Behind(w) ==
  \A c \in committing[w] : \A o \in Offsets : o <= c.at => <<c.p, o>> \in processed

Parts(w) == Idle(w) /\ Seen(w) /\ Reached(w) /\ Queued(w) /\ Behind(w)

(* NoGap is the conjunction of the parts, worker by worker ... *)
LEMMA NoGapParts == NoGap <=> \A w \in Workers : Parts(w)
BY DEF NoGap, Parts, Idle, Seen, Reached, Queued, Behind

(* ... and so it is after a step. *)
LEMMA NoGapPartsNext == NoGap' <=> \A w \in Workers : Parts(w)'
BY DEF NoGap, Parts, Idle, Seen, Reached, Queued, Behind, Held

(* A record is its partition and its offset. *)
LEMMA RecordFields ==
  ASSUME NEW r \in Records
  PROVE  r[1] \in Partitions /\ r[2] \in Offsets /\ r = <<r[1], r[2]>>
BY DEF Records

(* A worker keeps its parts when a step adds at most processed records,    *)
(* drops at most commits, and gives it no partition.                       *)
LEMMA KeepsParts ==
  ASSUME NEW w \in Workers, Parts(w),
         wm'[w] = wm[w], batch'[w] = batch[w], loop'[w] = loop[w],
         committing'[w] \subseteq committing[w], processed \subseteq processed',
         \A p \in Partitions :
           owner'[p] = w => owner[p] = w /\ position'[w][p] = position[w][p]
  PROVE  Parts(w)'
<1>1. \A p \in Partitions, o \in Offsets : Held(w, p, o) => Held(w, p, o)'
  BY DEF Held
<1>2. Idle(w)'
  BY DEF Parts, Idle
<1>3. Seen(w)'
  BY DEF Parts, Seen
<1>4. Reached(w)'
  BY <1>1 DEF Parts, Reached
<1>5. Queued(w)'
  BY <1>1 DEF Parts, Queued
<1>6. Behind(w)'
  BY DEF Parts, Behind
<1>. QED BY <1>2, <1>3, <1>4, <1>5, <1>6 DEF Parts

(* A worker that starts afresh holds nothing. *)
LEMMA ExitParts ==
  ASSUME TypeOK, NEW w \in Workers, Exit(w)
  PROVE  Parts(w)'
<1>1. /\ loop'[w] = "down" /\ batch'[w] = {} /\ committing'[w] = {}
      /\ wm'[w] = FreshWatermarks
      /\ \A p \in Partitions : owner'[p] # w
  BY DEF Exit, TypeOK
<1>2. \A p \in Partitions : wm'[w][p].in_flight = {} /\ wm'[w][p].last_seen = -1
  BY <1>1 DEF FreshWatermarks, Fresh
<1>. QED BY <1>1, <1>2 DEF Parts, Idle, Seen, Reached, Queued, Behind, Offsets

(* A poll returns a run of records from each position, so it leaves no gap. *)
LEMMA GetManyParts ==
  ASSUME TypeOK, NEW w \in Workers, Parts(w), GetMany(w)
  PROVE  Parts(w)'
<1>1. PICK pos \in Polls(w) :
        /\ batch' = [batch EXCEPT ![w] = Fetched(w, pos)]
        /\ position' = [position EXCEPT ![w] = pos]
  BY DEF GetMany
<1>2. batch[w] = {}
  BY DEF GetMany, Parts, Idle
<1>3. /\ batch'[w] = Fetched(w, pos) /\ position'[w] = pos
      /\ wm' = wm /\ processed' = processed /\ owner' = owner
      /\ committing' = committing
      /\ loop'[w] = IF batch'[w] = {} THEN "check" ELSE "dispatch"
  BY <1>1 DEF GetMany, TypeOK, broker, ghosts
<1>4. \A p \in Partitions : position[w][p] \in 0 .. N
  BY DEF TypeOK
<1>5. \A p \in Partitions :
        /\ pos[p] \in 0 .. N
        /\ owner[p] = w => position[w][p] <= pos[p]
        /\ owner[p] # w => pos[p] = position[w][p]
  BY DEF Polls
<1>6. \A p \in Partitions, o \in Offsets :
        <<p, o>> \in Fetched(w, pos) <=> position[w][p] <= o /\ o < pos[p]
  BY DEF Fetched, Records
<1>7. ASSUME NEW p \in Partitions, NEW o \in Offsets, owner[p] = w, o < pos[p]
      PROVE  Held(w, p, o)'
  <2>1. CASE o < position[w][p]
    BY <1>2, <1>3, <1>7, <2>1 DEF Parts, Reached, Held
  <2>2. CASE ~ (o < position[w][p])
    <3>1. <<p, o>> \in Fetched(w, pos)
      BY <1>4, <1>6, <1>7, <2>2 DEF Offsets
    <3>. QED BY <1>3, <3>1 DEF Held
  <2>. QED BY <2>1, <2>2
<1>8. Idle(w)'
  BY <1>3 DEF Idle
<1>9. Seen(w)' /\ Behind(w)'
  BY <1>3 DEF Parts, Seen, Behind
<1>10. Reached(w)'
  BY <1>3, <1>7 DEF Reached
<1>11. Queued(w)'
  <2>1. SUFFICES ASSUME NEW p \in Partitions, NEW o \in Offsets, NEW q \in Offsets,
                        <<p, q>> \in batch'[w], o < q
                 PROVE  Held(w, p, o)'
    BY DEF Queued
  <2>2. position[w][p] <= q /\ q < pos[p]
    BY <1>3, <1>6, <2>1
  <2>3. owner[p] = w
    BY <1>4, <1>5, <2>2 DEF Offsets
  <2>4. o < pos[p]
    BY <1>5, <2>1, <2>2 DEF Offsets
  <2>. QED BY <1>7, <2>3, <2>4
<1>. QED BY <1>8, <1>9, <1>10, <1>11 DEF Parts

(* The oldest record of a partition moves from the batch to the watermark. *)
LEMMA DispatchParts ==
  ASSUME TypeOK, NEW w \in Workers, Parts(w), NEW r \in Records, Dispatch(w, r)
  PROVE  Parts(w)'
<1>. DEFINE p0 == r[1]
            o0 == r[2]
<1>1. p0 \in Partitions /\ o0 \in Offsets /\ r = <<p0, o0>>
  BY RecordFields
<1>. HIDE DEF p0, o0
<1>2. /\ r \in batch[w] /\ batch'[w] = batch[w] \ {r}
      /\ processed' = processed /\ owner' = owner /\ position' = position
      /\ committing' = committing
      /\ loop[w] = "dispatch"
      /\ loop'[w] = IF batch'[w] = {} THEN "check" ELSE "dispatch"
  BY DEF Dispatch, TypeOK, broker, ghosts
<1>3. /\ wm'[w][p0] = Start(wm[w][p0], o0)
      /\ \A p \in Partitions : p # p0 => wm'[w][p] = wm[w][p]
  BY <1>1 DEF Dispatch, TypeOK, p0, o0
<1>4. /\ wm'[w][p0].in_flight = wm[w][p0].in_flight \cup {o0}
      /\ wm'[w][p0].last_seen =
           IF o0 > wm[w][p0].last_seen THEN o0 ELSE wm[w][p0].last_seen
      /\ wm[w][p0].last_seen \in -1 .. N - 1
  BY <1>1, <1>3, TypeOfWm, StartType DEF Offsets, WatermarkUpTo
<1>5. \A p \in Partitions, o \in Offsets : Held(w, p, o) => Held(w, p, o)'
  BY <1>1, <1>2, <1>3, <1>4 DEF Held
<1>6. \A o \in Offsets : o < o0 => <<p0, o>> \notin batch[w]
  <2>1. \A q \in batch[w] : q[1] = p0 => o0 <= q[2]
    BY DEF Dispatch, NextOfItsPartition, p0, o0
  <2>2. ASSUME NEW o \in Offsets, o < o0, <<p0, o>> \in batch[w] PROVE FALSE
    <3>1. o0 <= <<p0, o>>[2]
      BY <2>1, <2>2
    <3>. QED BY <1>1, <2>2, <3>1 DEF Offsets
  <2>. QED BY <2>2
<1>7. \A o \in Offsets :
        o < o0 => <<p0, o>> \in processed \/ o \in wm[w][p0].in_flight
  BY <1>1, <1>2, <1>6 DEF Parts, Queued, Held
<1>8. Idle(w)'
  BY <1>2 DEF Idle
<1>9. Seen(w)'
  <2>1. ASSUME NEW o \in Offsets
        PROVE  /\ o \in wm'[w][p0].in_flight => o <= wm'[w][p0].last_seen
               /\ o <= wm'[w][p0].last_seen =>
                    <<p0, o>> \in processed \/ o \in wm'[w][p0].in_flight
    <3>1. /\ o \in wm[w][p0].in_flight => o <= wm[w][p0].last_seen
          /\ o <= wm[w][p0].last_seen =>
               <<p0, o>> \in processed \/ o \in wm[w][p0].in_flight
      BY <1>1 DEF Parts, Seen
    <3>2. o < o0 \/ o = o0 \/ o > o0
      BY <1>1 DEF Offsets
    <3>. QED BY <1>1, <1>4, <1>7, <3>1, <3>2 DEF Offsets
  <2>. QED BY <1>2, <1>3, <2>1 DEF Parts, Seen
<1>10. Reached(w)'
  BY <1>2, <1>5 DEF Parts, Reached
<1>11. Queued(w)'
  BY <1>2, <1>5 DEF Parts, Queued
<1>12. Behind(w)'
  BY <1>2 DEF Parts, Behind
<1>. QED BY <1>8, <1>9, <1>10, <1>11, <1>12 DEF Parts

(* A task that ends well may commit up to the candidate of its watermark. *)
LEMMA AdvanceParts ==
  ASSUME TypeOK, NEW w \in Workers, Parts(w), NEW r \in Records, Advance(w, r)
  PROVE  Parts(w)'
<1>. DEFINE p0 == r[1]
            o0 == r[2]
<1>1. p0 \in Partitions /\ o0 \in Offsets /\ r = <<p0, o0>>
  BY RecordFields
<1>. HIDE DEF p0, o0
<1>2. /\ processed' = processed \cup {r} /\ owner' = owner /\ position' = position
      /\ batch' = batch /\ loop' = loop
      /\ committing'[w] = committing[w] \cup
           {[p |-> p0, at |-> c] : c \in CommitAt(wm[w][p0], o0)}
  BY <1>1 DEF Advance, TypeOK, broker, ghosts, p0, o0
<1>3. /\ wm'[w][p0] = Done(wm[w][p0], o0)
      /\ \A p \in Partitions : p # p0 => wm'[w][p] = wm[w][p]
  BY <1>1 DEF Advance, TypeOK, p0, o0
<1>4. /\ wm[w][p0] \in WatermarkUpTo(N)
      /\ wm'[w][p0].in_flight = wm[w][p0].in_flight \ {o0}
      /\ wm'[w][p0].last_seen = wm[w][p0].last_seen
  BY <1>1, <1>3, TypeOfWm, DoneType DEF Offsets
<1>5. \A p \in Partitions, o \in Offsets : Held(w, p, o) => Held(w, p, o)'
  BY <1>1, <1>2, <1>3, <1>4 DEF Held
<1>6. Idle(w)'
  BY <1>2 DEF Parts, Idle
<1>7. Seen(w)'
  BY <1>1, <1>2, <1>3, <1>4 DEF Parts, Seen
<1>8. Reached(w)' /\ Queued(w)'
  BY <1>2, <1>5 DEF Parts, Reached, Queued
<1>9. Behind(w)'
  <2>1. ASSUME NEW c \in CommitAt(wm[w][p0], o0), NEW o \in Offsets, o <= c
        PROVE  <<p0, o>> \in processed'
    <3>1. \A q \in wm[w][p0].in_flight : q <= wm[w][p0].last_seen
      BY <1>1, <1>4 DEF Parts, Seen, WatermarkUpTo, Offsets
    <3>2. o = o0 \/ (o \notin wm[w][p0].in_flight /\ o <= wm[w][p0].last_seen)
      BY <1>1, <1>4, <2>1, <3>1, CommitAtIsBehind DEF Offsets
    <3>. QED BY <1>1, <1>2, <3>2 DEF Parts, Seen
  <2>. QED BY <1>2, <2>1 DEF Parts, Behind
<1>. QED BY <1>6, <1>7, <1>8, <1>9 DEF Parts

(* A rebalance restarts every position behind processed records. *)
LEMMA AssignParts ==
  ASSUME TypeOK, CommittedProcessed, NEW w \in Workers, Parts(w),
         NEW new \in [Partitions -> Live], Assign(new)
  PROVE  Parts(w)'
<1>1. \A p \in Partitions : owner'[p] = w => position'[w][p] = committed[p]
  BY DEF Assign
<1>2. Reached(w)'
  BY <1>1 DEF Assign, Reached, Held, CommittedProcessed, ghosts
<1>3. Idle(w)' /\ Seen(w)' /\ Queued(w)' /\ Behind(w)'
  BY DEF Assign, Parts, Idle, Seen, Queued, Behind, Held, ghosts
<1>. QED BY <1>2, <1>3 DEF Parts

(* Every step keeps NoGap, given types and CommittedProcessed. *)
LEMMA NoGapStep ==
  ASSUME TypeOK, CommittedProcessed, NoGap, [Next]_vars
  PROVE  NoGap'
<1>. SUFFICES ASSUME NEW x \in Workers PROVE Parts(x)'
  BY NoGapPartsNext
<1>0. Parts(x)
  BY NoGapParts
<1>1. ASSUME NEW w \in Workers, Exit(w), UNCHANGED processed PROVE Parts(x)'
  <2>1. CASE x = w
    BY <1>1, <2>1, ExitParts
  <2>2. CASE x # w
    <3>1. /\ wm'[x] = wm[x] /\ batch'[x] = batch[x] /\ loop'[x] = loop[x]
          /\ committing'[x] = committing[x] /\ position'[x] = position[x]
          /\ \A p \in Partitions : owner'[p] = x => owner[p] = x
      BY <1>1, <2>2 DEF Exit, TypeOK
    <3>. QED BY <1>0, <1>1, <3>1, KeepsParts
  <2>. QED BY <2>1, <2>2
<1>2. ASSUME NEW w \in Workers, CheckFatal(w) PROVE Parts(x)'
  <2>1. /\ loop' = [loop EXCEPT ![w] = "fetch"] /\ loop[w] = "check"
        /\ wm' = wm /\ batch' = batch /\ committing' = committing
        /\ processed' = processed /\ owner' = owner /\ position' = position
    BY <1>2 DEF CheckFatal, broker, ghosts
  <2>2. Idle(x)'
    BY <1>0, <2>1 DEF Parts, Idle, TypeOK
  <2>. QED BY <1>0, <2>1, <2>2 DEF Parts, Seen, Reached, Queued, Behind, Held
<1>3. ASSUME NEW w \in Workers, GetMany(w) PROVE Parts(x)'
  <2>1. CASE x = w
    BY <1>0, <1>3, <2>1, GetManyParts
  <2>2. CASE x # w
    BY <1>0, <1>3, <2>2, KeepsParts DEF GetMany, TypeOK, broker, ghosts
  <2>. QED BY <2>1, <2>2
<1>4. ASSUME NEW w \in Workers, NEW r \in Records, Dispatch(w, r) PROVE Parts(x)'
  <2>1. CASE x = w
    BY <1>0, <1>4, <2>1, DispatchParts
  <2>2. CASE x # w
    BY <1>0, <1>4, <2>2, KeepsParts DEF Dispatch, TypeOK, broker, ghosts
  <2>. QED BY <2>1, <2>2
<1>5. ASSUME NEW w \in Workers, NEW r \in Records, Advance(w, r) PROVE Parts(x)'
  <2>1. CASE x = w
    BY <1>0, <1>5, <2>1, AdvanceParts
  <2>2. CASE x # w
    BY <1>0, <1>5, <2>2, KeepsParts DEF Advance, TypeOK, broker, ghosts
  <2>. QED BY <2>1, <2>2
<1>6. ASSUME NEW w \in Workers, NEW r \in Records, Fail(w, r) PROVE Parts(x)'
  BY <1>0, <1>6, KeepsParts DEF Fail, broker, ghosts
<1>7. ASSUME NEW w \in Workers, NEW c \in committing[w],
             CommitLands(w, c) \/ CommitFails(w, c)
      PROVE  Parts(x)'
  <2>1. /\ committing' = [committing EXCEPT ![w] = @ \ {c}]
        /\ wm' = wm /\ batch' = batch /\ loop' = loop
        /\ processed' = processed /\ owner' = owner /\ position' = position
    BY <1>7 DEF CommitLands, CommitFails, broker, ghosts
  <2>2. committing'[x] \subseteq committing[x]
    BY <2>1 DEF TypeOK
  <2>. QED BY <1>0, <2>1, <2>2, KeepsParts
<1>8. ASSUME NEW w \in Workers, Restart(w) PROVE Parts(x)'
  <2>1. /\ loop' = [loop EXCEPT ![w] = "check"] /\ loop[w] = "down"
        /\ wm' = wm /\ batch' = batch /\ committing' = committing
        /\ processed' = processed /\ owner' = owner /\ position' = position
    BY <1>8 DEF Restart, broker, ghosts
  <2>2. Idle(x)'
    BY <1>0, <2>1 DEF Parts, Idle, TypeOK
  <2>. QED BY <1>0, <2>1, <2>2 DEF Parts, Seen, Reached, Queued, Behind, Held
<1>9. ASSUME Rebalance PROVE Parts(x)'
  BY <1>0, <1>9, AssignParts DEF Rebalance
<1>10. CASE UNCHANGED vars
  BY <1>0, <1>10, KeepsParts DEF vars, local, broker, ghosts
<1>11. ASSUME NEW w \in Workers, RaiseFatal(w) \/ Crash(w) PROVE Parts(x)'
  BY <1>1, <1>11 DEF RaiseFatal, Crash, ghosts
<1>12. ASSUME Unsettle PROVE Parts(x)'
  BY <1>0, <1>12, KeepsParts DEF Unsettle, local, ghosts
<1>. QED BY <1>2, <1>3, <1>4, <1>5, <1>6, <1>7, <1>8, <1>9, <1>10, <1>11, <1>12 DEF Next

(* Only a commit that lands moves a committed offset, and processed records *)
(* stay processed.                                                         *)
LEMMA CommittedStep ==
  ASSUME TypeOK, CommittedProcessed, NoGap, [Next]_vars
  PROVE  CommittedProcessed'
<1>1. ASSUME NEW w \in Workers, NEW c \in committing[w], CommitLands(w, c)
      PROVE  CommittedProcessed'
  <2>1. c.p \in Partitions /\ c.at \in Offsets
    BY <1>1 DEF TypeOK
  <2>2. /\ committed' = [committed EXCEPT ![c.p] = c.at + 1]
        /\ processed' = processed
    BY <1>1 DEF CommitLands, NextToFetch
  <2>3. \A o \in Offsets : o < c.at + 1 => <<c.p, o>> \in processed
    BY <1>1, <2>1 DEF NoGap, Offsets
  <2>. QED BY <2>1, <2>2, <2>3 DEF CommittedProcessed, TypeOK
<1>2. ASSUME UNCHANGED committed, processed \subseteq processed'
      PROVE  CommittedProcessed'
  BY <1>2 DEF CommittedProcessed
<1>3. CASE UNCHANGED vars
  BY <1>2, <1>3 DEF vars, broker, ghosts
<1>. QED BY <1>1, <1>2, <1>3
         DEF Next, RaiseFatal, CheckFatal, GetMany, Dispatch, Advance, Fail,
             CommitFails, Crash, Restart, Rebalance, Assign, Unsettle, broker, ghosts

IInv == TypeOK /\ CommittedProcessed /\ NoGap

(* The inductive invariant holds at first ... *)
LEMMA InvariantInit == Init => IInv
<1>. SUFFICES ASSUME Init PROVE IInv
  OBVIOUS
<1>1. TypeOK
  BY TypeInit
<1>2. CommittedProcessed
  BY DEF Init, CommittedProcessed, Offsets
<1>3. \A w \in Workers, p \in Partitions :
        wm[w][p].in_flight = {} /\ wm[w][p].last_seen = -1
  BY DEF Init, FreshWatermarks, Fresh
<1>4. NoGap
  BY <1>3 DEF Init, NoGap, Offsets
<1>. QED BY <1>1, <1>2, <1>4 DEF IInv

(* ... and every step keeps it. *)
LEMMA InvariantStep == IInv /\ [Next]_vars => IInv'
BY TypeStep, CommittedStep, NoGapStep DEF IInv

(* So it holds in every reachable state of the worker pool. *)
THEOREM Invariant == Spec => []IInv
BY InvariantInit, InvariantStep, PTL DEF Spec

(* The positions, batches, watermarks and pending commits of the workers   *)
(* leave no gap behind them: the inductive invariant of the pool.          *)
THEOREM WorkersLeaveNoGap == Spec => []NoGap
<1>1. IInv => NoGap
  BY DEF IInv
<1>. QED BY <1>1, Invariant, PTL

(* No record is skipped: however many workers share the partitions, in     *)
(* whatever order their tasks end and their commits land, and whatever     *)
(* crashes, errors and rebalances happen, a committed offset stands behind *)
(* processed records only (PartitionWatermark, run_delivery_loop).         *)
THEOREM NoRecordSkipped == Spec => []CommittedProcessed
<1>1. IInv => CommittedProcessed
  BY DEF IInv
<1>. QED BY <1>1, Invariant, PTL

-----------------------------------------------------------------------------
(* The pool implements the at-least-once log.                              *)

(* The pool starts where the at-least-once log starts. *)
LEMMA LogInit == Init => Log!Init
BY DEF Init, Log!Init

(* Each of its steps is a step of the log, or none. *)
LEMMA LogStep ==
  ASSUME TypeOK, NoGap, [Next]_vars
  PROVE  [Log!Next]_(Log!vars)
<1>1. ASSUME NEW w \in Workers, NEW r \in Records, Advance(w, r)
      PROVE  Log!Next
  <2>1. r[1] \in Partitions /\ r[2] \in Offsets /\ r = <<r[1], r[2]>>
    BY RecordFields
  <2>2. Log!Process(r[1], r[2])
    BY <1>1, <2>1 DEF Advance, broker, ghosts, Log!Process
  <2>. QED BY <2>1, <2>2 DEF Log!Next
<1>2. ASSUME NEW w \in Workers, NEW c \in committing[w], CommitLands(w, c)
      PROVE  Log!Next
  <2>1. c.p \in Partitions /\ c.at \in Offsets
    BY <1>2 DEF TypeOK
  <2>2. Log!Commit(c.p, c.at)
    BY <1>2 DEF NoGap, CommitLands, NextToFetch, Log!Commit
  <2>. QED BY <2>1, <2>2 DEF Log!Next
<1>3. CASE UNCHANGED vars
  BY <1>3 DEF vars, broker, ghosts, Log!vars
<1>. QED BY <1>1, <1>2, <1>3
         DEF Next, RaiseFatal, CheckFatal, GetMany, Dispatch, Fail, CommitFails, Crash,
             Restart, Rebalance, Assign, Unsettle, broker, ghosts, Log!vars

(* The worker pool implements the abstract at-least-once log: each task    *)
(* that ends well is a Process step, each commit that lands is a Commit    *)
(* step the log allows, and everything else is invisible to it.            *)
THEOREM Refinement == Spec => ImplementsAtLeastOnce
<1>1. IInv /\ [Next]_vars => [Log!Next]_(Log!vars)
  BY LogStep DEF IInv
<1>. QED BY <1>1, LogInit, Invariant, PTL DEF Spec, ImplementsAtLeastOnce, Log!Spec

-----------------------------------------------------------------------------
(* The semaphore.  That a permit is free or held by one task is inductive  *)
(* once the tasks of a worker are known to be finitely many.               *)

Balanced(w) ==
  /\ IsFiniteSet(Tasks(w))
  /\ permits[w] + Cardinality(Tasks(w)) = Concurrency

(* The tasks of a worker are the pairs of a record and a number no higher  *)
(* than the count of its tasks.                                            *)
LEMMA TaskIs ==
  ASSUME NEW w \in Workers, NEW x
  PROVE  x \in Tasks(w) <=>
           \E r \in Records : \E i \in 1 .. running[w][r] : x = <<r, i>>
BY DEF Tasks

(* The same after a step. *)
LEMMA TaskIsNext ==
  ASSUME NEW w \in Workers, NEW x
  PROVE  x \in Tasks(w)' <=>
           \E r \in Records : \E i \in 1 .. running'[w][r] : x = <<r, i>>
BY DEF Tasks

(* A worker no task of which starts or ends keeps its balance. *)
LEMMA KeepsBalance ==
  ASSUME NEW w \in Workers, Balanced(w),
         running'[w] = running[w], permits'[w] = permits[w]
  PROVE  Balanced(w)'
<1>1. Tasks(w)' = Tasks(w)
  BY DEF Tasks
<1>. QED BY <1>1 DEF Balanced

(* A worker without tasks has all its permits. *)
LEMMA AllPermitsFree ==
  ASSUME NEW w \in Workers, running[w] = NoTasks, permits[w] = Concurrency
  PROVE  Balanced(w)
<1>1. ASSUME NEW x \in Tasks(w) PROVE FALSE
  <2>1. PICK r \in Records : \E i \in 1 .. running[w][r] : x = <<r, i>>
    BY <1>1, TaskIs
  <2>2. running[w][r] = 0
    BY DEF NoTasks
  <2>. QED BY <2>1, <2>2
<1>2. Tasks(w) = {}
  BY <1>1
<1>. QED BY <1>2, FS_EmptySet DEF Balanced

(* So has a worker that exits (RaiseFatal, Crash); the others go on. *)
LEMMA ExitBalanced ==
  ASSUME TypeOK, NEW w \in Workers, Exit(w), \A v \in Workers : Balanced(v)
  PROVE  \A v \in Workers : Balanced(v)'
<1>1. ASSUME NEW v \in Workers, v # w PROVE Balanced(v)'
  <2>1. running'[v] = running[v] /\ permits'[v] = permits[v]
    BY <1>1 DEF Exit, TypeOK
  <2>. QED BY <2>1, KeepsBalance
<1>2. Balanced(w)'
  <2>1. running'[w] = NoTasks /\ permits'[w] = Concurrency
    BY DEF Exit, TypeOK
  <2>2. ASSUME NEW x \in Tasks(w)' PROVE FALSE
    <3>1. PICK r \in Records : \E i \in 1 .. running'[w][r] : x = <<r, i>>
      BY <2>2, TaskIsNext
    <3>2. running'[w][r] = 0
      BY <2>1 DEF NoTasks
    <3>. QED BY <3>1, <3>2
  <2>3. Tasks(w)' = {}
    BY <2>2
  <2>. QED BY <2>1, <2>3, FS_EmptySet DEF Balanced
<1>. QED BY <1>1, <1>2

(* A task that starts takes one permit. *)
LEMMA DispatchBalanced ==
  ASSUME TypeOK, NEW w \in Workers, NEW r \in Records, Dispatch(w, r),
         \A v \in Workers : Balanced(v)
  PROVE  \A v \in Workers : Balanced(v)'
<1>1. ASSUME NEW v \in Workers, v # w PROVE Balanced(v)'
  <2>1. running'[v] = running[v] /\ permits'[v] = permits[v]
    BY <1>1 DEF Dispatch, TypeOK
  <2>. QED BY <2>1, KeepsBalance
<1>. DEFINE n == running[w][r]
            x == <<r, n + 1>>
<1>2. /\ n \in Nat /\ permits[w] \in Nat
      /\ running'[w][r] = n + 1
      /\ \A q \in Records : q # r => running'[w][q] = running[w][q]
      /\ permits'[w] = permits[w] - 1
  BY DEF Dispatch, TypeOK
<1>3. Tasks(w)' = Tasks(w) \cup {x}
  <2>1. ASSUME NEW y \in Tasks(w)' PROVE y \in Tasks(w) \cup {x}
    <3>1. PICK q \in Records, i \in Int : i \in 1 .. running'[w][q] /\ y = <<q, i>>
      BY <2>1, TaskIsNext
    <3>2. CASE q # r
      BY <1>2, <3>1, <3>2, TaskIs
    <3>3. CASE q = r
      <4>1. i \in 1 .. n \/ i = n + 1
        BY <1>2, <3>1, <3>3
      <4>. QED BY <3>1, <3>3, <4>1, TaskIs
    <3>. QED BY <3>2, <3>3
  <2>2. ASSUME NEW y \in Tasks(w) PROVE y \in Tasks(w)'
    <3>1. PICK q \in Records, i \in Int : i \in 1 .. running[w][q] /\ y = <<q, i>>
      BY <2>2, TaskIs
    <3>2. i \in 1 .. running'[w][q]
      BY <1>2, <3>1
    <3>. QED BY <3>1, <3>2, TaskIsNext
  <2>3. x \in Tasks(w)'
    <3>1. n + 1 \in 1 .. running'[w][r]
      BY <1>2
    <3>. QED BY <3>1, TaskIsNext
  <2>. QED BY <2>1, <2>2, <2>3
<1>4. x \notin Tasks(w)
  <2>1. ASSUME x \in Tasks(w) PROVE FALSE
    <3>1. PICK q \in Records, i \in Int : i \in 1 .. running[w][q] /\ x = <<q, i>>
      BY <2>1, TaskIs
    <3>2. q = r /\ i = n + 1
      BY <3>1
    <3>. QED BY <1>2, <3>1, <3>2
  <2>. QED BY <2>1
<1>5. /\ IsFiniteSet(Tasks(w)')
      /\ Cardinality(Tasks(w)') = Cardinality(Tasks(w)) + 1
  <2>1. IsFiniteSet(Tasks(w))
    BY DEF Balanced
  <2>. HIDE DEF x
  <2>. QED BY <1>3, <1>4, <2>1, FS_AddElement
<1>6. Cardinality(Tasks(w)) \in Nat
  BY FS_CardinalityType DEF Balanced
<1>7. Balanced(w)'
  BY <1>2, <1>5, <1>6 DEF Balanced
<1>. QED BY <1>1, <1>7

(* A task that ends, well or not, gives its permit back. *)
LEMMA TaskEndsBalanced ==
  ASSUME TypeOK, NEW w \in Workers, NEW r \in Records, TaskEnds(w, r),
         \A v \in Workers : Balanced(v)
  PROVE  \A v \in Workers : Balanced(v)'
<1>1. ASSUME NEW v \in Workers, v # w PROVE Balanced(v)'
  <2>1. running'[v] = running[v] /\ permits'[v] = permits[v]
    BY <1>1 DEF TaskEnds, TypeOK
  <2>. QED BY <2>1, KeepsBalance
<1>. DEFINE n == running[w][r]
            x == <<r, n>>
<1>2. /\ n \in Nat /\ n > 0 /\ permits[w] \in Nat
      /\ running'[w][r] = n - 1
      /\ \A q \in Records : q # r => running'[w][q] = running[w][q]
      /\ permits'[w] = permits[w] + 1
  BY DEF TaskEnds, TypeOK
<1>3. Tasks(w)' = Tasks(w) \ {x}
  <2>1. ASSUME NEW y \in Tasks(w)' PROVE y \in Tasks(w) \ {x}
    <3>1. PICK q \in Records, i \in Int : i \in 1 .. running'[w][q] /\ y = <<q, i>>
      BY <2>1, TaskIsNext
    <3>2. i \in 1 .. running[w][q] /\ (q = r => i # n)
      BY <1>2, <3>1
    <3>3. y # x
      BY <3>1, <3>2
    <3>. QED BY <3>1, <3>2, <3>3, TaskIs
  <2>2. ASSUME NEW y \in Tasks(w), y # x PROVE y \in Tasks(w)'
    <3>1. PICK q \in Records, i \in Int : i \in 1 .. running[w][q] /\ y = <<q, i>>
      BY <2>2, TaskIs
    <3>2. i \in 1 .. running'[w][q]
      BY <1>2, <2>2, <3>1
    <3>. QED BY <3>1, <3>2, TaskIsNext
  <2>. QED BY <2>1, <2>2
<1>4. x \in Tasks(w)
  <2>1. n \in 1 .. running[w][r]
    BY <1>2
  <2>. QED BY <2>1, TaskIs
<1>5. /\ IsFiniteSet(Tasks(w)')
      /\ Cardinality(Tasks(w)') = Cardinality(Tasks(w)) - 1
  <2>1. IsFiniteSet(Tasks(w))
    BY DEF Balanced
  <2>. HIDE DEF x
  <2>. QED BY <1>3, <1>4, <2>1, FS_RemoveElement
<1>6. Cardinality(Tasks(w)) \in Nat
  BY FS_CardinalityType DEF Balanced
<1>7. Balanced(w)'
  BY <1>2, <1>5, <1>6 DEF Balanced
<1>. QED BY <1>1, <1>7

(* Every step keeps every semaphore in balance. *)
LEMMA BalanceStep ==
  ASSUME TypeOK, \A v \in Workers : Balanced(v), [Next]_vars
  PROVE  \A v \in Workers : Balanced(v)'
<1>1. ASSUME NEW w \in Workers, RaiseFatal(w) \/ Crash(w)
      PROVE  \A v \in Workers : Balanced(v)'
  BY <1>1, ExitBalanced DEF RaiseFatal, Crash
<1>2. ASSUME NEW w \in Workers, NEW r \in Records, Dispatch(w, r)
      PROVE  \A v \in Workers : Balanced(v)'
  BY <1>2, DispatchBalanced
<1>3. ASSUME NEW w \in Workers, NEW r \in Records, Advance(w, r) \/ Fail(w, r)
      PROVE  \A v \in Workers : Balanced(v)'
  BY <1>3, TaskEndsBalanced DEF Advance, Fail
<1>4. ASSUME running' = running, permits' = permits
      PROVE  \A v \in Workers : Balanced(v)'
  BY <1>4, KeepsBalance
<1>5. ASSUME NEW w \in Workers, CheckFatal(w) \/ GetMany(w) \/ Restart(w)
      PROVE  running' = running /\ permits' = permits
  BY <1>5 DEF CheckFatal, GetMany, Restart
<1>6. ASSUME NEW w \in Workers, NEW c \in committing[w],
             CommitLands(w, c) \/ CommitFails(w, c)
      PROVE  running' = running /\ permits' = permits
  BY <1>6 DEF CommitLands, CommitFails
<1>7. Rebalance \/ Unsettle => running' = running /\ permits' = permits
  BY DEF Rebalance, Assign, Unsettle, local
<1>8. UNCHANGED vars => running' = running /\ permits' = permits
  BY DEF vars, local
<1>. QED BY <1>1, <1>2, <1>3, <1>4, <1>5, <1>6, <1>7, <1>8 DEF Next

(* No permit of a worker's semaphore is ever lost or made up, through      *)
(* failures of tasks, crashes and rebalances, so the dispatch loop, which  *)
(* waits for a permit before it looks at the fatal error, waits for tasks  *)
(* that really run (the finally block of _process_record).                 *)
THEOREM SemaphoreBalances == Spec => []PermitsBalanced
<1>1. Init => \A v \in Workers : Balanced(v)
  <2>1. ASSUME Init, NEW v \in Workers
        PROVE  running[v] = NoTasks /\ permits[v] = Concurrency
    BY <2>1 DEF Init
  <2>. QED BY <2>1, AllPermitsFree
<1>2. TypeOK /\ (\A v \in Workers : Balanced(v)) /\ [Next]_vars
        => (\A v \in Workers : Balanced(v))'
  BY BalanceStep
<1>3. (\A v \in Workers : Balanced(v)) => PermitsBalanced
  BY DEF Balanced, PermitsBalanced
<1>. QED BY <1>1, <1>2, <1>3, TypeCorrect, PTL DEF Spec

=============================================================================
