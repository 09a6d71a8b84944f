---------------------------- MODULE DeliveryLoop ----------------------------
(***************************************************************************)
(* The consumer side of the worker pool: run_delivery_loop of              *)
(* worker/delivery.py in every worker of one Kafka consumer group.         *)
(*                                                                         *)
(* A worker loops: it looks at the fatal error a task may have left, polls *)
(* a batch, and turns each record into an asyncio task under a semaphore.  *)
(* Tasks end in any order.  A task that ends well marks its offset done in *)
(* the watermark of its partition and may start a commit, which is an      *)
(* await of its own: several can be under way, and nothing orders them.    *)
(* A task that meets an infrastructure error leaves the fatal error behind *)
(* and its offset in flight.                                               *)
(*                                                                         *)
(* What a task does with its record (the delivery itself) is module        *)
(* Delivery; here it ends well or it does not.  Each step of a worker runs *)
(* from one await to the next, so it is one action.                        *)
(***************************************************************************)
EXTENDS PartitionWatermark

CONSTANTS
  Workers,             \* worker processes of the group
  Partitions,          \* partitions of the pending topic
  N,                   \* each partition holds the offsets 0 .. N-1
  Kind,                \* what the record at <<partition, offset>> looks like
  Concurrency,         \* settings.worker_concurrency
  NoWorker,            \* owner of a partition nobody is assigned to
  MaxFaults,           \* bound: crashes and infrastructure errors
  MaxCommitFailures,   \* bound: commit calls that raise
  MaxRebalances        \* bound: rebalances that no member's exit or start forces

Offsets == 0 .. N - 1
Records == Partitions \X Offsets

(* wellformed  parses                                                      *)
(* malformed   raises KeyError or ValueError while parsing: a poison pill  *)
(* illtyped    raises TypeError or AttributeError while parsing            *)
RecordKinds == {"wellformed", "malformed", "illtyped"}

ASSUME NAssumption == N \in Nat
ASSUME KindAssumption == Kind \in [Records -> RecordKinds]
ASSUME ConcurrencyAssumption == Concurrency \in Nat \ {0}
ASSUME NoWorkerAssumption == NoWorker \notin Workers
ASSUME BoundsAssumption ==
  MaxFaults \in Nat /\ MaxCommitFailures \in Nat /\ MaxRebalances \in Nat

VARIABLES
  committed,       \* broker: the group's committed offset, by partition
  owner,           \* broker: the group's current assignment
  rejoin,          \* broker: the membership changed, a rebalance is to follow
  processed,       \* ghost: the records some task finished without an error
  setBack,         \* ghost: partitions a commit of which failed or came too late
  loop,            \* where each worker's loop stands
  fatal,           \* _fatal_exc is not None, by worker
  permits,         \* free permits of the worker's semaphore
  wm,              \* watermarks[tp], by worker
  position,        \* the consumer's next offset to fetch, by worker
  batch,           \* records polled and not yet dispatched, by worker
  running,         \* tasks inside _process_record, by worker and record
  committing,      \* commit_partition calls under way, by worker
  faults, commitFailures, rebalances       \* how much of each bound is spent

broker == <<committed, owner, rejoin>>
local  == <<loop, fatal, permits, wm, position, batch, running, committing>>
spent  == <<faults, commitFailures, rebalances>>
ghosts == <<processed, setBack>>
vars   == <<broker, ghosts, local, spent>>

LoopStates == {"down", "check", "fetch", "dispatch"}

Live == {w \in Workers : loop[w] # "down"}

(* max_records of the getmany call. *)
MaxRecords == 4 * Concurrency

NoTasks == [r \in Records |-> 0]
FreshWatermarks == [p \in Partitions |-> Fresh]

-----------------------------------------------------------------------------

(* auto_offset_reset="earliest": a group without commits starts at 0. *)
Init ==
  /\ committed = [p \in Partitions |-> 0]
  /\ owner = [p \in Partitions |-> NoWorker]
  /\ rejoin = TRUE
  /\ processed = {} /\ setBack = {}
  /\ loop = [w \in Workers |-> "check"]
  /\ fatal = [w \in Workers |-> FALSE]
  /\ permits = [w \in Workers |-> Concurrency]
  /\ wm = [w \in Workers |-> FreshWatermarks]
  /\ position = [w \in Workers |-> [p \in Partitions |-> 0]]
  /\ batch = [w \in Workers |-> {}]
  /\ running = [w \in Workers |-> NoTasks]
  /\ committing = [w \in Workers |-> {}]
  /\ faults = 0 /\ commitFailures = 0 /\ rebalances = 0

(* The process ends: its tasks, watermarks and commits under way go with   *)
(* it, and the broker finds the member gone and owes a rebalance.          *)
Exit(w) ==
  /\ loop' = [loop EXCEPT ![w] = "down"]
  /\ fatal' = [fatal EXCEPT ![w] = FALSE]
  /\ permits' = [permits EXCEPT ![w] = Concurrency]
  /\ wm' = [wm EXCEPT ![w] = FreshWatermarks]
  /\ position' = [position EXCEPT ![w] = [p \in Partitions |-> 0]]
  /\ batch' = [batch EXCEPT ![w] = {}]
  /\ running' = [running EXCEPT ![w] = NoTasks]
  /\ committing' = [committing EXCEPT ![w] = {}]
  /\ owner' = [p \in Partitions |-> IF owner[p] = w THEN NoWorker ELSE owner[p]]
  /\ rejoin' = TRUE

(* The head of the loop: raise what a task left behind (the task group     *)
(* cancels the other tasks and the process exits), or go on to poll.       *)
RaiseFatal(w) ==
  /\ loop[w] = "check" /\ fatal[w]
  /\ Exit(w)
  /\ UNCHANGED <<committed, ghosts, spent>>

CheckFatal(w) ==
  /\ loop[w] = "check" /\ ~fatal[w]
  /\ loop' = [loop EXCEPT ![w] = "fetch"]
  /\ UNCHANGED <<broker, ghosts, fatal, permits, wm, position, batch, running,
                 committing, spent>>

(* What a poll that moves the positions to pos returns. *)
Fetched(w, pos) ==
  {r \in Records : position[w][r[1]] <= r[2] /\ r[2] < pos[r[1]]}

(* Positions a poll can move to: only assigned partitions move, and only   *)
(* forward.                                                                *)
Polls(w) ==
  {pos \in [Partitions -> 0 .. N] :
     \A p \in Partitions :
       IF owner[p] = w THEN position[w][p] <= pos[p] ELSE pos[p] = position[w][p]}

(* getmany: any run of records from the position of each partition, up to  *)
(* max_records in all; none at all when the timeout passes.                *)
GetMany(w) ==
  /\ loop[w] = "fetch"
  /\ \E pos \in Polls(w) :
       /\ Cardinality(Fetched(w, pos)) <= MaxRecords
       /\ batch' = [batch EXCEPT ![w] = Fetched(w, pos)]
       /\ position' = [position EXCEPT ![w] = pos]
  /\ loop' = [loop EXCEPT ![w] = IF batch'[w] = {} THEN "check" ELSE "dispatch"]
  /\ UNCHANGED <<broker, ghosts, fatal, permits, wm, running, committing, spent>>

(* Within a partition records are dispatched by offset; the batch is a     *)
(* dict, and its partitions come in any order.                             *)
NextOfItsPartition(w, r) ==
  \A q \in batch[w] : q[1] = r[1] => r[2] <= q[2]

(* One turn of the inner loop: take a permit, start the offset, create the *)
(* task.  The code makes no check of the assignment or of the fatal error. *)
Dispatch(w, r) ==
  /\ loop[w] = "dispatch" /\ r \in batch[w]
  /\ NextOfItsPartition(w, r)
  /\ permits[w] > 0
  /\ permits' = [permits EXCEPT ![w] = @ - 1]
  /\ wm' = [wm EXCEPT ![w][r[1]] = Start(@, r[2])]
  /\ running' = [running EXCEPT ![w][r] = @ + 1]
  /\ batch' = [batch EXCEPT ![w] = @ \ {r}]
  /\ loop' = [loop EXCEPT ![w] = IF batch'[w] = {} THEN "check" ELSE "dispatch"]
  /\ UNCHANGED <<broker, ghosts, fatal, position, committing, spent>>

-----------------------------------------------------------------------------
(* The end of a task.                                                      *)

TaskEnds(w, r) ==
  /\ running[w][r] > 0
  /\ running' = [running EXCEPT ![w][r] = @ - 1]
  /\ permits' = [permits EXCEPT ![w] = @ + 1]

(* _process_record returned, or raised PoisonPillError: release, mark the  *)
(* offset done, and start the commit that done() asks for.                 *)
Advance(w, r) ==
  /\ Kind[r] # "illtyped"
  /\ TaskEnds(w, r)
  /\ processed' = processed \cup {r}
  /\ wm' = [wm EXCEPT ![w][r[1]] = Done(@, r[2])]
  /\ committing' = [committing EXCEPT ![w] =
       @ \cup {[p |-> r[1], at |-> c] : c \in CommitAt(wm[w][r[1]], r[2])}]
  /\ UNCHANGED <<broker, setBack, loop, fatal, position, batch, spent>>

(* _process_record raised something else: a database, Redis or Kafka error *)
(* (a fault), or the TypeError or AttributeError of an ill-typed record.   *)
Raises(r) ==
  \/ Kind[r] = "illtyped" /\ UNCHANGED faults
  \/ Kind[r] = "wellformed" /\ faults < MaxFaults /\ faults' = faults + 1

(* The mutant marks the offset done although its record failed. *)
FailAdvances(w, r) ==
  /\ TaskEnds(w, r) /\ Raises(r)
  /\ wm' = [wm EXCEPT ![w][r[1]] = Done(@, r[2])]
  /\ committing' = [committing EXCEPT ![w] =
       @ \cup {[p |-> r[1], at |-> c] : c \in CommitAt(wm[w][r[1]], r[2])}]
  /\ UNCHANGED <<broker, ghosts, loop, fatal, position, batch, commitFailures,
                 rebalances>>

(* The mutant forgets to tell the main loop. *)
FailSilently(w, r) ==
  /\ TaskEnds(w, r) /\ Raises(r)
  /\ UNCHANGED <<broker, ghosts, loop, fatal, wm, position, batch, committing,
                 commitFailures, rebalances>>

(* The mutant gives the permit back only when the record advances. *)
FailKeepsPermit(w, r) ==
  /\ running[w][r] > 0 /\ Raises(r)
  /\ running' = [running EXCEPT ![w][r] = @ - 1]
  /\ fatal' = [fatal EXCEPT ![w] = TRUE]
  /\ UNCHANGED <<broker, ghosts, loop, permits, wm, position, batch, committing,
                 commitFailures, rebalances>>

(* A task that raised: the permit is released, the main loop learns of the *)
(* error, and the offset stays in flight.                                  *)
Fail(w, r) ==
  /\ TaskEnds(w, r) /\ Raises(r)
  /\ fatal' = [fatal EXCEPT ![w] = TRUE]
  /\ UNCHANGED <<broker, ghosts, loop, wm, position, batch, committing,
                 commitFailures, rebalances>>

(* The mutant commits the processed offset itself. *)
LastProcessed(offset) == offset

(* commit_partition adds one: Kafka keeps the next offset to fetch. *)
NextToFetch(offset) == offset + 1

(* The broker accepts a commit.  It knows the member and the generation,   *)
(* not who owns the partition, and aiokafka sends a commit again after a   *)
(* retriable error, so a late one may land after a rebalance, or after a   *)
(* later one of the same worker, and move the offset back.                 *)
CommitLands(w, c) ==
  /\ c \in committing[w]
  /\ committed' = [committed EXCEPT ![c.p] = NextToFetch(c.at)]
  /\ setBack' = IF NextToFetch(c.at) < committed[c.p] THEN setBack \cup {c.p} ELSE setBack
  /\ committing' = [committing EXCEPT ![w] = @ \ {c}]
  /\ UNCHANGED <<owner, rejoin, processed, loop, fatal, permits, wm, position, batch,
                 running, spent>>

(* The call raises and the error is only logged: the broker is unavailable *)
(* (a fault), the partition belongs to another member, or a rebalance is   *)
(* to follow, which ends the generation the commit was sent in.            *)
CommitFails(w, c) ==
  /\ c \in committing[w]
  /\ \/ (owner[c.p] # w \/ rejoin) /\ UNCHANGED commitFailures
     \/ commitFailures < MaxCommitFailures /\ commitFailures' = commitFailures + 1
  /\ setBack' = setBack \cup {c.p}
  /\ committing' = [committing EXCEPT ![w] = @ \ {c}]
  /\ UNCHANGED <<broker, processed, loop, fatal, permits, wm, position, batch, running,
                 faults, rebalances>>

-----------------------------------------------------------------------------
(* The group and the process supervisor.                                   *)

(* A process is killed, or getmany raises. *)
Crash(w) ==
  /\ loop[w] # "down" /\ faults < MaxFaults
  /\ faults' = faults + 1
  /\ Exit(w)
  /\ UNCHANGED <<committed, ghosts, commitFailures, rebalances>>

(* Whoever supervises the worker starts it again (worker_cli.py counts on  *)
(* it).  The new process joins the group as a new member.                  *)
Restart(w) ==
  /\ loop[w] = "down"
  /\ loop' = [loop EXCEPT ![w] = "check"]
  /\ rejoin' = TRUE
  /\ UNCHANGED <<committed, owner, ghosts, fatal, permits, wm, position, batch, running,
                 committing, spent>>

(* Every member's positions restart from the committed offsets.  Its tasks *)
(* and watermarks stay: the code has no rebalance listener.                *)
Assign(new) ==
  /\ owner' = new
  /\ position' = [w \in Workers |-> [p \in Partitions |->
                    IF new[p] = w THEN committed[p] ELSE 0]]
  /\ UNCHANGED <<committed, ghosts, loop, fatal, permits, wm, batch, running,
                 committing, spent>>

(* Whoever is alive takes part, and the partitions are dealt out in any way. *)
Rebalance ==
  /\ rejoin /\ rejoin' = FALSE
  /\ \E new \in [Partitions -> Live] : Assign(new)

(* A member that misses its heartbeats or its poll interval has to join    *)
(* again, and others come and go, within the bound.                        *)
Unsettle ==
  /\ ~rejoin /\ rejoin' = TRUE
  /\ rebalances < MaxRebalances /\ rebalances' = rebalances + 1
  /\ UNCHANGED <<committed, owner, ghosts, local, faults, commitFailures>>

-----------------------------------------------------------------------------

TaskStep(w) == \E r \in Records : Advance(w, r) \/ Fail(w, r)
CommitStep(w) == \E c \in committing[w] : CommitLands(w, c) \/ CommitFails(w, c)

Next ==
  \/ \E w \in Workers :
       \/ RaiseFatal(w)
       \/ CheckFatal(w)
       \/ GetMany(w)
       \/ \E r \in Records : Dispatch(w, r)
       \/ \E r \in Records : Advance(w, r)
       \/ \E r \in Records : Fail(w, r)
       \/ \E c \in committing[w] : CommitLands(w, c)
       \/ \E c \in committing[w] : CommitFails(w, c)
       \/ Crash(w)
       \/ Restart(w)
  \/ Rebalance
  \/ Unsettle

Spec == Init /\ [][Next]_vars

(* asyncio runs a ready task, an HTTP exchange ends, a commit call ends,   *)
(* the supervisor restarts a process and the group makes the rebalance it  *)
(* owes.  A poll with records behind it returns some of them again and     *)
(* again, however often a rebalance moves the position.                    *)
Fairness ==
  /\ \A w \in Workers :
       /\ WF_vars(RaiseFatal(w) \/ CheckFatal(w) \/ GetMany(w))
       /\ SF_vars(GetMany(w) /\ batch'[w] # {})
       /\ WF_vars(\E r \in Records : Dispatch(w, r))
       /\ \A r \in Records : WF_vars(Advance(w, r) \/ Fail(w, r))
       /\ WF_vars(CommitStep(w))
       /\ WF_vars(Restart(w))
  /\ WF_vars(Rebalance)

FairSpec == Spec /\ Fairness

-----------------------------------------------------------------------------

(* The state has its types: in particular a watermark never tracks an      *)
(* offset the log does not hold, nor a commit one beyond it.               *)
TypeOK ==
  /\ committed \in [Partitions -> 0 .. N]
  /\ owner \in [Partitions -> Workers \cup {NoWorker}]
  /\ rejoin \in BOOLEAN
  /\ processed \subseteq Records /\ setBack \subseteq Partitions
  /\ loop \in [Workers -> LoopStates]
  /\ fatal \in [Workers -> BOOLEAN]
  /\ permits \in [Workers -> Nat]
  /\ wm \in [Workers -> [Partitions -> [in_flight : SUBSET Offsets,
                                        last_seen : -1 .. N - 1,
                                        last_committed : -1 .. N - 1]]]
  /\ position \in [Workers -> [Partitions -> 0 .. N]]
  /\ batch \in [Workers -> SUBSET Records]
  /\ running \in [Workers -> [Records -> Nat]]
  /\ committing \in [Workers -> SUBSET [p : Partitions, at : Offsets]]
  /\ faults \in 0 .. MaxFaults
  /\ commitFailures \in 0 .. MaxCommitFailures
  /\ rebalances \in 0 .. MaxRebalances

(* No record is skipped: the committed offset of a partition stands behind *)
(* processed records only, whatever order tasks end and commits land in    *)
(* (PartitionWatermark, commit_partition).                                 *)
CommittedProcessed ==
  \A p \in Partitions : \A o \in Offsets : o < committed[p] => <<p, o>> \in processed

(* An offset of partition p that worker w need not fetch again: it is      *)
(* processed, in flight in the worker's watermark, or still in its batch.  *)
Held(w, p, o) ==
  \/ <<p, o>> \in processed
  \/ o \in wm[w][p].in_flight
  \/ <<p, o>> \in batch[w]

(* Why no record is skipped, in the terms of each worker (PartitionWatermark, *)
(* run_delivery_loop): its positions, batch and watermarks leave no gap, so *)
(* what done() returns stands behind processed records only.  Inductive.   *)
NoGap ==
  \A w \in Workers :
    /\ loop[w] # "dispatch" => batch[w] = {}
    /\ \A p \in Partitions, o \in Offsets :
         /\ o \in wm[w][p].in_flight => o <= wm[w][p].last_seen
         /\ o <= wm[w][p].last_seen =>
              <<p, o>> \in processed \/ o \in wm[w][p].in_flight
         /\ owner[p] = w /\ o < position[w][p] => Held(w, p, o)
         /\ \A q \in Offsets :
              <<p, q>> \in batch[w] /\ o < q => Held(w, p, o)
    /\ \A c \in committing[w] : \A o \in Offsets :
         o <= c.at => <<c.p, o>> \in processed

(* The tasks of worker w inside _process_record, told apart by a number    *)
(* where a record is redelivered while an earlier task still has it.       *)
Tasks(w) == UNION {{r} \X (1 .. running[w][r]) : r \in Records}

(* Every permit of the semaphore is free or held by one task, so a failed  *)
(* task gives its permit back too (the finally block).                     *)
PermitsBalanced ==
  \A w \in Workers : permits[w] + Cardinality(Tasks(w)) = Concurrency

(* What the pool promises of the log. *)
Log == INSTANCE AtLeastOnce
ImplementsAtLeastOnce == Log!Spec

(* Every record is processed in the end, through crashes, infrastructure   *)
(* errors, lost commits and rebalances.                                    *)
EventuallyProcessed == \A r \in Records : <>(r \in processed)

(* The owner of p has fetched all there is, and the record that comes next *)
(* will commit itself and with it whatever is behind.                      *)
CaughtUpByNext(p) ==
  /\ owner[p] \in Workers /\ position[owner[p]][p] = N
  /\ CommitAt(Start(wm[owner[p]][p], N), N) = {N}

(* The group's offset reaches the end of every partition and stays there,  *)
(* whatever order the tasks end in.  Only a commit that failed or came too *)
(* late can leave it behind (last_committed is not taken back, and no      *)
(* rebalance resets it), and then it waits for the next record and for no  *)
(* more than that.                                                         *)
EventuallyCommitted ==
  \A p \in Partitions : <>[](committed[p] = N \/ (p \in setBack /\ CaughtUpByNext(p)))

(* A structurally invalid record is logged and its offset committed, so    *)
(* that its partition can advance (the docstring of PoisonPillError).      *)
PoisonPillAdvances ==
  \A p \in Partitions : \A o \in Offsets :
    Kind[<<p, o>>] # "wellformed" => <>(committed[p] > o)

=============================================================================
