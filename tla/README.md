# hook-relay: a verification development

TLA+ models of hook-relay (webhook ingestion and delivery: FastAPI, PostgreSQL,
Kafka, Redis), model-checked with TLC, with theorems checked by TLAPS.
Source paths below are relative to `src/src/hookrelay/` unless they say otherwise.

The system's promises, in the words of its README: every accepted event is
delivered at least once or dead-lettered, "inspectable, replayable, and never
silently discarded"; every attempt is logged; replicas of the worker may run side
by side, and a crash anywhere costs a duplicate at worst. The project asks where
the code keeps these promises, under which interleavings and failures, and what it
does instead where it does not.

## 1. The system

    client ── POST /events ──> API ──(one transaction)──> events + outbox   [PostgreSQL]
                                                              │
                        outbox relay (one per worker) <───────┘
                              │ publish {event_id}
                              v
                     events.pending [Kafka]  <── publish {event_id, endpoint_id, attempt} ──┐
                              │                                                            │
                  delivery loop (one per worker, N concurrent tasks)          retry scheduler (one per worker)
                              │  check / POST / record / schedule                          │ poll due, publish, cancel
                              ├──> delivery_attempts, dlq_entries [PostgreSQL]             │
                              └──> sorted set + hash [Redis] ──────────────────────────────┘
    operator ── /events/{id}/retry, /dlq, /endpoints ──> API

A worker process is an asyncio program: one task group runs the delivery loop, the
scheduler, the outbox relay and the lag reporter. An error that leaves any of them
cancels the others and ends the process (`worker_cli.py`).

### Components, state, operations, hazards

| Component | State | Operations | Hard behaviour | What makes it correct |
|---|---|---|---|---|
| Ingestion API (`api/routers/events.py`) | events and outbox rows | `ingest_event` | two requests with one idempotency key; a crash between two statements | an answered event is stored; a stored event is published |
| Outbox relay (`worker/outbox.py`) | outbox rows and their locks, Kafka | `_relay_batch` | several relays; a batch cut off after some of it was published | nothing lost; no orphan messages; duplicates only where something was cut off |
| Delivery loop (`worker/delivery.py`) | watermarks, semaphore, fatal error, in-flight tasks; the group's committed offsets | poll, dispatch, end of a task, `commit_partition` | tasks end and commits land out of order; errors in one of many tasks; crash, rebalance | a committed offset stands behind processed records; everything is processed in the end |
| Delivery (`worker/delivery.py`, `worker/dlq.py`) | delivery_attempts, dlq_entries | idempotency check, POST, record, schedule, dead-letter | awaits between check and act; duplicate messages; crash between two writes | no delivery lost; audit trail complete, append-only |
| Retry scheduler (`worker/scheduler.py`, `worker/retry.py`) | Redis sorted set and hash | `schedule`, `cancel`, `poll_due`, publish | every replica polls the same set without removing | retries survive; nothing circulates for ever |
| Operator API (`api/routers/{events,dlq,endpoints}.py`) | the same rows | retry, replay, delete, enable, disable | the publish precedes the commit, workers go on in between | the audit trail stays sound; the system comes to rest; no delivery discarded |
| Event status (`get_event`) | read-only | derivation from attempts and dead letters | rows change while it is read; what is pending is in other stores | "retrying" has something pending; at rest the status is what happened |
| Backoff (`worker/retry.py`) | none | `backoff_seconds` | width and cap | due times stay bounded |
| DLQ gauge (`metrics.py`, `worker_cli.py`) | a number per process | `set`, `inc`; `dec` in the API | incremented in one process, decremented in another | a worker shows the depth of the table |
| Worker entry point (`worker_cli.py`) | the task group | start, exit | one failing peer ends the others | the peers together keep the promise to the client |
| Schema (`migrations/versions/`, `db/models.py`) | the tables and their keys | `upgrade` | what a conflict, a foreign key and a row lock make wait or fail | initial states and inserts of `Outbox` and `Delivery` |
| Lag reporter, API wiring, authentication, schemas, signatures, dashboards | none that others read | | | not modelled |

`PROJECT.json` lists every component with its status, and every hazard with the
line where it bites and the property that would catch it.

## 2. The modules

| Module | Models | Abstract specification / composition |
|---|---|---|
| `PartitionWatermark` | class `PartitionWatermark`: `start`, `done` as pure operators | used by `DeliveryLoop` |
| `AtLeastOnce` | what a worker pool promises of a partitioned log | abstract specification |
| `DeliveryLoop` | `run_delivery_loop`, `commit_partition` in every worker of a consumer group, crash, restart, rebalance | implements `AtLeastOnce` |
| `Outbox` | `ingest_event` in concurrent handlers and `_relay_batch` in concurrent relays, any of them cut off | |
| `RetrySet` | what the workers are promised of the `RetryScheduler` protocol: a set of retries, polled without removing | abstract specification |
| `RetryStore` | `RedisRetryScheduler` (sorted set, hash, the two Lua scripts, `cancel`), `backoff_seconds`, `run_scheduler` with bad entries, batches and due times | implements `RetrySet` |
| `Delivery` | `_process_record`, `_deliver_to_endpoint`, `move_to_dlq`, `run_scheduler`, the DLQ gauge, the handlers that retry, replay, delete, and that create, update and delete endpoints | composes workers, schedulers and operators over shared stores; uses Redis as `RetrySet` allows |
| `EventStatus` | the derivation in `get_event` | extends `Delivery` |
| `WebhookRelay` | what a client is promised of the whole system | abstract specification |
| `HookRelay` | `Outbox` and `Delivery` as peers of one process group, from the POST to the last retry | composition; implements `WebhookRelay` |
| `PartitionWatermarkProofs`, `DeliveryLoopProofs`, `OutboxProofs`, `RetryStoreProofs`, `DeliveryProofs` | theorems about the module they are named after | |
| `StatusProofs`, `CountProofs` | lemmas about `EventStatus` and `Delivery`: why "retrying" is true; how many messages, answers and dead letters a delivery can have | |
| `HookRelayProofs` | theorems about the composition | joins the proofs above |
| `MCDeliveryLoop`, `MCOutbox`, `MCRetryStore`, `MCDelivery`, `MCHookRelay` | what the configurations need beyond constants | |

`DeliveryLoop` and `Delivery` divide the worker between them. In `DeliveryLoop` a
task is opaque: it ends well or it raises; the module shows that a record is read
until a task has ended well on it. `Delivery` takes that as its environment: a
message leaves the topic when a task takes it, comes back when the worker dies, and
may be left for a second reading. `Outbox` puts the first message of an event on
the topic; `Delivery` alone starts with it there, and `HookRelay` joins the two: the
relays' publishes are the messages the tasks take.

`RetryStore` and `Delivery` divide Redis in the same way. In `Delivery` it is a set;
`UsesRetrySet` says that what tasks and schedulers do to it is what `RetrySet`
allows, and `ImplementsRetrySet` that the sorted set and the hash keep that promise,
so that batches, bad entries and due times need not be in `Delivery`.

### Atomicity

asyncio is cooperative, so what a coroutine does between two awaits is one step.
An action is such a step together with the one external call (a PostgreSQL
transaction, a Redis call, a Kafka publish, an HTTP exchange) that ends it. Where a
handler awaits several calls it has several actions, and all other actors can step
between them: between the idempotency check and the POST, between the POST and the
insert, between the insert and the scheduling of the retry, between a scheduler's
publish and its cancel, between an operator's publish and its commit.

### State and code

`DeliveryLoop`

| Variable | Code |
|---|---|
| `loop` | where `run_delivery_loop` stands: head of `while True`, `getmany`, the inner `for`; `"down"` when the process is gone |
| `fatal` | `_fatal_exc is not None` |
| `permits` | the semaphore |
| `wm` | `watermarks[tp]` |
| `position`, `batch` | the consumer's fetch position; records returned by `getmany` and not yet dispatched |
| `running` | tasks in `_process_record` (a count: after a rebalance one worker may run a record twice) |
| `committing` | `commit_partition` calls under way: one await each, in no order |
| `committed`, `owner` | the broker |
| `rejoin` | the group owes a rebalance: a member has come, gone or missed its heartbeats |
| `processed`, `setBack` | ghosts: records some task finished without an error; partitions with a commit that failed or moved the offset back |

`RaiseFatal`, `CheckFatal`, `GetMany`, `Dispatch` are the loop; `Advance` and `Fail`
are the two ends of `_guarded_process`; `CommitLands`, `CommitFails` those of
`commit_partition`; `Crash`, `Restart`, `Unsettle`, `Rebalance` the process, its supervisor
and the group. Every exit and every restart makes the group owe a rebalance (`rejoin`),
in which the partitions are dealt out again in any way and the positions start from the
committed offsets; `Unsettle` stands for a member that is too slow for its heartbeats or
its poll interval. A record is well formed, malformed (`KeyError` or `ValueError` while
parsing: a poison pill) or ill-typed (`TypeError`, `AttributeError`).

`Outbox`: `events` and `outbox` are committed rows; `handler` an open
`ingest_event` transaction; `locked` and `sent` an open relay transaction (rows held
by `FOR UPDATE SKIP LOCKED`, rows published and deleted but not committed).
`InsertPending` is PostgreSQL's unique index: an insert of a key another
transaction has inserted waits for it.

`RetryStore`

| Variable | Code |
|---|---|
| `zset`, `hash` | `hookrelay:retries` with its scores; the fields of `hookrelay:retry:data` |
| `now` | `time.time()`, in whole seconds |
| `due` | the list a scheduler got from `poll_due` and has not gone through, with the scores that order it |
| `republished` | the entry it has published and not yet cancelled |

`Schedule`, `Cancel` and `Poll` are the calls of the workers and the poll with its two
Lua scripts; `Republish`, `Skip`, `Choke` and `CancelPublished` the body of
`run_scheduler`'s `for`. Bad entries of five kinds are there from the start:

| Kind | What it is | What the code does |
|---|---|---|
| `Missing` | a member without a payload | the poll removes it |
| `Corrupt` | a payload that is not JSON | `poll_due` drops it from its list; it stays in Redis |
| `Malformed` | ids that raise `KeyError` or `ValueError` | `Skip`: logged, passed over, stays |
| `Unusable` | ids of the wrong type, a payload that is no object (`TypeError`, `AttributeError`), a bad `attempt_number` (line 41, outside the `try`) | `Choke`: the error leaves `run_scheduler` and the worker exits; it stays, and ends the worker at every poll |
| `Misfiled` | a payload whose ids are not those of its key | published; `cancel` then removes the retry the payload names, and the entry stays to be published at every poll |

`Delivery`

| Variable | Code |
|---|---|
| `topic` | the messages to read, a multiset |
| `endpoints`, `enabled`, `subscribed`, `unused` | the rows of `endpoints`, their `enabled`, whether their `event_types` take the events, and the ids not given out yet |
| `attempts`, `dlq` | `delivery_attempts` by unique key, `dlq_entries` by pair |
| `retries` | the scheduled members in Redis |
| `task` | program counter and locals of each task; `inserted` is the `rowcount` of `move_to_dlq` |
| `gauge` | `dlq_entries_total` of each worker process |
| `due`, `republished` | a scheduler between poll, publish and cancel |
| `request` | an operator's open transaction, its row locks included |
| `acked`, `waived` | ghosts: 2xx answers received; pairs an operator gave up by deleting, disabling or unsubscribing |

`Take` and `Check` read; `Post` is the HTTP exchange; `Record`, `Schedule`,
`InsertDLQ` and `CancelOwn` are the four writes that may follow, each a call of its
own. `Crash` and `ForeignKeyError` end a process: its tasks and lists are gone, its
messages are read again, and its gauge is set to the depth.

`EventStatus` has no state: `Retrying`, `Exhausted` and `Succeeded` are the three sets
`get_event` builds, `DerivedStatus` its chain of conditions. `HookRelay` adds none
either: `topic` follows `published` (`Forward`), the rest is that of its two parts.

### Assumptions about what is outside the code

- PostgreSQL: a transaction is atomic; a unique index makes a second insert wait
  for the first; `FOR UPDATE` excludes `FOR UPDATE`, `DELETE`, and the foreign-key
  check of an insert; an insert that conflicts does nothing and does not wait for a
  row lock.
- Kafka: a publish that returned is on the topic; one that raised may be too. A
  member is assigned partitions it resumes at the committed offset; a commit may be
  accepted late, and an accepted commit may move the offset back.
- Redis: a Lua script and a pipeline in MULTI are atomic. Entries no worker of this
  version wrote may be there.
- The receiver answers anything, at any time.

## 3. What the runs check

Every bound is a constant named `Max...`; the data bounds are the sizes of the sets.

| Run | Instance | Shows |
|---|---|---|
| `delivery_loop` | 2 workers, 1 partition with a well-formed, a malformed and an ill-typed record, concurrency 2, 1 fault, 1 failed commit, the rebalances exits and restarts force (1.7 M states) | `CommittedProcessed`: no record is skipped. `NoGap`: the inductive reason. `PermitsBalanced`: a failing task gives its permit back. `ImplementsAtLeastOnce`: refinement |
| `delivery_loop_live` | 2 workers, a good record and a poison pill, concurrency 2, 1 fault, the rebalances it forces and 1 more (310 k states) | `EventuallyProcessed`; `EventuallyCommitted`: the offset reaches the end, or waits for the next record and for nothing else |
| `outbox` | 2 handlers, 2 relays, 3 keys, batches of 2, 2 cut-offs (123 k states) | `NoEventLost`, `NoOrphanMessage`, `DuplicatesOnlyFromAborts`, `OutboxInv`, `EventuallyPublished` |
| `hook_relay` | 1 handler, 1 relay, 1 worker with 2 tasks, 3 attempts, 1 cut-off transaction, 1 crash (575 k states) | `NoAcceptedEventLost`: between two parts an event is always somewhere. `KeepsPromise`: refinement of `WebhookRelay`. `KeepsPromiseInTheEnd`: its liveness. `DroppedOutcomeGoesOn`: a 2xx whose insert conflicted leaves a delivery that goes on or is dead. `AnswersHaveCause`, `RetryingUnlessCrashed`, `LoggedUnlessCutOff`, `FinalUnlessCutOff`, `StatusAtRest`, `GaugeIsDepth`: what holds besides while nothing is cut off, or nobody dies |
| `retry_store` | 2 schedulers, 2 retries, a bad entry of each of the five kinds, batches of 5, 6 seconds, 1 crash (194 k states) | `StoreOK`, `ImplementsRetrySet`, `EventuallyCleared`: what is due before the first unusable entry comes out |
| `delivery_faults` | 2 workers, 2 attempts, 1 crash, 1 second reading (268 k states) | `NoLostDelivery`, `AuditTrailContiguous`, `ExhaustedAfterAllAttempts`, `AuditTrailAppendOnly`, `UsesRetrySet`, `EventuallyResolved` |
| `delivery_ops` | 1 worker, 2 operators with 3 requests, an endpoint that does not exist yet, 3 attempts, 1 crash (664 k states) | `AuditTrailContiguous`, `AuditTrailAppendOnly`, `EventuallyQuiet` |
| `poison_type` | violation | `PoisonPillAdvances` fails: section 5 |
| `duplicate_post` | violation | `AckedOnce` fails with two replicas |
| `success_unlogged` | violation | `RetryingIsPending` fails with an operator's retry |
| `replay_discards` | violation | `NoLostDelivery` fails with an operator's retry |
| `stale_gauge` | violation | `GaugeIsDepth` fails with an operator's request |

Each property of a passing run also has a mutant: a plausible bug in a mapped
definition (a watermark that takes the last offset seen, a failed task that keeps its
permit, a relay without row locks, a retry scheduled before the attempt is
recorded, a replay that takes a second lock in the wrong order, ...) under which TLC finds it violated.

**Why the bounds are enough to be of interest.** Three offsets let a middle record
stay in flight while its neighbours end, with two commits under way that land in
either order; an exit and the restart after it force two rebalances, which take a
partition away and give it back to a worker whose old tasks still run, with a
watermark that remembers more than the committed offset. For liveness two offsets are
enough, one to end late and one to commit past it; there the rebalance that no exit
forces meets the tasks and commits the crash has left. Two keys per relay batch let a batch be cut off halfway, a third key lets
the other relay hold a row meanwhile; two cut-offs let a retried request or batch be
cut off again. Two or three attempts give a chain a first, a middle and a last
attempt; one crash falls between any two of the steps of any task; two schedulers
and one second reading make duplicates meet every step of the original. Endpoints
and events only interact through a fan-out message, the shared tasks and an
operator's request, so most runs have one of each. The same holds in `hook_relay`: a
larger instance of it with two endpoints, two attempts, one cut-off and no crash
(994 k states) passes too, but takes several minutes; it is the one in which
`partially_retrying` and `partially_delivered` occur.

In `retry_store` four bad entries are due before anything else, so that a batch of five
leaves one of the two retries behind until the entry without a payload is gone. Three of
the four stay for ever and are fewer than a batch; that is what `EventuallyCleared` needs.
The unusable entry is due at second 4: a retry may be due before it or after it, and only
the first is promised to come out. That the second does not is what TLC shows when the
condition is dropped: the worker polls, exits at the entry and polls again. `MaxTime`
bounds when a retry may still be scheduled (`Schedule` leaves room for the cap and the
jitter), so that everything scheduled gets due; the second attempt number is beyond the
cap and the first is not.

**Deadlock.** In `DeliveryLoop` and `Delivery` the system comes to rest when every
record or message is dealt with, so deadlock is not checked there;
`EventuallyProcessed` and `EventuallyQuiet` say that it does not rest too early or
never. `EventuallyQuiet` also shows that no two transactions wait for each other: its
fairness owes a request its commit but no abort, so a circle of waits would last. In `Outbox` a client can always post again.

## 4. Fairness

- `DeliveryLoop`: weak fairness of a worker's loop, of each task, of commits, of the
  restart (the compose file restarts the worker, and `worker_cli.py` exits so that
  it is) and of the rebalance the group owes after a member came or went. Strong
  fairness of a poll that returns records: a rebalance may interrupt a poll, but not
  every one for ever. asyncio schedules every ready task; every awaited call has a
  timeout or raises.
- `Outbox`: weak fairness of each relay. None for clients.
- `RetryStore`: weak fairness of the clock and of each scheduler. None for workers.
- `HookRelay` (`FairRelaySpec`): weak fairness of `Working` as one action, that is, something goes on
  while any relay, task or scheduler can: less than its parts assume of each.
- `Delivery`: weak fairness of tasks, schedulers, of the exit after a foreign-key
  error, and of a request's commit once nothing it waits for is locked. None for its
  abort, which is a fault, and none for the outcome of a POST: a receiver may fail every
  time, and deliveries then end in the dead letter queue.

Faults are bounded, so liveness says: once faults stop, the system catches up.
That the committed offset reaches the end of its partition is false even so, for a
reason that is in the code: `last_committed` moves before the commit is known to have
landed, and survives a rebalance. TLC finds it with one fault: a restart forces a
rebalance, in which a commit of the other worker fails; the partition stays with that
worker, which processes the record again and does not commit it again.
`EventuallyCommitted` therefore says: the offset reaches the end and stays there, or a
commit of the partition has failed or moved it back, and then its owner has fetched all
there is and the next record it processes commits everything (`CaughtUpByNext`).
Safety is not affected.

## 5. Disagreements between code and documentation

Five runs expect a violation; `PROJECT.json` quotes the lines.

1. **An ill-typed record stops its partition** (`poison_type`). `_process_record`
   maps `KeyError` and `ValueError` to `PoisonPillError`. A field of the wrong JSON
   type raises `TypeError` or `AttributeError`, which the loop takes for an
   infrastructure error: no commit, exit, restart, the same record again.
2. **Replicas can deliver twice without a failure** (`duplicate_post`). Schedulers
   poll without removing; two may publish one retry; two tasks may both pass the
   idempotency check, which reads before the POST with nothing held in between.
3. **A replayed delivery that succeeds is "retrying" for ever** (`success_unlogged`).
   `retry_event` and `replay_dlq_entry` start again at attempt 0, which has a failure
   on record; `ON CONFLICT DO NOTHING` drops the success. The dead letter is gone, the
   audit trail holds failures only, and `get_event` reports a retry nobody makes. A
   message read twice loses a success in the same way. While no worker dies the delivery
   then goes on or ends dead (`DroppedOutcomeGoesOn`); a crash after the insert of a
   failure can have the same effect as the replay, so that property and
   `RetryingUnlessCrashed` hold only without one.
4. **An operator's retry can discard a delivery** (`replay_discards`). `retry_event`
   and `replay_dlq_entry` publish before they delete dead letters. A delivery that
   fails for good in between conflicts with the old row, which the request then
   deletes. Two longer ways to the same end: a replay while the endpoint is disabled
   or has unsubscribed deletes the row and targets nobody; and `move_to_dlq`, which
   cancels after it commits, can cancel the retry that a replay has meanwhile
   scheduled under the same number.
5. **The depth of the dead letter queue is shown wrong** (`stale_gauge`). The worker
   sets and increments its gauge; the API decrements another one, in its own process,
   and `retry_event` and `delete_endpoint` none at all.

## 6. What is proved

All theorems hold for every value of the constants that satisfies the `ASSUME`s of
the modules (positive sizes, natural-number bounds, a distinguished none-value), so
for any number of workers, partitions, records, handlers, relays and faults.

**`PartitionWatermarkProofs`.** Types of `Start`, `Done` and `CommitAt`, and the
lemma the loop rests on: the candidate offset of a watermark is below everything in
flight and not beyond the last offset seen.

**`DeliveryLoopProofs`.** `TypeCorrect`; `NoRecordSkipped` (`CommittedProcessed`);
`WorkersLeaveNoGap` (`NoGap`); `Refinement` (`ImplementsAtLeastOnce`).
`CommittedProcessed` is not inductive: that a commit may land depends on what stood
behind it when `done` computed it. `NoGap` adds it in four parts, for each worker
and partition: (1) everything a watermark has seen is processed or in flight;
(2) everything before the fetch position of an assigned partition is processed, in
flight or in the batch; (3) the same for everything before a record of the batch;
(4) everything up to an offset being committed is processed. A poll keeps (2) and
(3) because it returns a run of records; a dispatch moves a record from the batch to
the watermark and keeps (1) because a partition's records are dispatched in order;
the end of a task keeps (1) and gives (4) by the watermark lemma; a rebalance
restarts positions at the committed offset, behind which `CommittedProcessed` knows
everything processed; and old watermarks and tasks do no harm because (1) does not
mention the owner. A failed task leaves its offset in flight, which is why a later
offset of the same worker never commits past it. The refinement maps a task's end
to `Process`, a landing commit to `Commit` (its guard is part 4) and everything else
to a stutter.

**`OutboxProofs`.** `TypeCorrect`, `EventsAreNotLost` (`NoEventLost`), `NoOrphans`
(`NoOrphanMessage`), `FewDuplicates` (`DuplicatesOnlyFromAborts`),
`LocksAndCountsAgree` (`OutboxInv`). `OutboxInv` is the strengthening: batches of
relays are disjoint, a relay has sent only what it holds, handlers never hold an
uncommitted insert of the same key, and a row still in the outbox was published at
most once per cut-off, and once more only by the relay that holds it.

**`RetryStoreProofs`.** `StoreStaysOK` (`StoreOK`) and `Refinement`
(`ImplementsRetrySet`), for any batch size, any number of schedulers and any bad
entries beside the members. `StoreOK` is inductive: every change of one structure comes with its change
of the other, and the one that does not, the `ZREM` in the poll, only meets members
that are not in the hash. The refinement maps the members with a score to the set; a
poll's removals, `Skip` and what is done to a misfiled entry are stutters of the set, the
cancel that its payload causes is a `Cancel`, and `Choke` is a `Restart`. That a backoff is a number
(`BackoffAssumption`) is assumed, since the provers know no powers; TLC evaluates it.

**`DeliveryProofs`.** Three invariants, each on top of the first.

- `Typed`: `TypeOK`, with what a task knows where it stands; above all, a task about
  to schedule a retry is below the limit. `TypeCorrect` and `RedisIsARetrySet`
  (`UsesRetrySet`) follow.
- `Trail`: `AuditTrailContiguous` is not inductive, because a retry is in many hands
  before it is recorded: Redis, a scheduler's list, the topic, a task, the topic again
  after a crash. `Trail` says of any attempt in any of them that all attempts before it
  are on record while its endpoint exists, and that a task which schedules or gives up
  has recorded its failure. That an id is never given out twice (`unused`) is what keeps
  a retry of a deleted endpoint from being unfounded. `TrailHasNoHoles` and
  `ExhaustedIsTrue` follow; `TrailIsAppendOnly` follows from a lemma on one step
  (`Lasting`), which `Trail` uses as well. All three hold with any number of operators.
- `NothingLost`: `NoDeliveryIsLost` (`NoLostDelivery`), under the assumptions
  `MaxOps = 0` (with an operator it is false, section 5) and that every endpoint exists
  from the start. The difficulty is that a scheduler cancels what it published some time
  ago, in a set others have changed since. The invariant is that whatever a scheduler is
  about to cancel is *held* otherwise: the delivery is over, or a message or task has it
  at that attempt or a later one, or a *later* retry is scheduled. Being held lasts
  through every step: a message is taken by a task that targets its endpoint; a task lets
  go only after a success, a dead letter, or scheduling its next attempt; a dying worker
  gives its messages back; and a scheduled retry leaves Redis only when its delivery is
  dead or when it was published, which by the invariant means that it is held by
  something later.

The finiteness of events, endpoints and slots (`FinitenessAssumption`) is needed to
count messages and dead letters.

**`DeliveryLoopProofs`, the semaphore.** `SemaphoreBalances` (`PermitsBalanced`): the
tasks of a worker are a set of pairs (record, number), finite and of the size of the
permits that are out; a dispatch adds one pair, an end of a task, good or bad, takes
one away, an exit takes all.

**`HookRelayProofs`**, with the lemmas of `StatusProofs` and `CountProofs`. The initial
states and steps of `HookRelay` differ from those of its parts (messages come from the
relays), so the invariants of the parts are carried over step by step: a step of
`Delivery` keeps them by the lemmas of `DeliveryProofs`, and a step of `Outbox` is one
that only puts more on the topic (`Grows`). Two inductive invariants result.

- `Base`, for any number of workers, relays and handlers: the invariants of `Outbox` and
  of `Delivery`; `Stored` (whatever is on the topic, in a task, in Redis or with a
  scheduler is of a stored event); `PublishedHeld` (a published event is held for each
  endpoint, in the sense of `NothingLost`); and, until a worker dies, `Chased`: an attempt
  on record as failed has behind it a later attempt that is on its way, the end of the
  delivery on record, or the task that is about to see to it; and `Noted`: an answer has
  an attempt on record, its own or the one its own was dropped for, or a task about to
  insert one. From `Base` follow
  `RelayTypeCorrect`, `NoAcceptedEventIsLost` (`NoAcceptedEventLost`), `PromiseIsKept`
  (`KeepsPromise`: a step that answers or dead-letters is `Answer` or `DeadLetter` of
  `WebhookRelay` if it changes the outcome, the commit of a new event is `Accept`, the
  rest stutters), `RetryingIsTrue` (`RetryingUnlessCrashed`) and `DroppedGoesOn`
  (`DroppedOutcomeGoesOn`).
- `Single`, for one worker process with any number of tasks. The hard part is to count.
  Everything that can still bring a delivery to an end is a *carrier*: a copy of a message
  on the topic, a task that has not had its answer, a retry that is in Redis or polled and
  not yet published. `Total` adds carriers, answers and dead letters. Until the worker dies
  every step that makes one of them uses up another: taking a message, scheduling a retry,
  publishing it, answering, dead-lettering. So `Total` is at most what was published and
  read again, which is at most 1 + cut-offs + second readings: `AnswersAreCaused`
  (`AnswersHaveCause`). With nothing cut off it is one. Then the attempts a carrier has
  still to make are not on record (`Fresh`), no insert conflicts, and `AnswersAreLogged`
  (`LoggedUnlessCutOff`), `DeadLettersAreFinal` (`FinalUnlessCutOff`) and `StatusIsSettled`
  (`StatusAtRest`) follow. `RelayGaugeIsTrue` (`GaugeIsDepth`) needs no counting of
  carriers and holds through crashes; `GaugeIsTrue` in `CountProofs` states it of
  `Delivery` alone, for any endpoints, as long as `MaxOps = 0`.

That there is one worker is a hypothesis of these five theorems and of `GaugeIsTrue`, and
it is needed: two schedulers poll the same retry without removing it and publish it
twice (`duplicate_post`), so one carrier becomes two, and each process has a gauge of its
own. `HookRelay` has no operators (`NoOperatorsAssumption`), with whom most of the
properties are false (section 5). The invariants were checked with TLC on small instances
(several tasks, endpoints, cut-offs, second readings and crashes) before they were proved.

**Model-checked only.** Every liveness property, out of the prover's reach:
`EventuallyProcessed`, `EventuallyCommitted`, `EventuallyPublished`, `EventuallyCleared`,
`EventuallyResolved`, `EventuallyQuiet`, `KeepsPromiseInTheEnd`. `WebhookRelay` and
`RetrySet` therefore state their safety in a `Spec` of its own. Every other property of a
passing run is stated by a theorem. What the violation runs refute is, of course, not
proved; those properties hold under the assumptions the theorems name.

## 7. Abstractions, and what is not modelled

- Time, but in `RetryStore`. In `Delivery` a retry is due at any moment after it is
  scheduled and a poll may return any of them; no property there depends on delays.
  `RetryStore` counts whole seconds, and its attempt numbers are chosen by the instance.
- Payloads, headers, signatures, logging. Nothing branches on them.
- A batch full of corrupt, malformed or misfiled entries: they are never removed, so 100
  of them hide every retry due later. `EventuallyCleared` is checked with fewer, and says
  nothing of what is due after an unusable entry; who would have written such entries is
  outside this code.
- What a misfiled entry does to deliveries: `Delivery` has no such entries, and the
  messages it makes are second readings there.
- Deliveries an operator's step takes away on other ways than `replay_discards`: a retry
  dropped because its endpoint is disabled, a replay that targets nobody, a cancel that
  hits the retry a replay has scheduled (section 5, number 4, and the hazards without a
  property in `PROJECT.json`). `Delivery` makes these steps; the promise they break is
  the one that run refutes on a shorter path.
- The notification on the DLQ topic: nothing in the repository reads it.
- A message that is not JSON raises inside `getmany`; what the client library then
  does is not in this repository. `Crash` covers the exit it causes.
- An endpoint's url and secret: a task posts to the endpoint as it read it, and nothing
  compares the two later.
- The API process's own DLQ gauge, which nothing sets and the dashboard does not show;
  the other metrics, which are only written.
- In `HookRelay`, operators: a request names an event that exists, and `Delivery` checks
  requests over all its states.
- Lag reporter, wiring, authentication, validation, signatures, dashboards: no state
  that another component reads.

## 8. Plan

Done: `PartitionWatermark`, `AtLeastOnce`, `DeliveryLoop`, `Outbox`, `RetrySet`,
`RetryStore`, `Delivery`, `EventStatus`, `WebhookRelay`, `HookRelay`, and the proofs of
section 6, which cover every safety property of a passing run.

What is left:

1. With several worker processes, how often a delivery can be posted to: each scheduler
   that has a retry in its list can publish it once more, so `Total` would have to count
   the lists. A bound that holds needs an invariant on stalled schedulers first.
2. With operators, what remains of `NoDeliveryIsLost`: a delivery is lost only through one
   of the three ways of section 5, number 4.
3. Deadlock as safety: in `Delivery`, that whatever waits for a lock waits for a request
   that can end.

## 9. Running

    tlc -config delivery_loop.cfg MCDeliveryLoop
    tlapm DeliveryLoopProofs.tla

and likewise for the other configurations (`module` in `PROJECT.json`) and proofs.
