------------------------------ MODULE Delivery ------------------------------
(***************************************************************************)
(* The life of a delivery: what the tasks of the workers                   *)
(* (_deliver_to_endpoint, move_to_dlq), their retry schedulers             *)
(* (run_scheduler, RedisRetryScheduler) and the operators behind the API   *)
(* do with one event and one endpoint, from the message on the pending     *)
(* topic to a 2xx answer or a row in the dead letter queue.                *)
(*                                                                         *)
(* PostgreSQL, Redis, Kafka and the receiver are shared; everything else   *)
(* a task knows it keeps between two awaits while others go on.  Each      *)
(* action is one call to one of them with the code around it.              *)
(*                                                                         *)
(* That a message is read at least once, whatever becomes of its worker,   *)
(* is what DeliveryLoop shows.  Here a message leaves the topic when a     *)
(* task takes it and comes back when its worker dies; it may also be left  *)
(* there for a second reading (a rebalance, a lost commit, an outbox batch *)
(* published again), as often as MaxRedeliveries says.  Time is left out:  *)
(* a retry is due at any moment after it was scheduled.                    *)
(***************************************************************************)
EXTENDS Naturals, FiniteSets

CONSTANTS
  Events,           \* events on the pending topic
  Endpoints,        \* endpoint ids
  InitialEndpoints, \* those that exist at the start, enabled and subscribed
  Workers,          \* worker processes
  Slots,            \* concurrent tasks of a worker
  Operators,        \* concurrent API requests that change deliveries
  MaxAttempts,      \* settings.max_retry_attempts
  None,             \* no event, no endpoint
  MaxCrashes,       \* bound: workers that die
  MaxRedeliveries,  \* bound: messages read once more
  MaxOps            \* bound: operator requests

ASSUME MaxAttemptsAssumption == MaxAttempts \in Nat \ {0}
ASSUME NoneAssumption == None \notin Events \cup Endpoints
ASSUME EndpointsAssumption == InitialEndpoints \subseteq Endpoints
ASSUME FinitenessAssumption ==
  IsFiniteSet(Events) /\ IsFiniteSet(Endpoints) /\ IsFiniteSet(Slots)

Pairs == Events \X Endpoints
Attempts == 0 .. MaxAttempts - 1

(* {"event_id"} fans out to every endpoint; a retry names its endpoint and *)
(* its attempt.                                                            *)
FanOut(e) == [ev |-> e, ep |-> None, n |-> 0]
Retry(e, p, n) == [ev |-> e, ep |-> p, n |-> n]
RetryMessages == {Retry(e, p, n) : e \in Events, p \in Endpoints, n \in Attempts}
Messages == {FanOut(e) : e \in Events} \cup RetryMessages

Tasks == Workers \X Slots

VARIABLES
  topic,       \* Kafka: messages to read, and how many of each
  unused,      \* endpoint ids not given out yet
  endpoints,   \* PostgreSQL: endpoint rows ...
  enabled,     \* ... those of them that are enabled ...
  subscribed,  \* ... and those whose event_types hold the type of the events
  attempts,    \* PostgreSQL: delivery_attempts, the status of each key or "none"
  dlq,         \* PostgreSQL: dlq_entries, the reason for each pair or "none"
  retries,     \* Redis: the scheduled retries
  task,        \* where each task stands
  gauge,       \* dlq_entries_total as each worker process has it
  due,         \* what each scheduler has polled and not dealt with
  republished, \* what it has published and not yet cancelled
  request,     \* operator transactions under way
  acked,       \* ghost: 2xx answers a worker got, by pair
  waived,      \* ghost: pairs an operator gave up
  crashes, redeliveries, ops      \* how much of each bound is spent

config   == <<unused, endpoints, enabled, subscribed>>
postgres == <<config, attempts, dlq>>
sched    == <<due, republished>>
ghosts   == <<acked, waived>>
spent    == <<crashes, redeliveries, ops>>
vars     == <<topic, postgres, retries, task, gauge, sched, request, ghosts, spent>>

Steps == {"idle", "check", "post", "record", "schedule", "dlq", "cancel"}
Outcomes == {"success", "failure", "permanent"}

Free == [step |-> "idle", msg |-> FanOut(None), targets |-> {}, ep |-> None,
         outcome |-> "failure", inserted |-> FALSE]
NoRequest == [kind |-> "none", ev |-> None, ep |-> None]

Quiescent ==
  /\ endpoints = InitialEndpoints /\ unused = Endpoints \ InitialEndpoints
  /\ enabled = endpoints /\ subscribed = endpoints
  /\ attempts = [k \in RetryMessages |-> "none"]
  /\ dlq = [d \in Pairs |-> "none"]
  /\ retries = {}
  /\ task = [t \in Tasks |-> Free]
  /\ gauge = [w \in Workers |-> 0]
  /\ due = [w \in Workers |-> {}]
  /\ republished = [w \in Workers |-> {}]
  /\ request = [o \in Operators |-> NoRequest]
  /\ acked = [d \in Pairs |-> 0]
  /\ waived = {}
  /\ crashes = 0 /\ redeliveries = 0 /\ ops = 0

(* The events have just been published. *)
Init ==
  /\ topic = [m \in Messages |-> IF m \in {FanOut(e) : e \in Events} THEN 1 ELSE 0]
  /\ Quiescent

Add(m) == topic' = [topic EXCEPT ![m] = @ + 1]

-----------------------------------------------------------------------------
(* RedisRetryScheduler *)

(* _member: the key of a scheduled retry. *)
Member(m) == <<m.ev, m.ep, m.n>>

(* schedule and cancel, each one atomic call. *)
Without(m) == {r \in retries : Member(r) # Member(m)}
Scheduled(m) == Without(m) \cup {m}

-----------------------------------------------------------------------------
(* A task: _process_record and _deliver_to_endpoint *)

(* Who a message is for: the enabled endpoints that subscribe to the type  *)
(* of its event, or the one it names while that exists and is enabled.     *)
Targets(m) == IF m.ep = None THEN enabled \cap subscribed ELSE {m.ep} \cap enabled

(* A free task reads a message and resolves it.  Without a target it is    *)
(* done with it.  The message may stay for a second reading.               *)
Take(t, m) ==
  /\ task[t].step = "idle" /\ topic[m] > 0
  /\ \/ topic' = [topic EXCEPT ![m] = @ - 1] /\ UNCHANGED redeliveries
     \/ /\ redeliveries < MaxRedeliveries /\ redeliveries' = redeliveries + 1
        /\ UNCHANGED topic
  /\ task' = [task EXCEPT ![t] =
       IF Targets(m) = {} THEN Free
       ELSE [Free EXCEPT !.step = "check", !.msg = m, !.targets = Targets(m)]]
  /\ UNCHANGED <<postgres, retries, gauge, sched, request, ghosts, crashes, ops>>

(* The key of the attempt a task is making. *)
Key(t) == Retry(task[t].msg.ev, task[t].ep, task[t].msg.n)
Pair(t) == <<task[t].msg.ev, task[t].ep>>

Goto(t, step) == task' = [task EXCEPT ![t].step = step]

(* The task is done with endpoint p: on to the next, or to the next message. *)
DoneWith(t, p) ==
  LET rest == task[t].targets \ {p}
  IN  task' = [task EXCEPT ![t] =
        IF rest = {} THEN Free
        ELSE [Free EXCEPT !.step = "check", !.msg = task[t].msg, !.targets = rest]]

(* The mutant takes any attempt on record for a success. *)
HasAttempt(e, p) == \E n \in Attempts : attempts[Retry(e, p, n)] # "none"

HasSuccess(e, p) == \E n \in Attempts : attempts[Retry(e, p, n)] = "success"

(* The idempotency check: skip the endpoint if a success is on record. *)
Check(t, p) ==
  /\ task[t].step = "check" /\ p \in task[t].targets
  /\ IF HasSuccess(task[t].msg.ev, p)
       THEN DoneWith(t, p)
       ELSE task' = [task EXCEPT ![t].step = "post", ![t].ep = p]
  /\ UNCHANGED <<topic, postgres, retries, gauge, sched, request, ghosts, spent>>

(* The mutant schedules the retry of a failed attempt before recording it. *)
PostThenSchedule(t, outcome) ==
  /\ task[t].step = "post"
  /\ task' = [task EXCEPT ![t].step = IF outcome = "failure" THEN "schedule" ELSE "record",
                          ![t].outcome = outcome]
  /\ acked' = IF outcome = "success" THEN [acked EXCEPT ![Pair(t)] = @ + 1] ELSE acked
  /\ UNCHANGED <<topic, postgres, retries, gauge, sched, request, waived, spent>>

(* The HTTP exchange and what the task makes of it: 2xx; a 4xx other than  *)
(* 429; anything else, a timeout included.                                 *)
Post(t, outcome) ==
  /\ task[t].step = "post"
  /\ task' = [task EXCEPT ![t].step = "record", ![t].outcome = outcome]
  /\ acked' = IF outcome = "success" THEN [acked EXCEPT ![Pair(t)] = @ + 1] ELSE acked
  /\ UNCHANGED <<topic, postgres, retries, gauge, sched, request, waived, spent>>

(* retry_event holds the event row FOR UPDATE: an insert that refers to it *)
(* waits.  One that conflicts inserts nothing and does not wait.           *)
Locked(e) == \E o \in Operators : request[o].kind = "retry" /\ request[o].ev = e

Status(outcome) == IF outcome = "success" THEN "success" ELSE "failure"

(* The mutants give up one attempt late, and one early. *)
LastAttemptLate(n) == n + 1 > MaxAttempts
LastAttemptEarly(n) == n + 2 >= MaxAttempts

LastAttempt(n) == n + 1 >= MaxAttempts

(* The mutant overwrites what an earlier delivery of the message recorded. *)
InsertOrUpdate(k, status) ==
  /\ k.ep \in endpoints /\ ~Locked(k.ev)
  /\ attempts' = [attempts EXCEPT ![k] = status]

(* INSERT INTO delivery_attempts ... ON CONFLICT DO NOTHING. *)
InsertAttempt(k, status) ==
  /\ k.ep \in endpoints
  /\ attempts[k] = "none" => ~Locked(k.ev)
  /\ attempts' = IF attempts[k] = "none" THEN [attempts EXCEPT ![k] = status] ELSE attempts

(* The attempt is durable before anything follows from it. *)
Record(t) ==
  /\ task[t].step = "record"
  /\ InsertAttempt(Key(t), Status(task[t].outcome))
  /\ CASE task[t].outcome = "success" -> DoneWith(t, task[t].ep)
       [] task[t].outcome = "permanent" \/
            (task[t].outcome = "failure" /\ LastAttempt(task[t].msg.n)) -> Goto(t, "dlq")
       [] OTHER -> Goto(t, "schedule")
  /\ UNCHANGED <<topic, config, dlq, retries, gauge, sched, request, ghosts, spent>>

(* The mutant schedules the attempt that just failed. *)
ScheduleSame(t) ==
  /\ task[t].step = "schedule"
  /\ retries' = Scheduled(Key(t))
  /\ DoneWith(t, task[t].ep)
  /\ UNCHANGED <<topic, postgres, gauge, sched, request, ghosts, spent>>

Schedule(t) ==
  /\ task[t].step = "schedule"
  /\ retries' = Scheduled([Key(t) EXCEPT !.n = @ + 1])
  /\ DoneWith(t, task[t].ep)
  /\ UNCHANGED <<topic, postgres, gauge, sched, request, ghosts, spent>>

-----------------------------------------------------------------------------
(* move_to_dlq *)

Reason(t) == IF task[t].outcome = "permanent" THEN "permanent" ELSE "exhausted"

(* The mutant goes on to schedule a retry as well. *)
InsertDLQAndRetry(t) ==
  /\ task[t].step = "dlq" /\ task[t].ep \in endpoints
  /\ dlq[Pair(t)] = "none" => ~Locked(task[t].msg.ev)
  /\ dlq' = IF dlq[Pair(t)] = "none" THEN [dlq EXCEPT ![Pair(t)] = Reason(t)] ELSE dlq
  /\ task' = [task EXCEPT
       ![t].step = IF LastAttempt(task[t].msg.n) THEN "cancel" ELSE "schedule",
       ![t].inserted = dlq[Pair(t)] = "none"]
  /\ UNCHANGED <<topic, config, attempts, retries, gauge, sched, request, ghosts, spent>>

(* INSERT INTO dlq_entries ... ON CONFLICT DO NOTHING, and commit. *)
InsertDLQ(t) ==
  /\ task[t].step = "dlq" /\ task[t].ep \in endpoints
  /\ dlq[Pair(t)] = "none" => ~Locked(task[t].msg.ev)
  /\ dlq' = IF dlq[Pair(t)] = "none" THEN [dlq EXCEPT ![Pair(t)] = Reason(t)] ELSE dlq
  /\ task' = [task EXCEPT ![t].step = "cancel", ![t].inserted = dlq[Pair(t)] = "none"]
  /\ UNCHANGED <<topic, config, attempts, retries, gauge, sched, request, ghosts, spent>>

(* The mutant counts every dead letter, also one that was there already. *)
CountAlways(t) ==
  /\ task[t].step = "cancel"
  /\ retries' = Without(Key(t)) \/ UNCHANGED retries
  /\ gauge' = [gauge EXCEPT ![t[1]] = @ + 1]
  /\ DoneWith(t, task[t].ep)
  /\ UNCHANGED <<topic, postgres, sched, request, ghosts, spent>>

(* The retry of this attempt is cancelled, as far as Redis answers, and a  *)
(* new dead letter is counted; the notification on the DLQ topic, which    *)
(* nothing reads, is left out.                                             *)
CancelOwn(t) ==
  /\ task[t].step = "cancel"
  /\ retries' = Without(Key(t)) \/ UNCHANGED retries
  /\ gauge' = IF task[t].inserted THEN [gauge EXCEPT ![t[1]] = @ + 1] ELSE gauge
  /\ DoneWith(t, task[t].ep)
  /\ UNCHANGED <<topic, postgres, sched, request, ghosts, spent>>

-----------------------------------------------------------------------------
(* run_scheduler, one in every worker *)

(* The mutant takes what it fetches out of Redis. *)
PollRemoves(w) ==
  /\ due[w] = {} /\ republished[w] = {}
  /\ \E found \in SUBSET retries :
       /\ found # {} /\ due' = [due EXCEPT ![w] = found]
       /\ retries' = retries \ found
  /\ UNCHANGED <<topic, postgres, task, gauge, republished, request, ghosts, spent>>

(* poll_due fetches without removing: any of the scheduled retries can be  *)
(* due.                                                                    *)
Poll(w) ==
  /\ due[w] = {} /\ republished[w] = {}
  /\ \E found \in SUBSET retries : found # {} /\ due' = [due EXCEPT ![w] = found]
  /\ UNCHANGED <<topic, postgres, retries, task, gauge, republished, request, ghosts, spent>>

Republish(w, m) ==
  /\ m \in due[w] /\ republished[w] = {}
  /\ Add(m)
  /\ due' = [due EXCEPT ![w] = @ \ {m}]
  /\ republished' = [republished EXCEPT ![w] = {m}]
  /\ UNCHANGED <<postgres, retries, task, gauge, request, ghosts, spent>>

(* The mutant cancels every retry of the delivery. *)
CancelDelivery(w, m) ==
  /\ m \in republished[w]
  /\ retries' = {r \in retries : r.ev # m.ev \/ r.ep # m.ep}
  /\ republished' = [republished EXCEPT ![w] = {}]
  /\ UNCHANGED <<topic, postgres, task, gauge, due, request, ghosts, spent>>

(* The mutant leaves the entry in Redis. *)
KeepPublished(w, m) ==
  /\ m \in republished[w]
  /\ republished' = [republished EXCEPT ![w] = {}]
  /\ UNCHANGED <<topic, postgres, retries, task, gauge, due, request, ghosts, spent>>

CancelPublished(w, m) ==
  /\ m \in republished[w]
  /\ retries' = Without(m)
  /\ republished' = [republished EXCEPT ![w] = {}]
  /\ UNCHANGED <<topic, postgres, task, gauge, due, request, ghosts, spent>>

-----------------------------------------------------------------------------
(* A worker dies and starts again: its tasks and its scheduler's list are  *)
(* gone, their messages are read again, and it counts the dead letters.    *)

Depth == Cardinality({d \in Pairs : dlq[d] # "none"})

Reading(w, m) == Cardinality({s \in Slots : task[<<w, s>>].msg = m})

Die(w) ==
  /\ topic' = [m \in Messages |-> topic[m] + Reading(w, m)]
  /\ task' = [t \in Tasks |-> IF t[1] = w THEN Free ELSE task[t]]
  /\ due' = [due EXCEPT ![w] = {}]
  /\ republished' = [republished EXCEPT ![w] = {}]
  /\ gauge' = [gauge EXCEPT ![w] = Depth]
  /\ UNCHANGED <<postgres, retries, request, ghosts>>

Crash(w) ==
  /\ crashes < MaxCrashes /\ crashes' = crashes + 1
  /\ Die(w)
  /\ UNCHANGED <<redeliveries, ops>>

(* An insert for an endpoint that was deleted violates its foreign key, an *)
(* infrastructure error to the loop.                                       *)
ForeignKeyError(w) ==
  /\ \E s \in Slots : /\ task[<<w, s>>].step \in {"record", "dlq"}
                      /\ task[<<w, s>>].ep \notin endpoints
  /\ Die(w)
  /\ UNCHANGED spent

-----------------------------------------------------------------------------
(* The operators: what the API's handlers do to deliveries *)

Begin(o, r) ==
  /\ request[o] = NoRequest /\ ops < MaxOps
  /\ ops' = ops + 1
  /\ request' = [request EXCEPT ![o] = r]

End(o) == request' = [request EXCEPT ![o] = NoRequest]

(* Some replay holds the dlq row FOR UPDATE. *)
RowLocked(d) ==
  \E o \in Operators : request[o] = [kind |-> "replay", ev |-> d[1], ep |-> d[2]]

(* retry_event: lock the event, publish; then delete its dlq rows, commit. *)
RetryPublish(o, e) ==
  /\ ~Locked(e)
  /\ Begin(o, [kind |-> "retry", ev |-> e, ep |-> None])
  /\ Add(FanOut(e))
  /\ UNCHANGED <<postgres, retries, task, gauge, sched, ghosts, crashes, redeliveries>>

RetryCommit(o) ==
  /\ request[o].kind = "retry"
  /\ \A p \in Endpoints : ~RowLocked(<<request[o].ev, p>>)
  /\ dlq' = [d \in Pairs |-> IF d[1] = request[o].ev THEN "none" ELSE dlq[d]]
  /\ End(o)
  /\ UNCHANGED <<topic, config, attempts, retries, task, gauge, sched, ghosts, spent>>

(* replay_dlq_entry: lock the row, publish; the delete is flushed by the   *)
(* commit.                                                                 *)
ReplayPublish(o, d) ==
  /\ dlq[d] # "none" /\ ~RowLocked(d)
  /\ Begin(o, [kind |-> "replay", ev |-> d[1], ep |-> d[2]])
  /\ Add(FanOut(d[1]))
  /\ UNCHANGED <<postgres, retries, task, gauge, sched, ghosts, crashes, redeliveries>>

(* The mutant locks the event as well, after the row. *)
ReplayCommitLocksEvent(o) ==
  /\ request[o].kind = "replay" /\ ~Locked(request[o].ev)
  /\ dlq' = [dlq EXCEPT ![<<request[o].ev, request[o].ep>>] = "none"]
  /\ End(o)
  /\ UNCHANGED <<topic, config, attempts, retries, task, gauge, sched, ghosts, spent>>

ReplayCommit(o) ==
  /\ request[o].kind = "replay"
  /\ dlq' = [dlq EXCEPT ![<<request[o].ev, request[o].ep>>] = "none"]
  /\ End(o)
  /\ UNCHANGED <<topic, config, attempts, retries, task, gauge, sched, ghosts, spent>>

(* The API process dies after the publish: the transaction rolls back. *)
RequestAborts(o) ==
  /\ request[o] # NoRequest
  /\ End(o)
  /\ UNCHANGED <<topic, postgres, retries, task, gauge, sched, ghosts, spent>>

Spend == ops < MaxOps /\ ops' = ops + 1

(* delete_dlq_entry: the operator gives the delivery up. *)
DeleteDLQ(d) ==
  /\ dlq[d] # "none" /\ ~RowLocked(d) /\ Spend
  /\ dlq' = [dlq EXCEPT ![d] = "none"]
  /\ waived' = waived \cup {d}
  /\ UNCHANGED <<topic, config, attempts, retries, task, gauge, sched, request, acked,
                 crashes, redeliveries>>

(* create_endpoint, with or without the type of the events. *)
CreateEndpoint(p, sub) ==
  /\ p \in unused /\ Spend
  /\ unused' = unused \ {p}
  /\ endpoints' = endpoints \cup {p} /\ enabled' = enabled \cup {p}
  /\ subscribed' = IF sub THEN subscribed \cup {p} ELSE subscribed
  /\ UNCHANGED <<topic, attempts, dlq, retries, task, gauge, sched, request, ghosts,
                 crashes, redeliveries>>

(* The deliveries an operator gives up with an endpoint; a dead letter is  *)
(* kept for a replay.                                                      *)
Unfinished(p) == {d \in Pairs : d[2] = p /\ dlq[d] = "none"}

(* update_endpoint, as far as it decides who is posted to. *)
UpdateEndpoint(p, on, sub) ==
  /\ p \in endpoints /\ Spend
  /\ enabled' = IF on THEN enabled \cup {p} ELSE enabled \ {p}
  /\ subscribed' = IF sub THEN subscribed \cup {p} ELSE subscribed \ {p}
  /\ waived' = IF on /\ sub THEN waived ELSE waived \cup Unfinished(p)
  /\ UNCHANGED <<topic, unused, endpoints, attempts, dlq, retries, task, gauge, sched,
                 request, acked, crashes, redeliveries>>

(* delete_endpoint: its attempts and dlq rows go with it, its scheduled    *)
(* retries do not.                                                         *)
DeleteEndpoint(p) ==
  /\ p \in endpoints /\ Spend
  /\ \A e \in Events : ~RowLocked(<<e, p>>)
  /\ endpoints' = endpoints \ {p}
  /\ enabled' = enabled \ {p} /\ subscribed' = subscribed \ {p}
  /\ attempts' = [k \in RetryMessages |-> IF k.ep = p THEN "none" ELSE attempts[k]]
  /\ dlq' = [d \in Pairs |-> IF d[2] = p THEN "none" ELSE dlq[d]]
  /\ waived' = waived \cup (Events \X {p})
  /\ UNCHANGED <<topic, unused, retries, task, gauge, sched, request, acked, crashes,
                 redeliveries>>

-----------------------------------------------------------------------------

TaskStep(t) ==
  \/ \E m \in Messages : Take(t, m)
  \/ \E p \in Endpoints : Check(t, p)
  \/ \E outcome \in Outcomes : Post(t, outcome)
  \/ Record(t)
  \/ Schedule(t)
  \/ InsertDLQ(t)
  \/ CancelOwn(t)

SchedulerStep(w) ==
  \/ Poll(w)
  \/ \E m \in RetryMessages : Republish(w, m)
  \/ \E m \in RetryMessages : CancelPublished(w, m)

RequestStep(o) == RetryCommit(o) \/ ReplayCommit(o) \/ RequestAborts(o)

OperatorStep ==
  \/ \E o \in Operators :
       \/ \E e \in Events : RetryPublish(o, e)
       \/ \E d \in Pairs : ReplayPublish(o, d)
       \/ RequestStep(o)
  \/ \E d \in Pairs : DeleteDLQ(d)
  \/ \E p \in Endpoints :
       \/ \E on, sub \in BOOLEAN : UpdateEndpoint(p, on, sub)
       \/ \E sub \in BOOLEAN : CreateEndpoint(p, sub)
       \/ DeleteEndpoint(p)

Next ==
  \/ \E t \in Tasks : TaskStep(t)
  \/ \E w \in Workers : SchedulerStep(w)
  \/ \E w \in Workers : Crash(w) \/ ForeignKeyError(w)
  \/ OperatorStep

Spec == Init /\ [][Next]_vars

(* Tasks and schedulers go on (every call they wait for has a timeout or   *)
(* raises), a worker whose insert failed exits, and a request that can     *)
(* commit does: that its process dies is never owed, so two transactions   *)
(* that wait for each other wait for ever.  The receiver owes nothing: it  *)
(* may fail every attempt.                                                 *)
FairSpec ==
  /\ Spec
  /\ \A t \in Tasks : WF_vars(TaskStep(t))
  /\ \A w \in Workers : WF_vars(SchedulerStep(w)) /\ WF_vars(ForeignKeyError(w))
  /\ \A o \in Operators : WF_vars(RetryCommit(o) \/ ReplayCommit(o))

-----------------------------------------------------------------------------

(* The state has its types; in particular no attempt number reaches the limit. *)
TypeOK ==
  /\ topic \in [Messages -> Nat]
  /\ endpoints \subseteq Endpoints \ unused /\ enabled \subseteq endpoints
  /\ unused \subseteq Endpoints /\ subscribed \subseteq endpoints
  /\ attempts \in [RetryMessages -> {"none", "success", "failure"}]
  /\ dlq \in [Pairs -> {"none", "permanent", "exhausted"}]
  /\ retries \in SUBSET RetryMessages
  /\ task \in [Tasks -> [step : Steps, msg : Messages \cup {FanOut(None)},
                         targets : SUBSET Endpoints, ep : Endpoints \cup {None},
                         outcome : Outcomes, inserted : BOOLEAN]]
  /\ gauge \in [Workers -> Nat]
  /\ due \in [Workers -> SUBSET RetryMessages]
  /\ republished \in [Workers -> SUBSET RetryMessages]
  /\ request \in [Operators -> [kind : {"none", "retry", "replay"},
                                ev : Events \cup {None}, ep : Endpoints \cup {None}]]
  /\ acked \in [Pairs -> Nat]
  /\ waived \subseteq Pairs

(* Something is still going to deliver event e to endpoint p. *)
InTopic(e, p) ==
  topic[FanOut(e)] > 0 \/ \E n \in Attempts : topic[Retry(e, p, n)] > 0
InTask(e, p) == \E t \in Tasks : task[t].msg.ev = e /\ p \in task[t].targets
InRedis(e, p) == \E r \in retries : r.ev = e /\ r.ep = p
Pending(e, p) == InTopic(e, p) \/ InTask(e, p) \/ InRedis(e, p)

(* Failed deliveries are never silently discarded (README.md): a delivery  *)
(* is pending, answered with a 2xx, or in the dead letter queue.           *)
NoLostDelivery ==
  \A e \in Events, p \in Endpoints :
    \/ acked[<<e, p>>] > 0
    \/ dlq[<<e, p>>] # "none"
    \/ Pending(e, p)
    \/ <<e, p>> \in waived

(* The audit trail has no holes: an attempt is on record only after the    *)
(* one before it, and a retry is scheduled or published only after the     *)
(* attempt that failed was recorded (_deliver_to_endpoint writes first).   *)
AuditTrailContiguous ==
  \A k \in RetryMessages :
    k.ep \in endpoints /\ k.n > 0 /\ (attempts[k] # "none" \/ k \in retries \/ topic[k] > 0) =>
      attempts[[k EXCEPT !.n = @ - 1]] # "none"

(* "Exhausted" is the truth: every attempt the limit allows is on record   *)
(* when a delivery is dead-lettered for that reason.                       *)
ExhaustedAfterAllAttempts ==
  \A d \in Pairs : dlq[d] = "exhausted" =>
    \A n \in Attempts : attempts[Retry(d[1], d[2], n)] # "none"

(* The audit trail is append-only: while its endpoint exists a recorded    *)
(* attempt is never changed or removed, by a duplicate delivery or a       *)
(* replay.                                                                 *)
AuditTrailAppendOnly ==
  [][\A k \in RetryMessages :
       attempts[k] # "none" /\ k.ep \in endpoints' => attempts'[k] = attempts[k]]_vars

(* The idempotency check holds: without duplicate messages an endpoint     *)
(* answers an event with a 2xx once.                                       *)
AckedOnce == \A d \in Pairs : acked[d] <= 1

(* A 2xx a task got is on record, unless the task is about to record it.   *)
Recording(e, p) ==
  \E t \in Tasks : task[t].step = "record" /\ task[t].msg.ev = e /\ task[t].ep = p
AckedIsLogged ==
  \A e \in Events, p \in Endpoints :
    acked[<<e, p>>] > 0 => HasSuccess(e, p) \/ Recording(e, p)

(* A dead-lettered delivery is over: it was not answered with a 2xx, and   *)
(* nothing is pending for it but the end of the task that gave it up and   *)
(* entries the schedulers are about to cancel.                             *)
DeadLetterIsFinal ==
  \A e \in Events, p \in Endpoints :
    dlq[<<e, p>>] # "none" =>
      /\ acked[<<e, p>>] = 0
      /\ ~InTopic(e, p)
      /\ \A t \in Tasks : task[t].msg.ev = e /\ p \in task[t].targets => task[t].step = "cancel"
      /\ \A r \in retries : r.ev = e /\ r.ep = p => \E w \in Workers : r \in republished[w]

(* What a worker shows as the depth of the dead letter queue is its depth, *)
(* but for the rows its tasks have inserted and not counted yet            *)
(* (worker_cli.py: "reflects real depth"): one worker, no operator.        *)
GaugeIsDepth ==
  \A w \in Workers : gauge[w] + Cardinality({s \in Slots : task[<<w, s>>].inserted}) = Depth

(* What the tasks and schedulers here do to Redis and to what they polled  *)
(* is what RetrySet allows, the promise that RetryStore keeps.             *)
Redis == INSTANCE RetrySet WITH
  Members <- RetryMessages, Schedulers <- Workers, scheduled <- retries
UsesRetrySet == Redis!Spec

(* Every delivery comes to an end: a 2xx or the dead letter queue ...      *)
EventuallyResolved ==
  \A d \in Pairs : <>(acked[d] > 0 \/ dlq[d] # "none")

(* ... and the system to rest: no message, task or retry keeps going       *)
(* round, whatever the operators did.                                      *)
EventuallyQuiet ==
  <>[](/\ \A m \in Messages : topic[m] = 0
       /\ \A t \in Tasks : task[t] = Free
       /\ retries = {})

=============================================================================
