--------------------------- MODULE DeliveryProofs ---------------------------
(***************************************************************************)
(* Proofs about Delivery, for any number of events, endpoints, workers,    *)
(* tasks, operators and attempts and any bounds on faults.  Three          *)
(* inductive invariants, each on top of the first:                         *)
(*   Typed        types, and what a task knows where it stands;            *)
(*   Trail        an attempt that was made, or that anyone has to make,    *)
(*                stands on the attempts before it;                        *)
(*   NothingLost  every delivery is over or in someone's hand, and what a  *)
(*                scheduler is about to cancel is in another hand.         *)
(***************************************************************************)
EXTENDS Delivery, FiniteSetTheorems, TLAPS

TaskStates == [step : Steps, msg : Messages \cup {FanOut(None)}, targets : SUBSET Endpoints,
               ep : Endpoints \cup {None}, outcome : Outcomes, inserted : BOOLEAN]

(* What a task knows fits where it stands. *)
Consistent(k) ==
  /\ k.step = "idle" => k.msg = FanOut(None) /\ k.targets = {}
  /\ k.step # "idle" => k.msg \in Messages
  /\ k.step # "idle" /\ k.msg.ep # None => k.targets = {k.msg.ep}
  /\ k.step \notin {"idle", "check"} => k.ep \in k.targets
  /\ k.step = "schedule" => k.msg.n + 1 < MaxAttempts

Typed == TypeOK /\ \A t \in Tasks : Consistent(task[t])

-----------------------------------------------------------------------------
(* Messages and counts *)

(* A retry is known by its parts. *)
LEMMA RetryParts ==
  \A m \in RetryMessages :
    /\ m \in Messages /\ m.ev \in Events /\ m.ep \in Endpoints /\ m.n \in Attempts
    /\ m = Retry(m.ev, m.ep, m.n)
BY DEF RetryMessages, Messages, Retry

(* ... and any parts make one. *)
LEMMA RetryMade ==
  ASSUME NEW e \in Events, NEW p \in Endpoints, NEW n \in Attempts
  PROVE  /\ Retry(e, p, n) \in RetryMessages
         /\ Retry(e, p, n).ev = e /\ Retry(e, p, n).ep = p /\ Retry(e, p, n).n = n
BY DEF RetryMessages, Retry

(* A message without an endpoint is a fan-out, any other a retry. *)
LEMMA MessageParts ==
  \A m \in Messages :
    /\ m.ev \in Events /\ m.ep \in Endpoints \cup {None} /\ m.n \in Attempts
    /\ m.ep # None => m \in RetryMessages
    /\ m.ep = None => m = FanOut(m.ev) /\ m.n = 0
<1>1. 0 \in Attempts
  BY MaxAttemptsAssumption DEF Attempts
<1>. QED BY <1>1, NoneAssumption DEF Messages, RetryMessages, Retry, FanOut

(* The idle task's message is no message. *)
LEMMA NoMessage == FanOut(None) \notin Messages /\ FanOut(None).ev = None
BY MessageParts, NoneAssumption DEF FanOut

(* A fan-out is a message and not a retry.                                 *)
LEMMA FanOutMade ==
  ASSUME NEW e \in Events
  PROVE  FanOut(e) \in Messages /\ FanOut(e) \notin RetryMessages
         /\ FanOut(e).ev = e /\ FanOut(e).ep = None /\ FanOut(e).n = 0
BY NoneAssumption, RetryParts DEF Messages, FanOut

(* What a worker counts is finite. *)
LEMMA Counts ==
  /\ Depth \in Nat
  /\ \A w \in Workers, m \in Messages : Reading(w, m) \in Nat
<1>1. IsFiniteSet(Pairs)
  BY FinitenessAssumption, FS_Product DEF Pairs
<1>2. IsFiniteSet({d \in Pairs : dlq[d] # "none"})
  BY <1>1, FS_Subset
<1>3. ASSUME NEW w \in Workers, NEW m \in Messages
      PROVE  IsFiniteSet({s \in Slots : task[<<w, s>>].msg = m})
  BY FinitenessAssumption, FS_Subset
<1>. QED BY <1>2, <1>3, FS_CardinalityType DEF Depth, Reading

(* A message some task of a worker reads is counted. *)
LEMMA ReadingCounts ==
  ASSUME NEW w \in Workers, NEW m \in Messages
  PROVE  Reading(w, m) > 0 <=> \E s \in Slots : task[<<w, s>>].msg = m
<1>. DEFINE S == {s \in Slots : task[<<w, s>>].msg = m}
<1>1. IsFiniteSet(S)
  BY FinitenessAssumption, FS_Subset
<1>2. Cardinality(S) \in Nat
  BY <1>1, FS_CardinalityType
<1>3. Cardinality(S) = 0 <=> S = {}
  BY <1>1, FS_EmptySet
<1>4. S = {} <=> ~ \E s \in Slots : task[<<w, s>>].msg = m
  OBVIOUS
<1>5. Reading(w, m) = Cardinality(S)
  BY DEF Reading
<1>. HIDE DEF S
<1>. QED BY <1>2, <1>3, <1>4, <1>5

-----------------------------------------------------------------------------
(* What the steps of a task do to it *)

(* Task t, and no other, is now k. *)
Becomes(t, k) == task' = [task EXCEPT ![t] = k]

(* A task that is done with an endpoint is free or goes on to the rest. *)
LEMMA DoneWithEffect ==
  ASSUME Typed, NEW t \in Tasks, NEW p \in task[t].targets, task[t].step # "idle", DoneWith(t, p)
  PROVE  \E k \in TaskStates :
           /\ Becomes(t, k) /\ Consistent(k)
           /\ \/ k = Free /\ task[t].targets = {p}
              \/ /\ k.step = "check" /\ k.msg = task[t].msg /\ k.msg.ep = None
                 /\ k.targets = task[t].targets \ {p} /\ k.targets # {}
<1>. DEFINE rest == task[t].targets \ {p}
            next == [Free EXCEPT !.step = "check", !.msg = task[t].msg, !.targets = rest]
<1>1. /\ task[t] \in TaskStates /\ Consistent(task[t])
  BY DEF Typed, TypeOK, TaskStates
<1>2. Free \in TaskStates /\ Consistent(Free)
  BY DEF Free, TaskStates, Steps, Outcomes, Consistent
<1>3. CASE rest = {}
  <2>1. Becomes(t, Free)
    BY <1>3 DEF DoneWith, Becomes
  <2>2. task[t].targets = {p}
    BY <1>3
  <2>. QED BY <1>2, <2>1, <2>2
<1>4. CASE rest # {}
  <2>1. Becomes(t, next)
    BY <1>4 DEF DoneWith, Becomes
  <2>2. /\ next.step = "check" /\ next.msg = task[t].msg /\ next.targets = rest
    BY DEF Free
  <2>3. next \in TaskStates
    BY <1>1 DEF Free, TaskStates, Steps, Outcomes
  <2>4. task[t].msg.ep = None /\ task[t].msg \in Messages
    BY <1>1, <1>4 DEF Consistent
  <2>5. Consistent(next)
    BY <2>2, <2>4 DEF Consistent
  <2>. QED BY <1>4, <2>1, <2>2, <2>3, <2>4, <2>5
<1>. QED BY <1>3, <1>4

(* A task that becomes a consistent state leaves the rest consistent. *)
LEMMA BecomesTyped ==
  ASSUME Typed, NEW t \in Tasks, NEW k \in TaskStates, Becomes(t, k), Consistent(k)
  PROVE  /\ task' \in [Tasks -> TaskStates] /\ task'[t] = k
         /\ \A u \in Tasks \ {t} : task'[u] = task[u]
         /\ \A u \in Tasks : Consistent(task[u])'
<1>1. task \in [Tasks -> TaskStates] /\ \A u \in Tasks : Consistent(task[u])
  BY DEF Typed, TypeOK, TaskStates
<1>2. /\ task' \in [Tasks -> TaskStates] /\ task'[t] = k
      /\ \A u \in Tasks \ {t} : task'[u] = task[u]
  BY <1>1 DEF Becomes
<1>3. \A u \in Tasks : Consistent(task'[u])
  BY <1>1, <1>2
<1>. QED BY <1>2, <1>3 DEF Consistent

-----------------------------------------------------------------------------
(* The type invariant *)

(* The tasks' part of it, for a step of one task. *)
OneMoves(t) == \E k \in TaskStates : Becomes(t, k) /\ Consistent(k)

(* A step of one task keeps the types of all.                              *)
LEMMA OneMovesTyped ==
  ASSUME Typed, NEW t \in Tasks, OneMoves(t)
  PROVE  task' \in [Tasks -> TaskStates] /\ \A u \in Tasks : Consistent(task[u])'
BY BecomesTyped DEF OneMoves

(* The parts of the state a task is in while it serves an endpoint. *)
LEMMA TaskParts ==
  ASSUME Typed, NEW t \in Tasks
  PROVE  /\ task[t] \in TaskStates /\ Consistent(task[t])
         /\ task[t].step # "idle" =>
              task[t].msg \in Messages /\ task[t].msg.ev \in Events /\ task[t].msg.n \in Attempts
         /\ task[t].step \notin {"idle", "check"} =>
              /\ task[t].ep \in task[t].targets /\ task[t].ep \in Endpoints
              /\ Key(t) \in RetryMessages /\ Pair(t) \in Pairs
              /\ Key(t).ev = task[t].msg.ev /\ Key(t).ep = task[t].ep
              /\ Key(t).n = task[t].msg.n
<1>1. task[t] \in TaskStates /\ Consistent(task[t])
  BY DEF Typed, TypeOK, TaskStates
<1>2. task[t].step # "idle" =>
        task[t].msg \in Messages /\ task[t].msg.ev \in Events /\ task[t].msg.n \in Attempts
  BY <1>1, MessageParts DEF Consistent
<1>3. task[t].step \notin {"idle", "check"} =>
        task[t].ep \in task[t].targets /\ task[t].ep \in Endpoints
  BY <1>1 DEF Consistent, TaskStates
<1>. QED BY <1>1, <1>2, <1>3, RetryMade DEF Key, Pair, Pairs

(* Taking a message: the task is free if it has no target. *)
LEMMA TakeEffect ==
  ASSUME Typed, NEW t \in Tasks, NEW m \in Messages, Take(t, m)
  PROVE  /\ Targets(m) \subseteq enabled /\ (m.ep # None => Targets(m) \subseteq {m.ep})
         /\ \E k \in TaskStates :
              /\ Becomes(t, k) /\ Consistent(k)
              /\ \/ k = Free /\ Targets(m) = {}
                 \/ k.step = "check" /\ k.msg = m /\ k.targets = Targets(m)
<1>. DEFINE next == [Free EXCEPT !.step = "check", !.msg = m, !.targets = Targets(m)]
<1>1. Targets(m) \subseteq enabled /\ enabled \subseteq Endpoints
      /\ (m.ep # None => Targets(m) \subseteq {m.ep})
  BY DEF Targets, Typed, TypeOK
<1>2. Free \in TaskStates /\ Consistent(Free)
  BY DEF Free, TaskStates, Steps, Outcomes, Consistent
<1>3. /\ next.step = "check" /\ next.msg = m /\ next.targets = Targets(m)
      /\ next \in TaskStates
  BY <1>1 DEF Free, TaskStates, Steps, Outcomes
<1>4. CASE Targets(m) = {}
  BY <1>1, <1>2, <1>4 DEF Take, Becomes
<1>5. CASE Targets(m) # {}
  <2>1. Consistent(next)
    BY <1>1, <1>3, <1>5 DEF Consistent
  <2>2. Becomes(t, next)
    BY <1>5 DEF Take, Becomes
  <2>. QED BY <1>1, <1>3, <2>1, <2>2
<1>. QED BY <1>4, <1>5

(* A check ends the service of an endpoint or starts the post. *)
LEMMA CheckEffect ==
  ASSUME Typed, NEW t \in Tasks, NEW p \in Endpoints, Check(t, p)
  PROVE  \/ HasSuccess(task[t].msg.ev, p) /\ DoneWith(t, p)
         \/ \E k \in TaskStates :
              /\ Becomes(t, k) /\ Consistent(k)
              /\ k.step = "post" /\ k.ep = p
              /\ k.msg = task[t].msg /\ k.targets = task[t].targets
<1>. DEFINE next == [task[t] EXCEPT !.step = "post", !.ep = p]
<1>1. task[t] \in TaskStates /\ Consistent(task[t]) /\ task[t].step = "check"
      /\ p \in task[t].targets
  BY TaskParts DEF Check
<1>2. /\ next \in TaskStates /\ next.step = "post" /\ next.ep = p
      /\ next.msg = task[t].msg /\ next.targets = task[t].targets
  BY <1>1 DEF TaskStates, Steps
<1>3. Consistent(next)
  BY <1>1, <1>2 DEF Consistent
<1>4. ~HasSuccess(task[t].msg.ev, p) => Becomes(t, next)
  BY <1>1 DEF Check, Becomes
<1>. QED BY <1>2, <1>3, <1>4 DEF Check

(* The outcome of a post is what is recorded next. *)
LEMMA PostEffect ==
  ASSUME Typed, NEW t \in Tasks, NEW outcome \in Outcomes, Post(t, outcome)
  PROVE  \E k \in TaskStates :
           /\ Becomes(t, k) /\ Consistent(k)
           /\ k.step = "record" /\ k.outcome = outcome /\ k.ep = task[t].ep
           /\ k.msg = task[t].msg /\ k.targets = task[t].targets
<1>. DEFINE next == [task[t] EXCEPT !.step = "record", !.outcome = outcome]
<1>1. task[t] \in TaskStates /\ Consistent(task[t]) /\ task[t].step = "post"
  BY TaskParts DEF Post
<1>2. /\ next \in TaskStates /\ next.step = "record" /\ next.outcome = outcome
      /\ next.ep = task[t].ep /\ next.msg = task[t].msg /\ next.targets = task[t].targets
  BY <1>1 DEF TaskStates, Steps
<1>3. Consistent(next)
  BY <1>1, <1>2 DEF Consistent
<1>4. Becomes(t, next)
  BY <1>1 DEF Post, Becomes
<1>. QED BY <1>2, <1>3, <1>4

(* Recording a failure leads to a retry or to the dead letter queue. *)
LEMMA RecordEffect ==
  ASSUME Typed, NEW t \in Tasks, Record(t)
  PROVE  \/ task[t].outcome = "success" /\ DoneWith(t, task[t].ep)
         \/ /\ task[t].outcome # "success"
            /\ \E k \in TaskStates :
                 /\ Becomes(t, k) /\ Consistent(k)
                 /\ k.outcome = task[t].outcome /\ k.ep = task[t].ep
                 /\ k.msg = task[t].msg /\ k.targets = task[t].targets
                 /\ \/ k.step = "schedule"
                    \/ /\ k.step = "dlq"
                       /\ k.outcome = "failure" => LastAttempt(task[t].msg.n)
<1>. DEFINE next(s) == [task[t] EXCEPT !.step = s]
<1>1. /\ task[t] \in TaskStates /\ Consistent(task[t]) /\ task[t].step = "record"
      /\ task[t].msg.n \in Attempts
  BY TaskParts DEF Record
<1>2. ASSUME NEW s \in {"schedule", "dlq"}
      PROVE  /\ next(s) \in TaskStates /\ next(s).step = s /\ next(s).outcome = task[t].outcome
             /\ next(s).ep = task[t].ep /\ next(s).msg = task[t].msg
             /\ next(s).targets = task[t].targets
  BY <1>1 DEF TaskStates, Steps
<1>3. CASE task[t].outcome = "success"
  BY <1>3 DEF Record
<1>4. CASE task[t].outcome = "permanent" \/
             (task[t].outcome = "failure" /\ LastAttempt(task[t].msg.n))
  <2>1. Becomes(t, next("dlq"))
    BY <1>4, <1>1 DEF Record, Goto, Becomes
  <2>2. Consistent(next("dlq"))
    BY <1>1, <1>2 DEF Consistent
  <2>. QED BY <1>4, <1>2, <2>1, <2>2
<1>5. CASE task[t].outcome = "failure" /\ ~LastAttempt(task[t].msg.n)
  <2>1. Becomes(t, next("schedule"))
    BY <1>5, <1>1 DEF Record, Goto, Becomes
  <2>2. task[t].msg.n + 1 < MaxAttempts
    BY <1>1, <1>5, MaxAttemptsAssumption DEF LastAttempt, Attempts
  <2>3. Consistent(next("schedule"))
    BY <1>1, <1>2, <2>2 DEF Consistent
  <2>. QED BY <1>5, <1>2, <2>1, <2>3
<1>. QED BY <1>1, <1>3, <1>4, <1>5 DEF TaskStates, Outcomes

(* After its insert a dead letter is still to be cancelled and counted. *)
LEMMA InsertDLQEffect ==
  ASSUME Typed, NEW t \in Tasks, InsertDLQ(t)
  PROVE  \E k \in TaskStates :
           /\ Becomes(t, k) /\ Consistent(k)
           /\ k.step = "cancel" /\ k.outcome = task[t].outcome /\ k.ep = task[t].ep
           /\ k.msg = task[t].msg /\ k.targets = task[t].targets
<1>. DEFINE next == [task[t] EXCEPT !.step = "cancel", !.inserted = dlq[Pair(t)] = "none"]
<1>1. task[t] \in TaskStates /\ Consistent(task[t]) /\ task[t].step = "dlq"
  BY TaskParts DEF InsertDLQ
<1>2. /\ next.step = "cancel" /\ next.outcome = task[t].outcome
      /\ next.ep = task[t].ep /\ next.msg = task[t].msg /\ next.targets = task[t].targets
  BY <1>1 DEF TaskStates
<1>3. next \in TaskStates
  BY <1>1 DEF TaskStates, Steps
<1>4. Consistent(next)
  BY <1>1, <1>2 DEF Consistent
<1>5. Becomes(t, next)
  BY <1>1 DEF InsertDLQ, Becomes
<1>. QED BY <1>2, <1>3, <1>4, <1>5

(* A system at rest has its types, whatever is on the topic.               *)
LEMMA QuietTyped ==
  ASSUME Quiescent, topic \in [Messages -> Nat]
  PROVE  Typed
<1>1. Free \in TaskStates /\ Consistent(Free)
  BY DEF Free, TaskStates, Steps, Outcomes, Consistent
<1>2. task = [t \in Tasks |-> Free]
  BY DEF Quiescent
<1>3. task \in [Tasks -> TaskStates] /\ \A t \in Tasks : Consistent(task[t])
  BY <1>1, <1>2
<1>. QED BY <1>3, EndpointsAssumption DEF Quiescent, Typed, TypeOK, TaskStates, NoRequest

(* No event has been taken when the system starts.                         *)
LEMMA TypedInit == Init => Typed
<1>1. Init => topic \in [Messages -> Nat]
  BY DEF Init
<1>. QED BY <1>1, QuietTyped DEF Init

(* Adding a message to the topic keeps it a bag of messages. *)
LEMMA AddTyped ==
  ASSUME topic \in [Messages -> Nat], NEW m \in Messages, Add(m)
  PROVE  /\ topic' \in [Messages -> Nat] /\ topic'[m] > 0
         /\ \A k \in Messages \ {m} : topic'[k] = topic[k]
         /\ \A k \in Messages : topic[k] > 0 => topic'[k] > 0
BY DEF Add

(* What a task does when it takes a message. *)
LEMMA TakeTyped ==
  ASSUME Typed, NEW t \in Tasks, NEW m \in Messages, Take(t, m)
  PROVE  Typed'
<1>1. OneMoves(t)
  BY TakeEffect DEF OneMoves
<1>2. topic' \in [Messages -> Nat]
  BY DEF Take, Typed, TypeOK
<1>. QED BY <1>1, <1>2, OneMovesTyped DEF Take, Typed, TypeOK, TaskStates, postgres, config, sched, ghosts

(* ... when it checks, ... *)
LEMMA CheckTyped ==
  ASSUME Typed, NEW t \in Tasks, NEW p \in Endpoints, Check(t, p)
  PROVE  Typed'
<1>1. OneMoves(t)
  BY CheckEffect, DoneWithEffect DEF OneMoves, Check
<1>. QED BY <1>1, OneMovesTyped DEF Check, Typed, TypeOK, TaskStates, postgres, config, sched, ghosts

(* ... posts, ... *)
LEMMA PostTyped ==
  ASSUME Typed, NEW t \in Tasks, NEW outcome \in Outcomes, Post(t, outcome)
  PROVE  Typed'
<1>1. OneMoves(t)
  BY PostEffect DEF OneMoves
<1>2. acked' \in [Pairs -> Nat]
  BY TaskParts DEF Post, Typed, TypeOK
<1>. QED BY <1>1, <1>2, OneMovesTyped DEF Post, Typed, TypeOK, TaskStates, postgres, config, sched

(* ... records, ... *)
LEMMA RecordTyped ==
  ASSUME Typed, NEW t \in Tasks, Record(t)
  PROVE  Typed'
<1>1. task[t].step = "record" /\ task[t].ep \in task[t].targets /\ Key(t) \in RetryMessages
  BY TaskParts DEF Record
<1>2. OneMoves(t)
  BY <1>1, RecordEffect, DoneWithEffect DEF OneMoves
<1>3. attempts' \in [RetryMessages -> {"none", "success", "failure"}]
  BY <1>1 DEF Record, InsertAttempt, Status, Typed, TypeOK
<1>. QED BY <1>2, <1>3, OneMovesTyped DEF Record, Typed, TypeOK, TaskStates, config, sched, ghosts

NextKey(t) == Retry(task[t].msg.ev, task[t].ep, task[t].msg.n + 1)

(* ... schedules a retry, whose attempt is within the limit, ... *)
LEMMA NextAttempt ==
  ASSUME Typed, NEW t \in Tasks, task[t].step = "schedule"
  PROVE  /\ [Key(t) EXCEPT !.n = @ + 1] = NextKey(t)
         /\ NextKey(t) \in RetryMessages
         /\ NextKey(t).ev = task[t].msg.ev /\ NextKey(t).ep = task[t].ep
         /\ NextKey(t).n = task[t].msg.n + 1
<1>1. task[t].msg.ev \in Events /\ task[t].ep \in Endpoints /\ task[t].msg.n \in Attempts
      /\ task[t].msg.n + 1 < MaxAttempts
  BY TaskParts DEF Consistent
<1>2. task[t].msg.n + 1 \in Attempts
  BY <1>1, MaxAttemptsAssumption DEF Attempts
<1>3. [Key(t) EXCEPT !.n = @ + 1] = NextKey(t)
  BY DEF Key, Retry, NextKey
<1>. QED BY <1>1, <1>2, <1>3, RetryMade DEF NextKey

(* The member of a retry is the retry: Redis keeps them apart. *)
LEMMA WithoutRemoves ==
  ASSUME Typed, NEW m \in RetryMessages
  PROVE  Without(m) = retries \ {m}
<1>1. \A r \in RetryMessages : Member(r) = Member(m) => r = m
  BY RetryParts DEF Member
<1>. QED BY <1>1 DEF Without, Typed, TypeOK

(* A task that schedules adds its next attempt to Redis. *)
LEMMA ScheduleAdds ==
  ASSUME Typed, NEW t \in Tasks, Schedule(t)
  PROVE  NextKey(t) \in RetryMessages /\ retries' = retries \cup {NextKey(t)}
<1>1. /\ [Key(t) EXCEPT !.n = @ + 1] = NextKey(t)
      /\ NextKey(t) \in RetryMessages
  BY NextAttempt DEF Schedule
<1>2. retries' = Scheduled(NextKey(t))
  BY <1>1 DEF Schedule
<1>. QED BY <1>1, <1>2, WithoutRemoves DEF Scheduled

(* Scheduling it keeps the types. *)
LEMMA ScheduleTyped ==
  ASSUME Typed, NEW t \in Tasks, Schedule(t)
  PROVE  Typed'
<1>1. task[t].step = "schedule" /\ task[t].ep \in task[t].targets
  BY TaskParts DEF Schedule
<1>2. OneMoves(t)
  BY <1>1, DoneWithEffect DEF OneMoves, Schedule
<1>3. retries' \in SUBSET RetryMessages
  BY ScheduleAdds DEF Typed, TypeOK
<1>. QED BY <1>2, <1>3, OneMovesTyped
         DEF Schedule, Typed, TypeOK, TaskStates, postgres, config, sched, ghosts

(* ... and dead-letters. *)
LEMMA InsertDLQTyped ==
  ASSUME Typed, NEW t \in Tasks, InsertDLQ(t)
  PROVE  Typed'
<1>1. OneMoves(t)
  BY InsertDLQEffect DEF OneMoves
<1>2. dlq' \in [Pairs -> {"none", "permanent", "exhausted"}]
  BY TaskParts DEF InsertDLQ, Reason, Typed, TypeOK
<1>. QED BY <1>1, <1>2, OneMovesTyped DEF InsertDLQ, Typed, TypeOK, TaskStates, config, sched, ghosts

(* The end of a delivery keeps the types.                                  *)
LEMMA CancelOwnTyped ==
  ASSUME Typed, NEW t \in Tasks, CancelOwn(t)
  PROVE  Typed'
<1>1. task[t].step = "cancel" /\ task[t].ep \in task[t].targets
  BY TaskParts DEF CancelOwn
<1>2. OneMoves(t)
  BY <1>1, DoneWithEffect DEF OneMoves, CancelOwn
<1>3. retries' \in SUBSET RetryMessages
  BY DEF CancelOwn, Without, Typed, TypeOK
<1>4. gauge' \in [Workers -> Nat]
  BY DEF CancelOwn, Typed, TypeOK, Tasks
<1>. QED BY <1>2, <1>3, <1>4, OneMovesTyped
         DEF CancelOwn, Typed, TypeOK, TaskStates, postgres, config, sched, ghosts

(* A worker that dies leaves free tasks and puts its messages back. *)
LEMMA DieTyped ==
  ASSUME Typed, NEW w \in Workers, Die(w)
  PROVE  Typed'
<1>1. Free \in TaskStates /\ Consistent(Free)
  BY DEF Free, TaskStates, Steps, Outcomes, Consistent
<1>2. task \in [Tasks -> TaskStates] /\ \A u \in Tasks : Consistent(task[u])
  BY DEF Typed, TypeOK, TaskStates
<1>3. /\ task' \in [Tasks -> TaskStates]
      /\ \A u \in Tasks : task'[u] = Free \/ task'[u] = task[u]
  BY <1>1, <1>2 DEF Die
<1>4. \A u \in Tasks : Consistent(task[u])'
  BY <1>1, <1>2, <1>3 DEF Consistent
<1>5. topic' \in [Messages -> Nat]
  BY Counts DEF Die, Typed, TypeOK
<1>6. gauge' \in [Workers -> Nat]
  BY Counts DEF Die, Typed, TypeOK
<1>. QED BY <1>3, <1>4, <1>5, <1>6 DEF Die, Typed, TypeOK, TaskStates, postgres, config, ghosts

(* The schedulers move retries from Redis to the topic. *)
LEMMA SchedulerTyped ==
  ASSUME Typed, NEW w \in Workers, SchedulerStep(w)
  PROVE  Typed'
<1>. USE DEF Typed, TypeOK, postgres, config, ghosts
<1>1. CASE Poll(w)
  BY <1>1 DEF Poll
<1>2. ASSUME NEW m \in RetryMessages, Republish(w, m) PROVE Typed'
  <2>1. m \in Messages
    BY RetryParts
  <2>2. topic' \in [Messages -> Nat]
    BY <1>2, <2>1, AddTyped DEF Republish
  <2>. QED BY <1>2, <2>2 DEF Republish
<1>3. ASSUME NEW m \in RetryMessages, CancelPublished(w, m) PROVE Typed'
  BY <1>3 DEF CancelPublished, Without
<1>. QED BY <1>1, <1>2, <1>3 DEF SchedulerStep

(* The operators change endpoints, dead letters and attempts as wholes. *)
LEMMA OperatorTyped ==
  ASSUME Typed, OperatorStep
  PROVE  Typed'
<1>. USE DEF Typed, TypeOK, postgres, config, sched, ghosts
<1>1. ASSUME NEW o \in Operators, NEW e \in Events, RetryPublish(o, e) PROVE Typed'
  <2>1. topic' \in [Messages -> Nat]
    BY <1>1, FanOutMade, AddTyped DEF RetryPublish
  <2>. QED BY <1>1, <2>1 DEF RetryPublish, Begin
<1>2. ASSUME NEW o \in Operators, NEW d \in Pairs, ReplayPublish(o, d) PROVE Typed'
  <2>1. d[1] \in Events /\ d[2] \in Endpoints
    BY DEF Pairs
  <2>2. topic' \in [Messages -> Nat]
    BY <1>2, <2>1, FanOutMade, AddTyped DEF ReplayPublish
  <2>. QED BY <1>2, <2>1, <2>2 DEF ReplayPublish, Begin
<1>3. ASSUME NEW o \in Operators, RequestStep(o) PROVE Typed'
  <2>1. CASE RetryCommit(o)
    BY <2>1 DEF RetryCommit, End, NoRequest
  <2>2. CASE ReplayCommit(o)
    BY <2>2 DEF ReplayCommit, End, NoRequest
  <2>3. CASE RequestAborts(o)
    BY <2>3 DEF RequestAborts, End, NoRequest
  <2>. QED BY <1>3, <2>1, <2>2, <2>3 DEF RequestStep
<1>4. ASSUME NEW d \in Pairs, DeleteDLQ(d) PROVE Typed'
  BY <1>4 DEF DeleteDLQ
<1>5. ASSUME NEW p \in Endpoints, NEW on \in BOOLEAN, NEW sub \in BOOLEAN, UpdateEndpoint(p, on, sub)
      PROVE  Typed'
  BY <1>5 DEF UpdateEndpoint, Unfinished
<1>6. ASSUME NEW p \in Endpoints, NEW sub \in BOOLEAN, CreateEndpoint(p, sub) PROVE Typed'
  BY <1>6 DEF CreateEndpoint
<1>7. ASSUME NEW p \in Endpoints, DeleteEndpoint(p) PROVE Typed'
  BY <1>7 DEF DeleteEndpoint, Pairs
<1>. QED BY <1>1, <1>2, <1>3, <1>4, <1>5, <1>6, <1>7 DEF OperatorStep

(* Every step keeps the types. *)
LEMMA TypedStep ==
  ASSUME Typed, [Next]_vars
  PROVE  Typed'
<1>1. ASSUME NEW t \in Tasks, TaskStep(t) PROVE Typed'
  BY <1>1, TakeTyped, CheckTyped, PostTyped, RecordTyped, ScheduleTyped, InsertDLQTyped,
     CancelOwnTyped DEF TaskStep
<1>2. ASSUME NEW w \in Workers, Crash(w) \/ ForeignKeyError(w) PROVE Typed'
  BY <1>2, DieTyped DEF Crash, ForeignKeyError
<1>3. CASE UNCHANGED vars
  BY <1>3 DEF vars, postgres, config, sched, ghosts, Typed, TypeOK, Consistent
<1>. QED BY <1>1, <1>2, <1>3, SchedulerTyped, OperatorTyped DEF Next

(* Types and tasks are always in order. *)
LEMMA AlwaysTyped == Spec => []Typed
BY TypedInit, TypedStep, PTL DEF Spec

(* The state has its types: in particular a task that fails at the limit   *)
(* never schedules an attempt beyond it.                                   *)
THEOREM TypeCorrect == Spec => []TypeOK
<1>1. Typed => TypeOK
  BY DEF Typed
<1>. QED BY <1>1, AlwaysTyped, PTL

-----------------------------------------------------------------------------
(* The audit trail *)

(* No endpoint is new but from the unused ids, and an attempt on record is *)
(* only erased with its endpoint and the endpoint's dead letters.          *)
Lasting ==
  /\ unused' \subseteq unused
  /\ endpoints' \subseteq endpoints \cup unused
  /\ \A k \in RetryMessages : attempts[k] # "none" =>
       \/ attempts'[k] = attempts[k]
       \/ k.ep \notin endpoints' /\ \A e \in Events : dlq'[<<e, k.ep>>] = "none"

(* That is so in every step; only delete_endpoint erases anything.         *)
LEMMA LastingStep ==
  ASSUME Typed, [Next]_vars
  PROVE  Lasting
<1>. USE DEF postgres, config, Lasting
<1>1. ASSUME NEW t \in Tasks, TaskStep(t) PROVE Lasting
  <2>1. CASE Record(t)
    <3>1. Key(t) \in RetryMessages /\ attempts \in [RetryMessages -> {"none", "success", "failure"}]
      BY <2>1, TaskParts DEF Record, Typed, TypeOK
    <3>. QED BY <2>1, <3>1 DEF Record, InsertAttempt
  <2>. QED BY <1>1, <2>1 DEF TaskStep, Take, Check, Post, Schedule, InsertDLQ, CancelOwn
<1>2. ASSUME NEW w \in Workers, SchedulerStep(w) PROVE Lasting
  BY <1>2 DEF SchedulerStep, Poll, Republish, CancelPublished
<1>3. ASSUME NEW w \in Workers, Crash(w) \/ ForeignKeyError(w) PROVE Lasting
  BY <1>3 DEF Crash, ForeignKeyError, Die
<1>4. CASE OperatorStep
  <2>1. ASSUME NEW p \in Endpoints, DeleteEndpoint(p) PROVE Lasting
    <3>1. \A e \in Events : <<e, p>> \in Pairs
      BY DEF Pairs
    <3>. QED BY <2>1, <3>1 DEF DeleteEndpoint
  <2>2. ASSUME NEW p \in Endpoints, NEW sub \in BOOLEAN, CreateEndpoint(p, sub) PROVE Lasting
    BY <2>2 DEF CreateEndpoint
  <2>. QED BY <1>4, <2>1, <2>2 DEF OperatorStep, RequestStep, RetryPublish, RetryCommit,
           ReplayPublish, ReplayCommit, RequestAborts, DeleteDLQ, UpdateEndpoint
<1>5. CASE UNCHANGED vars
  BY <1>5 DEF vars
<1>. QED BY <1>1, <1>2, <1>3, <1>4, <1>5 DEF Next

(* The audit trail is append-only: no duplicate delivery, replay or crash  *)
(* changes or removes an attempt on record while its endpoint exists.      *)
THEOREM TrailIsAppendOnly == Spec => AuditTrailAppendOnly
<1>. DEFINE Kept == \A k \in RetryMessages :
       attempts[k] # "none" /\ k.ep \in endpoints' => attempts'[k] = attempts[k]
<1>1. Lasting => Kept
  BY DEF Lasting
<1>. HIDE DEF Kept
<1>2. Typed /\ [Next]_vars => [Kept]_vars
  BY <1>1, LastingStep
<1>3. Spec => [][Kept]_vars
  BY <1>2, AlwaysTyped, PTL DEF Spec
<1>. QED BY <1>3 DEF Kept, AuditTrailAppendOnly

(* Task t is serving retry k, or a fan-out in its place. *)
Serving(t, k) ==
  task[t].msg.ev = k.ev /\ task[t].msg.n = k.n /\ k.ep \in task[t].targets

(* Attempt k was made, or someone has it to make. *)
Known(k) ==
  \/ attempts[k] # "none" \/ k \in retries \/ topic[k] > 0
  \/ \E w \in Workers : k \in due[w]
  \/ \E t \in Tasks : Serving(t, k)

(* All attempts before k are on record, unless their endpoint is gone. *)
Founded(k) ==
  /\ k.ep \notin unused
  /\ k.ep \in endpoints =>
       \A j \in Attempts : j < k.n => attempts[Retry(k.ev, k.ep, j)] # "none"

(* A task about to schedule a retry or to give up has recorded its failure. *)
FailureRecorded(t) ==
  task[t].step = "schedule" \/ (task[t].step = "dlq" /\ task[t].outcome # "permanent") =>
    /\ task[t].ep \in endpoints => attempts[Key(t)] # "none"
    /\ task[t].step = "dlq" => LastAttempt(task[t].msg.n)

Trail ==
  /\ \A k \in RetryMessages : Known(k) => Founded(k)
  /\ \A t \in Tasks : FailureRecorded(t)
  /\ ExhaustedAfterAllAttempts

(* What an attempt is founded on lasts. *)
LEMMA FoundedLasts ==
  ASSUME Lasting, NEW k \in RetryMessages, Founded(k)
  PROVE  Founded(k)'
<1>1. k.ep \notin unused' /\ (k.ep \in endpoints' => k.ep \in endpoints)
  BY DEF Lasting, Founded
<1>2. ASSUME k.ep \in endpoints', NEW j \in Attempts, j < k.n
      PROVE  attempts'[Retry(k.ev, k.ep, j)] # "none"
  <2>1. attempts[Retry(k.ev, k.ep, j)] # "none"
    BY <1>1, <1>2 DEF Founded
  <2>2. Retry(k.ev, k.ep, j) \in RetryMessages /\ Retry(k.ev, k.ep, j).ep = k.ep
    BY RetryParts, RetryMade
  <2>. QED BY <1>2, <2>1, <2>2 DEF Lasting
<1>. QED BY <1>1, <1>2 DEF Founded

(* A first attempt needs no foundation but its endpoint. *)
LEMMA FirstIsFounded ==
  ASSUME Typed, NEW k \in RetryMessages, k.n = 0, k.ep \in endpoints
  PROVE  Founded(k)
BY RetryParts DEF Founded, Typed, TypeOK, Attempts

(* A task that goes on serves nothing new. *)
LEMMA StillServing ==
  ASSUME Typed, NEW t \in Tasks, NEW k \in TaskStates, Becomes(t, k), Consistent(k),
         k = Free \/ (k.msg = task[t].msg /\ k.targets \subseteq task[t].targets)
  PROVE  \A u \in Tasks, r \in RetryMessages : Serving(u, r)' => Serving(u, r)
<1>1. task'[t] = k /\ \A u \in Tasks \ {t} : task'[u] = task[u]
  BY BecomesTyped
<1>. QED BY <1>1 DEF Serving, Free

(* What a task served is founded. *)
LEMMA KeyFounded ==
  ASSUME Typed, Trail, NEW t \in Tasks, task[t].step \notin {"idle", "check"}
  PROVE  Founded(Key(t))
<1>1. Serving(t, Key(t)) /\ Key(t) \in RetryMessages
  BY TaskParts DEF Serving
<1>. QED BY <1>1 DEF Trail, Known

(* One step of the induction: it is enough that what becomes known is      *)
(* founded, and that the tasks and the dead letters keep their word.       *)
LEMMA TrailKept ==
  ASSUME Lasting, Trail,
         \A k \in RetryMessages : Known(k)' => Known(k) \/ Founded(k)',
         \A t \in Tasks : FailureRecorded(t)',
         ExhaustedAfterAllAttempts'
  PROVE  Trail'
<1>1. \A k \in RetryMessages : Known(k)' => Founded(k)'
  BY FoundedLasts DEF Trail
<1>. QED BY <1>1 DEF Trail

(* A step that leaves the dead letters alone keeps their word. *)
LEMMA ExhaustedKept ==
  ASSUME Typed, Lasting, ExhaustedAfterAllAttempts,
         \A d \in Pairs : dlq'[d] = dlq[d] \/ dlq'[d] = "none"
  PROVE  ExhaustedAfterAllAttempts'
<1>1. ASSUME NEW d \in Pairs, dlq'[d] = "exhausted", NEW n \in Attempts
      PROVE  attempts'[Retry(d[1], d[2], n)] # "none"
  <2>1. d[1] \in Events /\ d[2] \in Endpoints /\ d = <<d[1], d[2]>>
    BY DEF Pairs
  <2>2. attempts[Retry(d[1], d[2], n)] # "none"
    BY <1>1 DEF ExhaustedAfterAllAttempts
  <2>. QED BY <1>1, <2>1, <2>2, RetryMade DEF Lasting
<1>. QED BY <1>1 DEF ExhaustedAfterAllAttempts

(* A task that is where it was has its failure on record still. *)
LEMMA RecordedKept ==
  ASSUME Typed, Lasting, Trail, NEW t \in Tasks, task'[t] = task[t]
  PROVE  FailureRecorded(t)'
<1>. SUFFICES ASSUME task[t].step = "schedule" \/
                       (task[t].step = "dlq" /\ task[t].outcome # "permanent")
              PROVE  /\ task[t].ep \in endpoints' => attempts'[Key(t)] # "none"
                     /\ task[t].step = "dlq" => LastAttempt(task[t].msg.n)
  BY DEF FailureRecorded, Key
<1>1. Key(t) \in RetryMessages /\ Key(t).ep = task[t].ep
  BY TaskParts
<1>2. task[t].ep \in endpoints' => task[t].ep \in endpoints
  BY <1>1, KeyFounded DEF Founded, Lasting
<1>. QED BY <1>1, <1>2 DEF Trail, FailureRecorded, Lasting

(* A task that takes a message: the fan-out is a first attempt, a retry    *)
(* was known on the topic.                                                 *)
LEMMA TakeTrail ==
  ASSUME Typed, Trail, Lasting, NEW t \in Tasks, NEW m \in Messages, Take(t, m)
  PROVE  Trail'
<1>1. PICK k \in TaskStates :
        /\ Becomes(t, k) /\ Consistent(k)
        /\ \/ k = Free /\ Targets(m) = {}
           \/ k.step = "check" /\ k.msg = m /\ k.targets = Targets(m)
  BY TakeEffect
<1>2. /\ task'[t] = k /\ \A u \in Tasks \ {t} : task'[u] = task[u]
  BY <1>1, BecomesTyped
<1>3. ASSUME NEW r \in RetryMessages, Serving(t, r)' PROVE Known(r) \/ Founded(r)'
  <2>1. k.msg = m /\ k.targets = Targets(m)
    BY <1>1, <1>2, <1>3 DEF Serving, Free
  <2>2. r.ev = m.ev /\ r.n = m.n /\ r.ep \in Targets(m) /\ r.ep \in enabled
        /\ (m.ep # None => r.ep = m.ep)
    BY <1>2, <1>3, <2>1, TakeEffect DEF Serving
  <2>3. CASE m.ep = None
    <3>1. r.n = 0 /\ r.ep \in endpoints
      BY <2>2, <2>3, MessageParts DEF Typed, TypeOK
    <3>. QED BY <3>1, FirstIsFounded, FoundedLasts
  <2>4. CASE m.ep # None
    <3>1. r = m
      BY <2>2, <2>4, RetryParts, MessageParts
    <3>. QED BY <3>1 DEF Known, Take
  <2>. QED BY <2>3, <2>4
<1>4. \A r \in RetryMessages : topic'[r] > 0 => topic[r] > 0
  BY RetryParts DEF Take, Typed, TypeOK
<1>5. \A r \in RetryMessages : Known(r)' => Known(r) \/ Founded(r)'
  BY <1>2, <1>3, <1>4 DEF Known, Serving, Take, postgres, sched
<1>6. FailureRecorded(t)'
  BY <1>1, <1>2 DEF FailureRecorded, Free
<1>7. ExhaustedAfterAllAttempts'
  BY ExhaustedKept DEF Take, postgres, Trail
<1>. QED BY <1>2, <1>5, <1>6, <1>7, RecordedKept, TrailKept

(* A task that goes on with what it has makes nothing known. *)
LEMMA TaskGoesOn ==
  ASSUME Typed, Trail, Lasting, NEW t \in Tasks,
         \E k \in TaskStates :
           /\ Becomes(t, k) /\ Consistent(k)
           /\ k.step \notin {"schedule", "dlq"}
           /\ k = Free \/ (k.msg = task[t].msg /\ k.targets \subseteq task[t].targets)
  PROVE  /\ \A u \in Tasks, r \in RetryMessages : Serving(u, r)' => Serving(u, r)
         /\ \A u \in Tasks : FailureRecorded(u)'
<1>1. PICK k \in TaskStates :
        /\ Becomes(t, k) /\ Consistent(k)
        /\ k.step \notin {"schedule", "dlq"}
        /\ k = Free \/ (k.msg = task[t].msg /\ k.targets \subseteq task[t].targets)
  OBVIOUS
<1>2. task'[t] = k /\ \A u \in Tasks \ {t} : task'[u] = task[u]
  BY <1>1, BecomesTyped
<1>3. FailureRecorded(t)'
  BY <1>1, <1>2 DEF FailureRecorded
<1>. QED BY <1>1, <1>2, <1>3, StillServing, RecordedKept

(* ... and so does one that is done with an endpoint. *)
LEMMA DoneGoesOn ==
  ASSUME Typed, NEW t \in Tasks, NEW p \in task[t].targets, task[t].step # "idle", DoneWith(t, p)
  PROVE  \E k \in TaskStates :
           /\ Becomes(t, k) /\ Consistent(k)
           /\ k.step \notin {"schedule", "dlq"}
           /\ k = Free \/ (k.msg = task[t].msg /\ k.targets \subseteq task[t].targets)
BY DoneWithEffect DEF Free

(* A check makes nothing known.                                            *)
LEMMA CheckTrail ==
  ASSUME Typed, Trail, Lasting, NEW t \in Tasks, NEW p \in Endpoints, Check(t, p)
  PROVE  Trail'
<1>1. \E k \in TaskStates :
        /\ Becomes(t, k) /\ Consistent(k) /\ k.step \notin {"schedule", "dlq"}
        /\ k = Free \/ (k.msg = task[t].msg /\ k.targets \subseteq task[t].targets)
  BY CheckEffect, DoneGoesOn DEF Check
<1>2. ExhaustedAfterAllAttempts'
  BY ExhaustedKept DEF Check, postgres, Trail
<1>. QED BY <1>1, <1>2, TaskGoesOn, TrailKept DEF Known, Check, postgres, sched

(* Nor does a POST.                                                        *)
LEMMA PostTrail ==
  ASSUME Typed, Trail, Lasting, NEW t \in Tasks, NEW outcome \in Outcomes, Post(t, outcome)
  PROVE  Trail'
<1>1. \E k \in TaskStates :
        /\ Becomes(t, k) /\ Consistent(k) /\ k.step \notin {"schedule", "dlq"}
        /\ k = Free \/ (k.msg = task[t].msg /\ k.targets \subseteq task[t].targets)
  BY PostEffect
<1>2. ExhaustedAfterAllAttempts'
  BY ExhaustedKept DEF Post, postgres, Trail
<1>. QED BY <1>1, <1>2, TaskGoesOn, TrailKept DEF Known, Post, postgres, sched

(* Recording makes the task's own attempt known, which it was serving.     *)
LEMMA RecordTrail ==
  ASSUME Typed, Trail, Lasting, NEW t \in Tasks, Record(t)
  PROVE  Trail'
<1>1. /\ task[t].step = "record" /\ task[t].ep \in task[t].targets
      /\ Key(t) \in RetryMessages /\ Serving(t, Key(t))
  BY TaskParts DEF Record, Serving
<1>2. /\ \A r \in RetryMessages \ {Key(t)} : attempts'[r] = attempts[r]
      /\ attempts'[Key(t)] # "none"
  BY <1>1 DEF Record, InsertAttempt, Status, Typed, TypeOK
<1>3. /\ \A u \in Tasks, r \in RetryMessages : Serving(u, r)' => Serving(u, r)
      /\ \A u \in Tasks : FailureRecorded(u)'
  <2>1. CASE task[t].outcome = "success" /\ DoneWith(t, task[t].ep)
    BY <1>1, <2>1, DoneGoesOn, TaskGoesOn
  <2>2. CASE task[t].outcome # "success"
    <3>1. PICK k \in TaskStates :
            /\ Becomes(t, k) /\ Consistent(k)
            /\ k.outcome = task[t].outcome /\ k.ep = task[t].ep
            /\ k.msg = task[t].msg /\ k.targets = task[t].targets
            /\ \/ k.step = "schedule"
               \/ /\ k.step = "dlq"
                  /\ k.outcome = "failure" => LastAttempt(task[t].msg.n)
      BY <2>2, RecordEffect
    <3>2. task'[t] = k /\ \A u \in Tasks \ {t} : task'[u] = task[u]
      BY <3>1, BecomesTyped
    <3>3. Key(t)' = Key(t)
      BY <3>1, <3>2 DEF Key
    <3>4. k.outcome \in {"failure", "permanent"}
      BY <2>2, <3>1 DEF TaskStates, Outcomes
    <3>5. FailureRecorded(t)'
      BY <1>2, <3>1, <3>2, <3>3, <3>4 DEF FailureRecorded
    <3>. QED BY <3>1, <3>2, <3>5, StillServing, RecordedKept
  <2>. QED BY <2>1, <2>2, RecordEffect
<1>4. ExhaustedAfterAllAttempts'
  BY ExhaustedKept DEF Record, Trail
<1>5. \A r \in RetryMessages : Known(r)' => Known(r)
  BY <1>1, <1>2, <1>3 DEF Known, Record, sched
<1>. QED BY <1>3, <1>4, <1>5, TrailKept

(* The attempt a task schedules stands on the one it has just recorded. *)
LEMMA ScheduleTrail ==
  ASSUME Typed, Trail, Lasting, NEW t \in Tasks, Schedule(t)
  PROVE  Trail'
<1>1. /\ task[t].step = "schedule" /\ task[t].ep \in task[t].targets
      /\ Key(t).ev = task[t].msg.ev /\ Key(t).ep = task[t].ep /\ Key(t).n = task[t].msg.n
      /\ task[t].msg.n \in Nat
  BY TaskParts DEF Schedule, Attempts
<1>2. /\ \A u \in Tasks, r \in RetryMessages : Serving(u, r)' => Serving(u, r)
      /\ \A u \in Tasks : FailureRecorded(u)'
  BY <1>1, DoneGoesOn, TaskGoesOn DEF Schedule
<1>3. /\ NextKey(t) \in RetryMessages /\ retries' = retries \cup {NextKey(t)}
      /\ NextKey(t).ev = task[t].msg.ev /\ NextKey(t).ep = task[t].ep
      /\ NextKey(t).n = task[t].msg.n + 1
  BY <1>1, ScheduleAdds, NextAttempt
<1>4. Founded(NextKey(t))
  <2>1. Founded(Key(t)) /\ FailureRecorded(t)
    BY <1>1, KeyFounded DEF Trail
  <2>2. \A j \in Attempts : j < task[t].msg.n + 1 => j < task[t].msg.n \/ j = task[t].msg.n
    BY <1>1 DEF Attempts
  <2>. QED BY <1>1, <1>3, <2>1, <2>2 DEF Founded, FailureRecorded, Key
<1>5. \A r \in RetryMessages : Known(r)' => Known(r) \/ r = NextKey(t)
  BY <1>2, <1>3 DEF Known, Schedule, postgres, sched
<1>6. ExhaustedAfterAllAttempts'
  BY ExhaustedKept DEF Schedule, postgres, Trail
<1>. QED BY <1>2, <1>3, <1>4, <1>5, <1>6, FoundedLasts, TrailKept

(* A delivery is exhausted when its last attempt and all before failed. *)
LEMMA InsertDLQTrail ==
  ASSUME Typed, Trail, Lasting, NEW t \in Tasks, InsertDLQ(t)
  PROVE  Trail'
<1>1. /\ task[t].step = "dlq" /\ task[t].ep \in endpoints /\ Pair(t) \in Pairs
      /\ Key(t) \in RetryMessages /\ task[t].msg.n \in Attempts
      /\ Key(t).ev = task[t].msg.ev /\ Key(t).ep = task[t].ep /\ Key(t).n = task[t].msg.n
  BY TaskParts DEF InsertDLQ
<1>2. \E k \in TaskStates :
        /\ Becomes(t, k) /\ Consistent(k) /\ k.step \notin {"schedule", "dlq"}
        /\ k = Free \/ (k.msg = task[t].msg /\ k.targets \subseteq task[t].targets)
  BY InsertDLQEffect
<1>3. ASSUME NEW d \in Pairs, dlq'[d] = "exhausted", NEW n \in Attempts
      PROVE  attempts'[Retry(d[1], d[2], n)] # "none"
  <2>1. attempts' = attempts
    BY DEF InsertDLQ
  <2>2. CASE dlq[d] = "exhausted"
    BY <2>1, <2>2, <1>3 DEF Trail, ExhaustedAfterAllAttempts
  <2>3. CASE dlq[d] # "exhausted"
    <3>1. d = Pair(t) /\ task[t].outcome # "permanent"
      BY <1>1, <1>3, <2>3 DEF InsertDLQ, Reason, Typed, TypeOK
    <3>2. d[1] = task[t].msg.ev /\ d[2] = task[t].ep
      BY <3>1 DEF Pair
    <3>3. LastAttempt(task[t].msg.n) /\ attempts[Key(t)] # "none"
      BY <1>1, <3>1 DEF Trail, FailureRecorded
    <3>4. n < task[t].msg.n \/ n = task[t].msg.n
      BY <1>1, <3>3, MaxAttemptsAssumption DEF LastAttempt, Attempts
    <3>5. Founded(Key(t))
      BY <1>1, KeyFounded
    <3>. QED BY <1>1, <2>1, <3>2, <3>3, <3>4, <3>5 DEF Founded, Key
  <2>. QED BY <2>2, <2>3
<1>4. ExhaustedAfterAllAttempts'
  BY <1>3 DEF ExhaustedAfterAllAttempts
<1>. QED BY <1>2, <1>4, TaskGoesOn, TrailKept DEF Known, InsertDLQ, config, sched

(* Nor does the end of a delivery.                                         *)
LEMMA CancelOwnTrail ==
  ASSUME Typed, Trail, Lasting, NEW t \in Tasks, CancelOwn(t)
  PROVE  Trail'
<1>1. /\ task[t].step = "cancel" /\ task[t].ep \in task[t].targets
  BY TaskParts DEF CancelOwn
<1>2. ExhaustedAfterAllAttempts'
  BY ExhaustedKept DEF CancelOwn, postgres, Trail
<1>3. retries' \subseteq retries
  BY DEF CancelOwn, Without
<1>. QED BY <1>1, <1>2, <1>3, DoneGoesOn, TaskGoesOn, TrailKept
         DEF Known, CancelOwn, postgres, sched

(* What a dead worker gives back it was serving. *)
LEMMA DieTrail ==
  ASSUME Typed, Trail, Lasting, NEW w \in Workers, Die(w)
  PROVE  Trail'
<1>1. \A u \in Tasks : task'[u] = Free \/ task'[u] = task[u]
  BY DEF Die
<1>2. ASSUME NEW r \in RetryMessages, topic'[r] > 0 PROVE Known(r)
  <2>1. r \in Messages /\ topic'[r] = topic[r] + Reading(w, r)
        /\ topic[r] \in Nat /\ Reading(w, r) \in Nat
    BY RetryParts, Counts DEF Die, Typed, TypeOK
  <2>2. CASE topic[r] > 0
    BY <2>2 DEF Known
  <2>3. CASE Reading(w, r) > 0
    <3>1. PICK s \in Slots : task[<<w, s>>].msg = r
      BY <2>1, <2>3, ReadingCounts
    <3>2. <<w, s>> \in Tasks
      BY DEF Tasks
    <3>3. Consistent(task[<<w, s>>])
      BY <3>2 DEF Typed
    <3>4. task[<<w, s>>].step # "idle" /\ r.ep # None
      BY <2>1, <3>1, <3>3, NoMessage, NoneAssumption, RetryParts DEF Consistent
    <3>5. Serving(<<w, s>>, r)
      BY <3>1, <3>3, <3>4 DEF Consistent, Serving
    <3>. QED BY <3>2, <3>5 DEF Known
  <2>. QED BY <1>2, <2>1, <2>2, <2>3
<1>3. \A u \in Tasks, r \in RetryMessages : Serving(u, r)' => Serving(u, r)
  BY <1>1 DEF Serving, Free
<1>4. \A v \in Workers : due'[v] \subseteq due[v]
  BY DEF Die, Typed, TypeOK
<1>5. \A r \in RetryMessages : Known(r)' => Known(r)
  BY <1>2, <1>3, <1>4 DEF Known, Die, postgres
<1>6. \A u \in Tasks : FailureRecorded(u)'
  <2>1. ASSUME NEW u \in Tasks, task'[u] = Free PROVE FailureRecorded(u)'
    BY <2>1 DEF FailureRecorded, Free
  <2>. QED BY <1>1, <2>1, RecordedKept
<1>7. ExhaustedAfterAllAttempts'
  BY ExhaustedKept DEF Die, postgres, Trail
<1>. QED BY <1>5, <1>6, <1>7, TrailKept

(* A retry goes from Redis to the scheduler and from there to the topic. *)
LEMMA SchedulerTrail ==
  ASSUME Typed, Trail, Lasting, NEW w \in Workers, SchedulerStep(w)
  PROVE  Trail'
<1>1. \A r \in RetryMessages : Known(r)' => Known(r)
  <2>1. CASE Poll(w)
    BY <2>1 DEF Known, Poll, Serving, postgres, Typed, TypeOK
  <2>2. ASSUME NEW m \in RetryMessages, Republish(w, m)
        PROVE  \A r \in RetryMessages : Known(r)' => Known(r)
    <3>1. Known(m)
      BY <2>2 DEF Known, Republish
    <3>2. \A r \in RetryMessages \ {m} : topic'[r] = topic[r]
      BY <2>2, RetryParts, AddTyped DEF Republish, Typed, TypeOK
    <3>3. \A v \in Workers : due'[v] \subseteq due[v]
      BY <2>2 DEF Republish, Typed, TypeOK
    <3>. QED BY <2>2, <3>1, <3>2, <3>3 DEF Known, Republish, Serving, postgres
  <2>3. ASSUME NEW m \in RetryMessages, CancelPublished(w, m)
        PROVE  \A r \in RetryMessages : Known(r)' => Known(r)
    BY <2>3 DEF Known, CancelPublished, Without, Serving, postgres
  <2>. QED BY <2>1, <2>2, <2>3 DEF SchedulerStep
<1>2. task' = task /\ dlq' = dlq
  BY DEF SchedulerStep, Poll, Republish, CancelPublished, postgres
<1>3. ExhaustedAfterAllAttempts'
  BY <1>2, ExhaustedKept DEF Trail
<1>. QED BY <1>1, <1>2, <1>3, RecordedKept, TrailKept

(* The operators make no retry known, and dead letters they only remove. *)
LEMMA OperatorTrail ==
  ASSUME Typed, Trail, Lasting, OperatorStep
  PROVE  Trail'
<1>. DEFINE Quiet ==
       /\ task' = task /\ retries' = retries /\ due' = due
       /\ \A r \in RetryMessages : topic'[r] = topic[r]
       /\ \A r \in RetryMessages : attempts'[r] # "none" => attempts[r] # "none"
       /\ \A d \in Pairs : dlq'[d] = dlq[d] \/ dlq'[d] = "none"
<1>1. ASSUME NEW o \in Operators, NEW e \in Events, RetryPublish(o, e) PROVE Quiet
  <2>1. \A r \in RetryMessages : topic'[r] = topic[r]
    BY <1>1, FanOutMade, RetryParts, AddTyped DEF RetryPublish, Typed, TypeOK
  <2>. QED BY <1>1, <2>1 DEF RetryPublish, postgres, sched
<1>2. ASSUME NEW o \in Operators, NEW d \in Pairs, ReplayPublish(o, d) PROVE Quiet
  <2>1. d[1] \in Events
    BY DEF Pairs
  <2>2. \A r \in RetryMessages : topic'[r] = topic[r]
    BY <1>2, <2>1, FanOutMade, RetryParts, AddTyped DEF ReplayPublish, Typed, TypeOK
  <2>. QED BY <1>2, <2>2 DEF ReplayPublish, postgres, sched
<1>3. ASSUME NEW o \in Operators, RequestStep(o) PROVE Quiet
  BY <1>3 DEF RequestStep, RetryCommit, ReplayCommit, RequestAborts, postgres, sched, Typed, TypeOK
<1>4. ASSUME NEW d \in Pairs, DeleteDLQ(d) PROVE Quiet
  BY <1>4 DEF DeleteDLQ, sched, Typed, TypeOK
<1>5. ASSUME NEW p \in Endpoints, NEW on \in BOOLEAN, NEW sub \in BOOLEAN, UpdateEndpoint(p, on, sub)
      PROVE  Quiet
  BY <1>5 DEF UpdateEndpoint, sched
<1>6. ASSUME NEW p \in Endpoints, NEW sub \in BOOLEAN, CreateEndpoint(p, sub) PROVE Quiet
  BY <1>6 DEF CreateEndpoint, sched
<1>7. ASSUME NEW p \in Endpoints, DeleteEndpoint(p) PROVE Quiet
  BY <1>7 DEF DeleteEndpoint, sched
<1>8. Quiet
  BY <1>1, <1>2, <1>3, <1>4, <1>5, <1>6, <1>7 DEF OperatorStep
<1>9. \A r \in RetryMessages : Known(r)' => Known(r)
  BY <1>8 DEF Known, Serving
<1>10. ExhaustedAfterAllAttempts'
  BY <1>8, ExhaustedKept DEF Trail
<1>. QED BY <1>8, <1>9, <1>10, RecordedKept, TrailKept

(* At the start nothing was tried and no retry exists. *)
LEMMA TrailInit == Init => Trail
<1>. SUFFICES ASSUME Init PROVE Trail
  OBVIOUS
<1>1. \A t \in Tasks : task[t] = Free
  BY DEF Init, Quiescent
<1>2. \A r \in RetryMessages : topic[r] = 0
  BY FanOutMade, RetryParts DEF Init
<1>3. \A r \in RetryMessages : ~Known(r)
  <2>1. \A r \in RetryMessages : attempts[r] = "none" /\ ~(topic[r] > 0)
    BY <1>2 DEF Init, Quiescent
  <2>2. retries = {} /\ \A w \in Workers : due[w] = {}
    BY DEF Init, Quiescent
  <2>3. \A t \in Tasks : task[t].targets = {}
    BY <1>1 DEF Free
  <2>. QED BY <2>1, <2>2, <2>3 DEF Known, Serving
<1>4. \A t \in Tasks : FailureRecorded(t)
  BY <1>1 DEF FailureRecorded, Free
<1>5. ExhaustedAfterAllAttempts
  BY DEF Init, Quiescent, ExhaustedAfterAllAttempts
<1>. QED BY <1>3, <1>4, <1>5 DEF Trail

(* Every step keeps the trail. *)
LEMMA TrailStep ==
  ASSUME Typed, Trail, [Next]_vars
  PROVE  Trail'
<1>1. Lasting
  BY LastingStep
<1>2. ASSUME NEW t \in Tasks, TaskStep(t) PROVE Trail'
  BY <1>1, <1>2, TakeTrail, CheckTrail, PostTrail, RecordTrail, ScheduleTrail, InsertDLQTrail,
     CancelOwnTrail DEF TaskStep
<1>3. ASSUME NEW w \in Workers, Crash(w) \/ ForeignKeyError(w) PROVE Trail'
  BY <1>1, <1>3, DieTrail DEF Crash, ForeignKeyError
<1>4. CASE UNCHANGED vars
  <2>1. ExhaustedAfterAllAttempts'
    BY <1>1, <1>4, ExhaustedKept DEF vars, postgres, Trail
  <2>. QED BY <1>1, <1>4, <2>1, RecordedKept, TrailKept
           DEF vars, postgres, sched, Known, Serving
<1>. QED BY <1>1, <1>2, <1>3, <1>4, SchedulerTrail, OperatorTrail DEF Next

(* The trail is always in order.                                           *)
LEMMA AlwaysTrail == Spec => []Trail
<1>1. Init => Typed /\ Trail
  BY TypedInit, TrailInit
<1>2. (Typed /\ Trail) /\ [Next]_vars => (Typed /\ Trail)'
  BY TypedStep, TrailStep
<1>. QED BY <1>1, <1>2, PTL DEF Spec

(* The audit trail has no holes, whatever fails, is read twice, or is      *)
(* asked for by operators.                                                 *)
THEOREM TrailHasNoHoles == Spec => []AuditTrailContiguous
<1>1. ASSUME Trail, Typed PROVE AuditTrailContiguous
  <2>. SUFFICES ASSUME NEW k \in RetryMessages, k.ep \in endpoints, k.n > 0,
                       attempts[k] # "none" \/ k \in retries \/ topic[k] > 0
                PROVE  attempts[[k EXCEPT !.n = @ - 1]] # "none"
    BY DEF AuditTrailContiguous
  <2>1. Founded(k)
    BY <1>1 DEF Trail, Known
  <2>2. k.n - 1 \in Attempts /\ k.n - 1 < k.n
    BY RetryParts, MaxAttemptsAssumption DEF Attempts
  <2>3. [k EXCEPT !.n = @ - 1] = Retry(k.ev, k.ep, k.n - 1)
    BY DEF RetryMessages, Retry
  <2>. QED BY <2>1, <2>2, <2>3 DEF Founded
<1>. QED BY <1>1, AlwaysTyped, AlwaysTrail, PTL

(* "Exhausted" is the truth, replays and duplicates included. *)
THEOREM ExhaustedIsTrue == Spec => []ExhaustedAfterAllAttempts
<1>1. Trail => ExhaustedAfterAllAttempts
  BY DEF Trail
<1>. QED BY <1>1, AlwaysTrail, PTL

-----------------------------------------------------------------------------
(* Redis is used as RetrySet allows *)

(* Redis starts empty.                                                     *)
LEMMA RedisInit == Init => Redis!Init
BY DEF Init, Quiescent, Redis!Init

(* Every step is one of RetrySet's or leaves Redis alone.                  *)
LEMMA RedisStep ==
  ASSUME Typed, [Next]_vars
  PROVE  [Redis!Next]_(Redis!vars)
<1>1. ASSUME NEW t \in Tasks, TaskStep(t) PROVE [Redis!Next]_(Redis!vars)
  <2>1. CASE Schedule(t)
    <3>1. NextKey(t) \in RetryMessages /\ Redis!Schedule(NextKey(t))
      BY <2>1, ScheduleAdds DEF Schedule, Redis!Schedule, sched
    <3>. QED BY <3>1 DEF Redis!Next
  <2>2. CASE CancelOwn(t)
    <3>1. Key(t) \in RetryMessages
      BY <2>2, TaskParts DEF CancelOwn
    <3>2. retries' = retries \ {Key(t)} \/ retries' = retries
      BY <2>2, <3>1, WithoutRemoves DEF CancelOwn
    <3>3. Redis!Cancel(Key(t)) \/ UNCHANGED Redis!vars
      BY <2>2, <3>2 DEF CancelOwn, Redis!Cancel, Redis!vars, sched
    <3>. QED BY <3>1, <3>3 DEF Redis!Next
  <2>. QED BY <1>1, <2>1, <2>2
           DEF TaskStep, Take, Check, Post, Record, InsertDLQ, sched, Redis!vars
<1>2. ASSUME NEW w \in Workers, SchedulerStep(w) PROVE Redis!Next
  <2>1. CASE Poll(w)
    <3>1. Redis!Poll(w)
      BY <2>1 DEF Poll, Redis!Poll
    <3>. QED BY <3>1 DEF Redis!Next
  <2>2. ASSUME NEW m \in RetryMessages, Republish(w, m) PROVE Redis!Next
    <3>1. Redis!Republish(w, m)
      BY <2>2 DEF Republish, Redis!Republish
    <3>. QED BY <3>1 DEF Redis!Next
  <2>3. ASSUME NEW m \in RetryMessages, CancelPublished(w, m) PROVE Redis!Next
    <3>1. Redis!CancelPublished(w, m)
      BY <2>3, WithoutRemoves DEF CancelPublished, Redis!CancelPublished
    <3>. QED BY <3>1 DEF Redis!Next
  <2>. QED BY <1>2, <2>1, <2>2, <2>3 DEF SchedulerStep
<1>3. ASSUME NEW w \in Workers, Crash(w) \/ ForeignKeyError(w) PROVE Redis!Next
  <2>1. Redis!Restart(w)
    BY <1>3 DEF Crash, ForeignKeyError, Die, Redis!Restart
  <2>. QED BY <2>1 DEF Redis!Next
<1>4. CASE OperatorStep
  BY <1>4 DEF OperatorStep, RequestStep, RetryPublish, RetryCommit, ReplayPublish, ReplayCommit,
     RequestAborts, DeleteDLQ, UpdateEndpoint, CreateEndpoint, DeleteEndpoint, sched, Redis!vars
<1>5. CASE UNCHANGED vars
  BY <1>5 DEF vars, sched, Redis!vars
<1>. QED BY <1>1, <1>2, <1>3, <1>4, <1>5 DEF Next

(* Tasks and schedulers use Redis through the promise RetryStore keeps. *)
THEOREM RedisIsARetrySet == Spec => UsesRetrySet
<1>. DEFINE Step == [Redis!Next]_(Redis!vars)
<1>1. Typed /\ [Next]_vars => Step
  BY RedisStep
<1>. QED BY <1>1, RedisInit, AlwaysTyped, PTL DEF Spec, UsesRetrySet, Redis!Spec

-----------------------------------------------------------------------------
(* Nothing is lost, as long as no operator intervenes *)

(* The delivery of e to p is over, or a message or a task whose attempt is *)
(* n or a later one has it in hand, or a retry after n is scheduled.       *)
Over(e, p) == acked[<<e, p>>] > 0 \/ dlq[<<e, p>>] # "none"
OnTopic(e, p, n) ==
  \E m \in Messages : m.ev = e /\ m.ep \in {p, None} /\ m.n >= n /\ topic[m] > 0
InHand(e, p, n) ==
  \E t \in Tasks : task[t].msg.ev = e /\ p \in task[t].targets /\ task[t].msg.n >= n
After(e, p, n) ==
  \E r \in retries : r.ev = e /\ r.ep = p /\ r.n > n

Held(e, p, n) == Over(e, p) \/ OnTopic(e, p, n) \/ InHand(e, p, n) \/ After(e, p, n)

(* No operator changes anything. *)
Calm ==
  /\ endpoints = Endpoints /\ enabled = Endpoints /\ subscribed = Endpoints
  /\ ops = 0 /\ request = [o \in Operators |-> NoRequest]

(* Successes on record were answers, and a delivery given up is dead. *)
Honest ==
  /\ \A k \in RetryMessages : attempts[k] = "success" => acked[<<k.ev, k.ep>>] > 0
  /\ \A t \in Tasks :
       /\ task[t].step = "record" /\ task[t].outcome = "success" => acked[Pair(t)] > 0
       /\ task[t].step = "cancel" => dlq[Pair(t)] # "none"

(* What a scheduler has published and is about to cancel is held by        *)
(* something else.                                                         *)
Backed == \A w \in Workers : \A m \in republished[w] : Held(m.ev, m.ep, m.n)

(* The strengthening of NoLostDelivery. *)
NothingLost ==
  /\ Calm /\ Honest /\ Backed
  /\ \A e \in Events, p \in Endpoints : Held(e, p, 0)

(* The steps that are left when there are no requests. *)
Steady ==
  \/ \E t \in Tasks : TaskStep(t)
  \/ \E w \in Workers : SchedulerStep(w)
  \/ \E w \in Workers : Crash(w) \/ ForeignKeyError(w)
  \/ UNCHANGED vars

(* Without requests no operator takes a step.                              *)
LEMMA NoOperator ==
  ASSUME MaxOps = 0, Calm, [Next]_vars
  PROVE  Steady /\ Calm'
<1>1. ~OperatorStep
  BY DEF Calm, OperatorStep, RequestStep, RetryPublish, RetryCommit, ReplayPublish, ReplayCommit,
         RequestAborts, DeleteDLQ, UpdateEndpoint, CreateEndpoint, DeleteEndpoint, Begin, Spend,
         NoRequest
<1>2. Steady
  BY <1>1 DEF Next, Steady
<1>3. Calm'
  BY <1>2 DEF Calm, Steady, TaskStep, Take, Check, Post, Record, Schedule, InsertDLQ, CancelOwn,
         SchedulerStep, Poll, Republish, CancelPublished, Crash, ForeignKeyError, Die, vars,
         postgres, config, spent
<1>. QED BY <1>2, <1>3

(* Answers and dead letters stay. *)
LEMMA OverLasts ==
  ASSUME Typed, Steady
  PROVE  \A d \in Pairs : /\ acked[d] > 0 => acked'[d] > 0
                          /\ dlq[d] # "none" => dlq'[d] = dlq[d]
<1>1. ASSUME NEW t \in Tasks, NEW outcome \in Outcomes, Post(t, outcome)
      PROVE  \A d \in Pairs : (acked[d] > 0 => acked'[d] > 0) /\ dlq'[d] = dlq[d]
  BY <1>1 DEF Post, postgres, Typed, TypeOK
<1>2. ASSUME NEW t \in Tasks, InsertDLQ(t)
      PROVE  \A d \in Pairs : acked'[d] = acked[d] /\ (dlq[d] # "none" => dlq'[d] = dlq[d])
  BY <1>2 DEF InsertDLQ, ghosts, Typed, TypeOK
<1>. QED BY <1>1, <1>2 DEF Steady, TaskStep, Take, Check, Record, Schedule, CancelOwn,
         SchedulerStep, Poll, Republish, CancelPublished, Crash, ForeignKeyError, Die, vars,
         postgres, ghosts

(* Until an operator intervenes an attempt on record stays.                *)
LEMMA RecordsStay ==
  ASSUME Typed, Steady
  PROVE  \A k \in RetryMessages : attempts[k] # "none" => attempts'[k] = attempts[k]
<1>1. ASSUME NEW t \in Tasks, Record(t)
      PROVE  \A k \in RetryMessages : attempts[k] # "none" => attempts'[k] = attempts[k]
  BY <1>1, TaskParts DEF Record, InsertAttempt, Typed, TypeOK
<1>. QED BY <1>1 DEF Steady, TaskStep, Take, Check, Post, Schedule, InsertDLQ, CancelOwn,
         SchedulerStep, Poll, Republish, CancelPublished, Crash, ForeignKeyError, Die, vars, postgres

(* Being done with one endpoint leaves the others in hand. *)
LEMMA OthersInHand ==
  ASSUME Typed, NEW t \in Tasks, NEW q \in task[t].targets, task[t].step # "idle",
         DoneWith(t, q), NEW p \in task[t].targets \ {q}
  PROVE  task'[t].msg = task[t].msg /\ p \in task'[t].targets
<1>1. PICK k \in TaskStates :
        /\ Becomes(t, k) /\ Consistent(k)
        /\ \/ k = Free /\ task[t].targets = {q}
           \/ /\ k.step = "check" /\ k.msg = task[t].msg /\ k.msg.ep = None
              /\ k.targets = task[t].targets \ {q} /\ k.targets # {}
  BY DoneWithEffect
<1>2. task'[t] = k
  BY <1>1, BecomesTyped
<1>. QED BY <1>1, <1>2

(* A message leaves the topic for a task that has all its endpoints. *)
LEMMA TopicHeld ==
  ASSUME Typed, Calm, Steady, NEW e \in Events, NEW p \in Endpoints, NEW n \in Nat,
         OnTopic(e, p, n)
  PROVE  OnTopic(e, p, n)' \/ InHand(e, p, n)'
<1>1. PICK m \in Messages : m.ev = e /\ m.ep \in {p, None} /\ m.n >= n /\ topic[m] > 0
  BY DEF OnTopic
<1>2. CASE topic'[m] > 0
  BY <1>1, <1>2 DEF OnTopic
<1>3. ASSUME NEW t \in Tasks, Take(t, m) PROVE InHand(e, p, n)'
  <2>1. p \in Targets(m)
    BY <1>1, NoneAssumption DEF Calm, Targets
  <2>2. PICK k \in TaskStates :
          /\ Becomes(t, k) /\ Consistent(k)
          /\ \/ k = Free /\ Targets(m) = {}
             \/ k.step = "check" /\ k.msg = m /\ k.targets = Targets(m)
    BY <1>3, TakeEffect
  <2>3. task'[t] = k
    BY <2>2, BecomesTyped
  <2>. QED BY <1>1, <2>1, <2>2, <2>3 DEF InHand
<1>4. topic'[m] > 0 \/ \E t \in Tasks : Take(t, m)
  <2>1. ASSUME NEW t \in Tasks, NEW k \in Messages \ {m}, Take(t, k) PROVE topic'[m] = topic[m]
    BY <2>1 DEF Take, Typed, TypeOK
  <2>2. ASSUME NEW w \in Workers, NEW k \in RetryMessages, Republish(w, k) PROVE topic'[m] > 0
    BY <1>1, <2>2, RetryParts, AddTyped DEF Republish, Typed, TypeOK
  <2>3. ASSUME NEW w \in Workers, Die(w) PROVE topic'[m] > 0
    BY <1>1, <2>3, Counts DEF Die, Typed, TypeOK
  <2>. QED BY <1>1, <2>1, <2>2, <2>3 DEF Steady, TaskStep, Check, Post, Record, Schedule,
           InsertDLQ, CancelOwn, SchedulerStep, Poll, CancelPublished, Crash, ForeignKeyError, vars
<1>. QED BY <1>2, <1>3, <1>4

(* A task lets go of an endpoint that was answered, or is dead, or whose   *)
(* next attempt it has scheduled; and of its message when its worker dies. *)
LEMMA TaskHeld ==
  ASSUME Typed, Honest, Steady, NEW e \in Events, NEW p \in Endpoints, NEW n \in Nat,
         InHand(e, p, n)
  PROVE  Held(e, p, n)'
<1>1. PICK t \in Tasks : task[t].msg.ev = e /\ p \in task[t].targets /\ task[t].msg.n >= n
  BY DEF InHand
<1>2. task[t].step # "idle" /\ task[t] \in TaskStates /\ Consistent(task[t])
      /\ task[t].msg \in Messages /\ task[t].msg.n \in Nat /\ <<e, p>> \in Pairs
  BY <1>1, TaskParts DEF Consistent, Attempts, Pairs
<1>3. CASE task'[t].msg = task[t].msg /\ p \in task'[t].targets
  BY <1>1, <1>3 DEF Held, InHand
<1>4. CASE TaskStep(t)
  <2>1. ASSUME NEW m \in Messages, Take(t, m) PROVE FALSE
    BY <1>2, <2>1 DEF Take
  <2>2. ASSUME NEW k \in TaskStates, Becomes(t, k), Consistent(k),
               k.msg = task[t].msg, k.targets = task[t].targets
        PROVE  Held(e, p, n)'
    BY <1>1, <1>3, <2>2, BecomesTyped
  <2>3. ASSUME NEW q \in task[t].targets, q # p, DoneWith(t, q) PROVE Held(e, p, n)'
    BY <1>1, <1>2, <1>3, <2>3, OthersInHand
  <2>4. Over(e, p) => Held(e, p, n)'
    BY <1>2, OverLasts DEF Over, Held
  <2>5. ASSUME NEW q \in Endpoints, Check(t, q) PROVE Held(e, p, n)'
    <3>1. CASE HasSuccess(e, q) /\ DoneWith(t, q)
      <4>1. HasSuccess(e, p) => Over(e, p)
        BY RetryMade DEF HasSuccess, Honest, Over
      <4>. QED BY <2>3, <2>4, <2>5, <3>1, <4>1 DEF Check
    <3>. QED BY <1>1, <2>2, <2>5, <3>1, CheckEffect
  <2>6. ASSUME NEW outcome \in Outcomes, Post(t, outcome) PROVE Held(e, p, n)'
    BY <2>2, <2>6, PostEffect
  <2>7. CASE Record(t)
    <3>1. task[t].ep \in task[t].targets
      BY <2>7, TaskParts DEF Record
    <3>2. task[t].outcome = "success" /\ task[t].ep = p => Over(e, p)
      BY <1>1, <2>7 DEF Record, Honest, Pair, Over
    <3>. QED BY <2>2, <2>3, <2>4, <2>7, <3>1, <3>2, RecordEffect
  <2>8. CASE Schedule(t)
    <3>1. task[t].step = "schedule" /\ task[t].ep \in task[t].targets /\ DoneWith(t, task[t].ep)
      BY <2>8, TaskParts DEF Schedule
    <3>2. CASE task[t].ep = p
      <4>1. /\ NextKey(t) \in retries' /\ NextKey(t).ev = e /\ NextKey(t).ep = p
            /\ NextKey(t).n = task[t].msg.n + 1
        BY <1>1, <2>8, <3>1, <3>2, ScheduleAdds, NextAttempt
      <4>2. NextKey(t).n > n
        BY <1>1, <1>2, <4>1
      <4>. QED BY <4>1, <4>2 DEF Held, After
    <3>. QED BY <2>3, <3>1, <3>2
  <2>9. CASE InsertDLQ(t)
    BY <2>2, <2>9, InsertDLQEffect
  <2>10. CASE CancelOwn(t)
    <3>1. task[t].step = "cancel" /\ task[t].ep \in task[t].targets /\ DoneWith(t, task[t].ep)
      BY <2>10, TaskParts DEF CancelOwn
    <3>2. task[t].ep = p => Over(e, p)
      BY <1>1, <3>1 DEF Honest, Pair, Over
    <3>. QED BY <2>3, <2>4, <3>1, <3>2
  <2>. QED BY <1>4, <2>1, <2>5, <2>6, <2>7, <2>8, <2>9, <2>10 DEF TaskStep
<1>5. ASSUME NEW w \in Workers, Die(w), t[1] = w PROVE Held(e, p, n)'
  <2>. DEFINE m == task[t].msg
  <2>1. PICK s \in Slots : t = <<w, s>>
    BY <1>5 DEF Tasks
  <2>2. Reading(w, m) > 0 /\ Reading(w, m) \in Nat
    BY <1>2, <2>1, ReadingCounts, Counts
  <2>3. topic'[m] > 0
    BY <1>2, <1>5, <2>2 DEF Die, Typed, TypeOK
  <2>4. m.ep \in {p, None}
    BY <1>1, <1>2 DEF Consistent
  <2>. QED BY <1>1, <1>2, <2>3, <2>4 DEF Held, OnTopic
<1>6. TaskStep(t) \/ task'[t] = task[t] \/ \E w \in Workers : Die(w) /\ t[1] = w
  <2>1. ASSUME NEW u \in Tasks \ {t}, TaskStep(u) PROVE task'[t] = task[t]
    BY <2>1 DEF TaskStep, Take, Check, Post, Record, Schedule, InsertDLQ, CancelOwn, DoneWith, Goto,
           Typed, TypeOK
  <2>2. ASSUME NEW w \in Workers, Die(w), t[1] # w PROVE task'[t] = task[t]
    BY <2>2 DEF Die
  <2>. QED BY <2>1, <2>2 DEF Steady, SchedulerStep, Poll, Republish, CancelPublished, Crash,
           ForeignKeyError, vars
<1>. QED BY <1>1, <1>3, <1>4, <1>5, <1>6

(* A retry leaves Redis when it is dead, or was published and is held.     *)
LEMMA RetryHeld ==
  ASSUME Typed, Honest, Backed, Steady, NEW e \in Events, NEW p \in Endpoints, NEW n \in Nat,
         After(e, p, n)
  PROVE  Held(e, p, n)'
<1>1. PICK r \in retries : r.ev = e /\ r.ep = p /\ r.n > n
  BY DEF After
<1>2. r \in RetryMessages /\ r.n \in Nat /\ <<e, p>> \in Pairs
  BY RetryParts DEF Typed, TypeOK, Attempts, Pairs
<1>3. CASE r \in retries'
  BY <1>1, <1>3 DEF Held, After
<1>4. ASSUME NEW t \in Tasks, CancelOwn(t), r \notin retries' PROVE Held(e, p, n)'
  <2>1. Key(t) \in RetryMessages /\ task[t].step = "cancel"
    BY <1>4, TaskParts DEF CancelOwn
  <2>2. r = Key(t)
    BY <1>4, <2>1, WithoutRemoves DEF CancelOwn
  <2>3. Pair(t) = <<e, p>>
    BY <1>1, <2>1, <2>2, TaskParts DEF Pair
  <2>4. Over(e, p)
    BY <2>1, <2>3 DEF Honest, Over
  <2>. QED BY <1>2, <2>4, OverLasts DEF Over, Held
<1>5. ASSUME NEW w \in Workers, NEW m \in RetryMessages, CancelPublished(w, m), r \notin retries'
      PROVE  Held(e, p, n)'
  <2>1. retries' = retries \ {m} /\ m \in republished[w]
    BY <1>5, WithoutRemoves DEF CancelPublished
  <2>2. r = m
    BY <1>5, <2>1
  <2>3. Held(e, p, r.n)
    BY <1>1, <2>1, <2>2 DEF Backed
  <2>4. UNCHANGED <<acked, dlq, topic, task>>
    BY <1>5 DEF CancelPublished, postgres, ghosts
  <2>5. CASE Over(e, p)
    BY <2>4, <2>5 DEF Over, Held
  <2>6. CASE OnTopic(e, p, r.n)
    <3>1. PICK k \in Messages : k.ev = e /\ k.ep \in {p, None} /\ k.n >= r.n /\ topic[k] > 0
      BY <2>6 DEF OnTopic
    <3>2. k.n >= n
      BY <1>1, <1>2, <3>1, MessageParts DEF Attempts
    <3>. QED BY <2>4, <3>1, <3>2 DEF OnTopic, Held
  <2>7. CASE InHand(e, p, r.n)
    <3>1. PICK u \in Tasks : task[u].msg.ev = e /\ p \in task[u].targets /\ task[u].msg.n >= r.n
      BY <2>7 DEF InHand
    <3>2. task[u].msg.n \in Nat
      BY <3>1, TaskParts DEF Consistent, Attempts
    <3>3. task[u].msg.n >= n
      BY <1>1, <1>2, <3>1, <3>2
    <3>. QED BY <2>4, <3>1, <3>3 DEF InHand, Held
  <2>8. CASE After(e, p, r.n)
    <3>1. PICK k \in retries : k.ev = e /\ k.ep = p /\ k.n > r.n
      BY <2>8 DEF After
    <3>2. k.n \in Nat
      BY <3>1, RetryParts DEF Typed, TypeOK, Attempts
    <3>3. k \in retries' /\ k.n > n
      BY <1>1, <1>2, <2>1, <2>2, <3>1, <3>2
    <3>. QED BY <3>1, <3>3 DEF After, Held
  <2>. QED BY <2>3, <2>5, <2>6, <2>7, <2>8 DEF Held
<1>6. \/ r \in retries'
      \/ \E t \in Tasks : CancelOwn(t)
      \/ \E w \in Workers, m \in RetryMessages : CancelPublished(w, m)
  <2>1. ASSUME NEW t \in Tasks, Schedule(t) PROVE r \in retries'
    BY <2>1, ScheduleAdds
  <2>. QED BY <2>1 DEF Steady, TaskStep, Take, Check, Post, Record, InsertDLQ,
           SchedulerStep, Poll, Republish, Crash, ForeignKeyError, Die, vars
<1>. QED BY <1>3, <1>4, <1>5, <1>6

(* So what is held stays held. *)
LEMMA HeldLasts ==
  ASSUME Typed, Calm, Honest, Backed, Steady, NEW e \in Events, NEW p \in Endpoints,
         NEW n \in Nat, Held(e, p, n)
  PROVE  Held(e, p, n)'
<1>1. CASE Over(e, p)
  <2>1. <<e, p>> \in Pairs
    BY DEF Pairs
  <2>. QED BY <1>1, <2>1, OverLasts DEF Over, Held
<1>. QED BY <1>1, TopicHeld, TaskHeld, RetryHeld DEF Held

(* A success is recorded by the task that got it, and a task gives up      *)
(* after its dead letter is in the queue.                                  *)
LEMMA HonestStep ==
  ASSUME Typed, Honest, Steady
  PROVE  Honest'
<1>1. ASSUME NEW k \in RetryMessages, attempts'[k] = "success"
      PROVE  acked'[<<k.ev, k.ep>>] > 0
  <2>1. <<k.ev, k.ep>> \in Pairs
    BY RetryParts DEF Pairs
  <2>2. CASE attempts[k] = "success"
    BY <2>1, <2>2, OverLasts DEF Honest
  <2>3. ASSUME NEW t \in Tasks, Record(t), attempts[k] # "success"
        PROVE  acked'[<<k.ev, k.ep>>] > 0
    <3>1. k = Key(t) /\ task[t].outcome = "success" /\ task[t].step = "record"
      BY <1>1, <2>3, TaskParts DEF Record, InsertAttempt, Status, Typed, TypeOK
    <3>2. Pair(t) = <<k.ev, k.ep>>
      BY <3>1, TaskParts DEF Pair
    <3>. QED BY <2>1, <3>1, <3>2, OverLasts DEF Honest
  <2>4. attempts' = attempts \/ \E t \in Tasks : Record(t)
    BY DEF Steady, TaskStep, Take, Check, Post, Schedule, InsertDLQ, CancelOwn,
       SchedulerStep, Poll, Republish, CancelPublished, Crash, ForeignKeyError, Die, vars, postgres
  <2>. QED BY <1>1, <2>2, <2>3, <2>4
<1>2. ASSUME NEW u \in Tasks
      PROVE  /\ task'[u].step = "record" /\ task'[u].outcome = "success" => acked'[Pair(u)'] > 0
             /\ task'[u].step = "cancel" => dlq'[Pair(u)'] # "none"
  <2>1. CASE task'[u] = task[u]
    BY <2>1, OverLasts, TaskParts DEF Honest, Pair
  <2>2. CASE TaskStep(u)
    <3>1. ASSUME NEW k \in TaskStates, Becomes(u, k), Consistent(k),
                 k.step \notin {"record", "cancel"}
          PROVE  task'[u].step \notin {"record", "cancel"}
      BY <3>1, BecomesTyped
    <3>2. ASSUME NEW q \in task[u].targets, task[u].step # "idle", DoneWith(u, q)
          PROVE  task'[u].step \notin {"record", "cancel"}
      BY <3>1, <3>2, DoneWithEffect DEF Free
    <3>3. ASSUME NEW m \in Messages, Take(u, m) PROVE task'[u].step \notin {"record", "cancel"}
      BY <3>1, <3>3, TakeEffect DEF Free
    <3>4. ASSUME NEW q \in Endpoints, Check(u, q) PROVE task'[u].step \notin {"record", "cancel"}
      BY <3>1, <3>2, <3>4, CheckEffect DEF Check
    <3>5. ASSUME NEW outcome \in Outcomes, Post(u, outcome)
          PROVE  /\ task'[u].step = "record"
                 /\ task'[u].outcome = "success" => acked'[Pair(u)'] > 0
      <4>1. PICK k \in TaskStates :
              /\ Becomes(u, k) /\ Consistent(k)
              /\ k.step = "record" /\ k.outcome = outcome /\ k.ep = task[u].ep
              /\ k.msg = task[u].msg /\ k.targets = task[u].targets
        BY <3>5, PostEffect
      <4>2. task'[u] = k /\ Pair(u)' = Pair(u)
        BY <4>1, BecomesTyped DEF Pair
      <4>3. outcome = "success" => acked'[Pair(u)] > 0
        BY <3>5, TaskParts DEF Post, Typed, TypeOK
      <4>. QED BY <4>1, <4>2, <4>3
    <3>6. CASE Record(u)
      BY <3>1, <3>2, <3>6, RecordEffect, TaskParts DEF Record
    <3>7. CASE Schedule(u)
      BY <3>2, <3>7, TaskParts DEF Schedule
    <3>8. CASE InsertDLQ(u)
      <4>1. PICK k \in TaskStates :
              /\ Becomes(u, k) /\ Consistent(k)
              /\ k.step = "cancel" /\ k.outcome = task[u].outcome /\ k.ep = task[u].ep
              /\ k.msg = task[u].msg /\ k.targets = task[u].targets
        BY <3>8, InsertDLQEffect
      <4>2. task'[u] = k /\ Pair(u)' = Pair(u)
        BY <4>1, BecomesTyped DEF Pair
      <4>3. dlq'[Pair(u)] # "none"
        BY <3>8, TaskParts DEF InsertDLQ, Reason, Typed, TypeOK
      <4>. QED BY <4>1, <4>2, <4>3
    <3>9. CASE CancelOwn(u)
      BY <3>2, <3>9, TaskParts DEF CancelOwn
    <3>. QED BY <2>2, <3>3, <3>4, <3>5, <3>6, <3>7, <3>8, <3>9 DEF TaskStep
  <2>3. CASE task'[u] = Free
    BY <2>3 DEF Free
  <2>4. task'[u] = task[u] \/ TaskStep(u) \/ task'[u] = Free
    <3>1. ASSUME NEW t \in Tasks \ {u}, TaskStep(t) PROVE task'[u] = task[u]
      BY <3>1 DEF TaskStep, Take, Check, Post, Record, Schedule, InsertDLQ, CancelOwn, DoneWith,
             Goto, Typed, TypeOK
    <3>2. ASSUME NEW w \in Workers, Die(w) PROVE task'[u] = task[u] \/ task'[u] = Free
      BY <3>2 DEF Die
    <3>. QED BY <3>1, <3>2 DEF Steady, SchedulerStep, Poll, Republish, CancelPublished, Crash,
             ForeignKeyError, vars
  <2>. QED BY <2>1, <2>2, <2>3, <2>4
<1>. QED BY <1>1, <1>2 DEF Honest

(* A system at rest has nothing to hold and nobody to claim anything.      *)
LEMMA QuietInit ==
  ASSUME InitialEndpoints = Endpoints, Quiescent
  PROVE  Calm /\ Honest /\ Backed
<1>1. Calm
  BY DEF Quiescent, Calm
<1>2. Honest
  BY DEF Quiescent, Honest, Free
<1>3. \A w \in Workers : republished[w] = {}
  BY DEF Quiescent
<1>. QED BY <1>1, <1>2, <1>3 DEF Backed

(* At the start every delivery is held by the event's fan-out.             *)
LEMMA NothingLostInit ==
  ASSUME InitialEndpoints = Endpoints, Init
  PROVE  NothingLost
<1>1. \A e \in Events, p \in Endpoints : Held(e, p, 0)
  BY FanOutMade DEF Init, Held, OnTopic
<1>. QED BY <1>1, QuietInit DEF Init, NothingLost

(* What a scheduler publishes is on the topic before it is cancelled.      *)
LEMMA BackedStep ==
  ASSUME Typed, Calm, Honest, Backed, Steady
  PROVE  Backed'
<1>1. ASSUME NEW w \in Workers, NEW m \in republished'[w] PROVE Held(m.ev, m.ep, m.n)'
  <2>1. CASE m \in republished[w]
    <3>1. m.ev \in Events /\ m.ep \in Endpoints /\ m.n \in Nat
      BY <2>1, RetryParts DEF Typed, TypeOK, Attempts
    <3>. QED BY <2>1, <3>1, HeldLasts DEF Backed
  <2>2. ASSUME NEW v \in Workers, NEW k \in RetryMessages, Republish(v, k), m \notin republished[w]
        PROVE  Held(m.ev, m.ep, m.n)'
    <3>1. m = k
      BY <1>1, <2>2 DEF Republish, Typed, TypeOK
    <3>2. k \in Messages /\ k.n \in Nat
      BY RetryParts DEF Attempts
    <3>3. topic'[k] > 0
      BY <2>2, <3>2, AddTyped DEF Republish, Typed, TypeOK
    <3>. QED BY <3>1, <3>2, <3>3 DEF Held, OnTopic
  <2>3. \/ m \in republished[w]
        \/ \E v \in Workers, k \in RetryMessages : Republish(v, k)
    BY <1>1 DEF Steady, TaskStep, Take, Check, Post, Record, Schedule, InsertDLQ, CancelOwn,
       SchedulerStep, Poll, CancelPublished, Crash, ForeignKeyError, Die, vars, sched, Typed, TypeOK
  <2>. QED BY <2>1, <2>2, <2>3
<1>. QED BY <1>1 DEF Backed

(* So no delivery is lost in any step.                                     *)
LEMMA NothingLostStep ==
  ASSUME MaxOps = 0, Typed, NothingLost, [Next]_vars
  PROVE  NothingLost'
<1>1. Steady /\ Calm'
  BY NoOperator DEF NothingLost
<1>2. Honest' /\ Backed'
  BY <1>1, HonestStep, BackedStep DEF NothingLost
<1>3. \A e \in Events, p \in Endpoints : Held(e, p, 0)'
  BY <1>1, HeldLasts DEF NothingLost
<1>. QED BY <1>1, <1>2, <1>3 DEF NothingLost

(* A delivery is answered, dead, or on its way, whatever crashes and       *)
(* however often messages are read, when no operator intervenes: with one  *)
(* it can be lost (replay_discards).                                       *)
THEOREM NoDeliveryIsLost ==
  ASSUME MaxOps = 0, InitialEndpoints = Endpoints
  PROVE  Spec => []NoLostDelivery
<1>1. Init => Typed /\ NothingLost
  BY TypedInit, NothingLostInit
<1>2. (Typed /\ NothingLost) /\ [Next]_vars => (Typed /\ NothingLost)'
  BY TypedStep, NothingLostStep
<1>3. Typed /\ NothingLost => NoLostDelivery
  <2>. SUFFICES ASSUME Typed, NothingLost, NEW e \in Events, NEW p \in Endpoints
                PROVE  Over(e, p) \/ Pending(e, p)
    BY DEF NoLostDelivery, Over
  <2>1. OnTopic(e, p, 0) => Pending(e, p)
    BY MessageParts, RetryParts DEF OnTopic, Pending, InTopic
  <2>2. InHand(e, p, 0) => Pending(e, p)
    BY DEF InHand, Pending, InTask
  <2>3. After(e, p, 0) => Pending(e, p)
    BY DEF After, Pending, InRedis
  <2>. QED BY <2>1, <2>2, <2>3 DEF NothingLost, Held
<1>. QED BY <1>1, <1>2, <1>3, PTL DEF Spec

-----------------------------------------------------------------------------
(* While no worker dies *)

(* The faults are counted. *)
Spent == crashes \in Nat /\ redeliveries \in Nat

(* They are at every step.                                                 *)
LEMMA SpentStep ==
  ASSUME Spent, [Next]_vars
  PROVE  Spent' /\ crashes' >= crashes /\ redeliveries' >= redeliveries
<1>1. ASSUME NEW t \in Tasks, TaskStep(t)
      PROVE  crashes' = crashes /\ redeliveries' \in {redeliveries, redeliveries + 1}
  BY <1>1 DEF TaskStep, Take, Check, Post, Record, Schedule, InsertDLQ, CancelOwn, spent
<1>2. ASSUME NEW w \in Workers, SchedulerStep(w) PROVE UNCHANGED <<crashes, redeliveries>>
  BY <1>2 DEF SchedulerStep, Poll, Republish, CancelPublished, spent
<1>3. ASSUME NEW w \in Workers, Crash(w) \/ ForeignKeyError(w)
      PROVE  crashes' \in {crashes, crashes + 1} /\ redeliveries' = redeliveries
  BY <1>3 DEF Crash, ForeignKeyError, spent
<1>4. CASE OperatorStep
  <2>1. UNCHANGED <<crashes, redeliveries>>
    BY <1>4 DEF OperatorStep, RequestStep, RetryPublish, RetryCommit, ReplayPublish, ReplayCommit,
       RequestAborts, DeleteDLQ, UpdateEndpoint, CreateEndpoint, DeleteEndpoint, spent
  <2>. QED BY <2>1 DEF Spent
<1>5. CASE UNCHANGED vars
  BY <1>5 DEF vars, spent, Spent
<1>. QED BY <1>1, <1>2, <1>3, <1>4, <1>5 DEF Spent, Next

(* The steps that are left when no worker dies either. *)
Alive ==
  \/ \E t \in Tasks : TaskStep(t)
  \/ \E w \in Workers : SchedulerStep(w)
  \/ UNCHANGED vars

(* A worker exits for an endpoint that was deleted: no operator, no exit.  *)
LEMMA NobodyDies ==
  ASSUME Typed, Calm, Spent, Steady, crashes' = 0
  PROVE  Alive /\ crashes = 0
<1>1. ASSUME NEW w \in Workers, Crash(w) PROVE FALSE
  BY <1>1 DEF Crash, Spent
<1>2. ASSUME NEW w \in Workers, ForeignKeyError(w) PROVE FALSE
  <2>1. PICK s \in Slots : /\ task[<<w, s>>].step \in {"record", "dlq"}
                          /\ task[<<w, s>>].ep \notin endpoints
    BY <1>2 DEF ForeignKeyError
  <2>2. <<w, s>> \in Tasks
    BY DEF Tasks
  <2>. QED BY <2>1, <2>2, TaskParts DEF Calm
<1>3. Alive
  BY <1>1, <1>2 DEF Steady, Alive
<1>4. crashes' = crashes
  BY <1>3 DEF Alive, TaskStep, Take, Check, Post, Record, Schedule, InsertDLQ, CancelOwn,
     SchedulerStep, Poll, Republish, CancelPublished, vars, spent
<1>. QED BY <1>3, <1>4

(* A step of a task leaves the other tasks alone. *)
LEMMA OthersWait ==
  ASSUME Typed, NEW t \in Tasks, TaskStep(t)
  PROVE  \A u \in Tasks \ {t} : task'[u] = task[u]
BY DEF TaskStep, Take, Check, Post, Record, Schedule, InsertDLQ, CancelOwn, DoneWith, Goto,
       Typed, TypeOK

=============================================================================
