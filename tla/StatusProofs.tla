---------------------------- MODULE StatusProofs ----------------------------
(***************************************************************************)
(* Why an event that is reported as retrying is being retried: an attempt  *)
(* that failed has a later one on its way behind it, or the end of its     *)
(* delivery on record, until a worker dies.  The steps of an inductive     *)
(* invariant, for any number of workers, tasks and duplicates; HookRelay's *)
(* proofs put them together.                                               *)
(***************************************************************************)
EXTENDS EventStatus, DeliveryProofs

(* The delivery of e to p is over as get_event sees it. *)
Closed(e, p) == HasSuccess(e, p) \/ InDLQ(e, p)

(* A task has recorded that attempt n or a later one failed and is about   *)
(* to do something about it.                                               *)
Failing(e, p, n) ==
  \E t \in Tasks : /\ task[t].step \in {"schedule", "dlq"} /\ task[t].ep = p
                   /\ task[t].msg.ev = e /\ task[t].msg.n >= n

(* Attempt n, or a later one, is on its way ... *)
Kept(e, p, n) == Closed(e, p) \/ OnTopic(e, p, n) \/ InHand(e, p, n) \/ After(e, p, n)

(* ... and what comes after attempt n has failed. *)
Later(e, p, n) == Kept(e, p, n + 1) \/ After(e, p, n) \/ Failing(e, p, n)

(* A failure on record is followed by something, and what a scheduler has  *)
(* published and is about to cancel is on its way.                         *)
Chased ==
  /\ \A k \in RetryMessages : attempts[k] = "failure" => Later(k.ev, k.ep, k.n)
  /\ \A w \in Workers : \A m \in republished[w] : Kept(m.ev, m.ep, m.n)

(* An answer has left an attempt on record, its own or the one its own was *)
(* dropped for, or is about to.                                            *)
Noted ==
  \A e \in Events, p \in Endpoints : acked[<<e, p>>] > 0 => Tried(e, p) \/ Recording(e, p)

-----------------------------------------------------------------------------

(* What is on its way after n is on its way from n. *)
LEMMA KeptFromLater ==
  ASSUME Typed, NEW e \in Events, NEW p \in Endpoints, NEW n \in Nat, NEW j \in Nat, j >= n
  PROVE  Kept(e, p, j) => Kept(e, p, n)
<1>1. \A m \in Messages : m.n \in Nat
  BY MessageParts DEF Attempts
<1>2. \A t \in Tasks : p \in task[t].targets => task[t].msg.n \in Nat
  BY TaskParts DEF Consistent, Attempts
<1>3. \A r \in retries : r.n \in Nat
  BY RetryParts DEF Typed, TypeOK, Attempts
<1>4. OnTopic(e, p, j) => OnTopic(e, p, n)
  BY <1>1 DEF OnTopic
<1>5. InHand(e, p, j) => InHand(e, p, n)
  BY <1>2 DEF InHand
<1>6. After(e, p, j) => After(e, p, n)
  BY <1>3 DEF After
<1>. QED BY <1>4, <1>5, <1>6 DEF Kept

(* After a step too.                                                       *)
LEMMA KeptFromLaterNext ==
  ASSUME Typed', NEW e \in Events, NEW p \in Endpoints, NEW n \in Nat, NEW j \in Nat, j >= n
  PROVE  Kept(e, p, j)' => Kept(e, p, n)'
<1>1. \A m \in Messages : m.n \in Nat
  BY MessageParts DEF Attempts
<1>2. \A t \in Tasks : p \in task'[t].targets => task'[t].msg.n \in Nat
  BY MessageParts DEF Typed, TypeOK, Consistent, Attempts
<1>3. \A r \in retries' : r.n \in Nat
  BY RetryParts DEF Typed, TypeOK, Attempts
<1>4. OnTopic(e, p, j)' => OnTopic(e, p, n)'
  BY <1>1 DEF OnTopic
<1>5. InHand(e, p, j)' => InHand(e, p, n)'
  BY <1>2 DEF InHand
<1>6. After(e, p, j)' => After(e, p, n)'
  BY <1>3 DEF After
<1>. QED BY <1>4, <1>5, <1>6 DEF Kept

(* The end of a delivery stays. *)
LEMMA ClosedLasts ==
  ASSUME Typed, Steady, NEW e \in Events, NEW p \in Endpoints, Closed(e, p)
  PROVE  Closed(e, p)'
<1>1. <<e, p>> \in Pairs
  BY DEF Pairs
<1>2. HasSuccess(e, p) => HasSuccess(e, p)'
  BY RecordsStay, RetryMade DEF HasSuccess
<1>3. InDLQ(e, p) => InDLQ(e, p)'
  BY <1>1, OverLasts DEF InDLQ
<1>. QED BY <1>2, <1>3 DEF Closed

(* What is held by a message, another task or Redis before a step that     *)
(* only moves task t and attempts.                                         *)
LEMMA KeptAround ==
  ASSUME Typed, Steady, NEW t \in Tasks, NEW e \in Events, NEW p \in Endpoints, NEW n \in Nat,
         UNCHANGED <<topic, retries>>, \A u \in Tasks \ {t} : task'[u] = task[u],
         task[t].msg.n < n, Kept(e, p, n)
  PROVE  Kept(e, p, n)'
<1>1. OnTopic(e, p, n) => OnTopic(e, p, n)'
  BY DEF OnTopic
<1>2. After(e, p, n) => After(e, p, n)'
  BY DEF After
<1>3. ASSUME InHand(e, p, n) PROVE InHand(e, p, n)'
  <2>1. PICK u \in Tasks : task[u].msg.ev = e /\ p \in task[u].targets /\ task[u].msg.n >= n
    BY <1>3 DEF InHand
  <2>2. task[u].msg.n \in Nat
    BY <2>1, TaskParts DEF Consistent, Attempts
  <2>3. CASE u = t
    <3>1. task[t].msg.n >= n /\ task[t].msg.n \in Nat
      BY <2>1, <2>2, <2>3
    <3>. QED BY <3>1
  <2>4. CASE u # t
    BY <2>1, <2>4 DEF InHand
  <2>. QED BY <2>3, <2>4
<1>. QED BY <1>1, <1>2, <1>3, ClosedLasts DEF Kept

(* A 2xx that comes after a failure of the same attempt was recorded is    *)
(* not on record, but the failure is followed by something.                *)
LEMMA RecordKept ==
  ASSUME Typed, Typed', Chased, Steady, NEW t \in Tasks, Record(t),
         task[t].outcome = "success", NEW e \in Events, NEW p \in Endpoints, NEW n \in Nat,
         task[t].msg.ev = e, task[t].ep = p, task[t].msg.n >= n
  PROVE  Kept(e, p, n)'
<1>1. task[t].step = "record" /\ \E j \in Attempts : task[t].msg.n = j
  BY TaskParts DEF Record
<1>2. PICK j \in Attempts : task[t].msg.n = j
  BY <1>1
<1>. DEFINE k == Retry(e, p, j)
<1>3. /\ Key(t) = k /\ k \in RetryMessages /\ k.ev = e /\ k.ep = p /\ k.n = j
      /\ j \in Nat /\ j >= n
  BY <1>2, RetryMade DEF Attempts, Key
<1>4. CASE attempts[k] # "failure"
  <2>1. attempts'[k] = "success"
    BY <1>3, <1>4 DEF Record, InsertAttempt, Status, Typed, TypeOK
  <2>2. HasSuccess(e, p)'
    BY <2>1 DEF HasSuccess
  <2>. QED BY <2>2 DEF Kept, Closed
<1>5. CASE attempts[k] = "failure"
  <2>1. UNCHANGED <<topic, retries>> /\ \A u \in Tasks \ {t} : task'[u] = task[u]
    BY OthersWait DEF Record, TaskStep
  <2>2. CASE Kept(e, p, j + 1)
    <3>1. Kept(e, p, j + 1)'
      BY <1>2, <1>3, <2>1, <2>2, KeptAround
    <3>. QED BY <1>3, <3>1, KeptFromLaterNext
  <2>3. CASE After(e, p, j)
    <3>1. Kept(e, p, j)'
      BY <2>1, <2>3 DEF After, Kept
    <3>. QED BY <1>3, <3>1, KeptFromLaterNext
  <2>4. CASE Failing(e, p, j)
    <3>1. PICK u \in Tasks : /\ task[u].step \in {"schedule", "dlq"} /\ task[u].ep = p
                             /\ task[u].msg.ev = e /\ task[u].msg.n >= j
      BY <2>4 DEF Failing
    <3>2. p \in task[u].targets /\ task'[u] = task[u]
      BY <1>1, <2>1, <3>1, TaskParts
    <3>3. Kept(e, p, j)'
      BY <3>1, <3>2 DEF InHand, Kept
    <3>. QED BY <1>3, <3>3, KeptFromLaterNext
  <2>. QED BY <1>3, <1>5, <2>2, <2>3, <2>4 DEF Chased, Later
<1>. QED BY <1>4, <1>5

(* A task lets go of an endpoint when its delivery is over or the next     *)
(* attempt scheduled.                                                      *)
LEMMA TaskKept ==
  ASSUME Typed, Typed', Honest, Chased, Steady, NEW t \in Tasks, TaskStep(t),
         NEW e \in Events, NEW p \in Endpoints, NEW n \in Nat,
         task[t].msg.ev = e, p \in task[t].targets, task[t].msg.n >= n
  PROVE  Kept(e, p, n)'
<1>1. task[t].step # "idle" /\ task[t] \in TaskStates /\ Consistent(task[t])
      /\ task[t].msg \in Messages /\ task[t].msg.n \in Nat
  BY TaskParts DEF Consistent, Attempts
<1>2. CASE task'[t].msg = task[t].msg /\ p \in task'[t].targets
  BY <1>2 DEF Kept, InHand
<1>3. ASSUME NEW k \in TaskStates, Becomes(t, k), Consistent(k),
             k.msg = task[t].msg, k.targets = task[t].targets
      PROVE  Kept(e, p, n)'
  BY <1>2, <1>3, BecomesTyped
<1>4. ASSUME NEW q \in task[t].targets, q # p, DoneWith(t, q) PROVE Kept(e, p, n)'
  BY <1>1, <1>2, <1>4, OthersInHand
<1>5. Closed(e, p) => Kept(e, p, n)'
  BY ClosedLasts DEF Kept
<1>6. ASSUME NEW m \in Messages, Take(t, m) PROVE FALSE
  BY <1>1, <1>6 DEF Take
<1>7. ASSUME NEW q \in Endpoints, Check(t, q) PROVE Kept(e, p, n)'
  <2>1. CASE HasSuccess(e, q) /\ DoneWith(t, q)
    BY <1>4, <1>5, <1>7, <2>1 DEF Check, Closed
  <2>. QED BY <1>3, <1>7, <2>1, CheckEffect
<1>8. ASSUME NEW outcome \in Outcomes, Post(t, outcome) PROVE Kept(e, p, n)'
  BY <1>3, <1>8, PostEffect
<1>9. CASE Record(t)
  <2>1. task[t].ep \in task[t].targets
    BY <1>9, TaskParts DEF Record
  <2>. QED BY <1>3, <1>4, <1>9, <2>1, RecordEffect, RecordKept
<1>10. CASE Schedule(t)
  <2>1. task[t].step = "schedule" /\ task[t].ep \in task[t].targets /\ DoneWith(t, task[t].ep)
    BY <1>10, TaskParts DEF Schedule
  <2>2. CASE task[t].ep = p
    <3>1. /\ NextKey(t) \in retries' /\ NextKey(t).ev = e /\ NextKey(t).ep = p
          /\ NextKey(t).n = task[t].msg.n + 1
      BY <1>10, <2>1, <2>2, ScheduleAdds, NextAttempt
    <3>2. NextKey(t).n > n
      BY <1>1, <3>1
    <3>. QED BY <3>1, <3>2 DEF Kept, After
  <2>. QED BY <1>4, <2>1, <2>2
<1>11. CASE InsertDLQ(t)
  BY <1>3, <1>11, InsertDLQEffect
<1>12. CASE CancelOwn(t)
  <2>1. task[t].step = "cancel" /\ task[t].ep \in task[t].targets /\ DoneWith(t, task[t].ep)
    BY <1>12, TaskParts DEF CancelOwn
  <2>2. task[t].ep = p => Closed(e, p)
    BY <2>1 DEF Honest, Pair, Closed, InDLQ
  <2>. QED BY <1>4, <1>5, <2>1, <2>2
<1>. QED BY <1>6, <1>7, <1>8, <1>9, <1>10, <1>11, <1>12 DEF TaskStep

(* ... and any task keeps what it has in hand, when nobody dies. *)
LEMMA HandKept ==
  ASSUME Typed, Typed', Honest, Chased, Steady, Alive, NEW e \in Events, NEW p \in Endpoints,
         NEW n \in Nat, InHand(e, p, n)
  PROVE  Kept(e, p, n)'
<1>1. PICK t \in Tasks : task[t].msg.ev = e /\ p \in task[t].targets /\ task[t].msg.n >= n
  BY DEF InHand
<1>2. CASE task'[t] = task[t]
  BY <1>1, <1>2 DEF Kept, InHand
<1>3. TaskStep(t) \/ task'[t] = task[t]
  BY OthersWait DEF Alive, SchedulerStep, Poll, Republish, CancelPublished, vars
<1>. QED BY <1>1, <1>2, <1>3, TaskKept

(* A retry leaves Redis when its delivery is dead, or when it was          *)
(* published and is on its way.                                            *)
LEMMA RetryKept ==
  ASSUME Typed, Typed', Honest, Chased, Steady, Alive, NEW e \in Events, NEW p \in Endpoints,
         NEW n \in Nat, After(e, p, n)
  PROVE  After(e, p, n)' \/ Kept(e, p, n + 1)'
<1>1. PICK r \in retries : r.ev = e /\ r.ep = p /\ r.n > n
  BY DEF After
<1>2. r \in RetryMessages /\ r.n \in Nat
  BY RetryParts DEF Typed, TypeOK, Attempts
<1>3. CASE r \in retries'
  BY <1>1, <1>3 DEF After
<1>4. ASSUME NEW t \in Tasks, CancelOwn(t), r \notin retries' PROVE Kept(e, p, n + 1)'
  <2>1. Key(t) \in RetryMessages /\ task[t].step = "cancel"
    BY <1>4, TaskParts DEF CancelOwn
  <2>2. r = Key(t)
    BY <1>4, <2>1, WithoutRemoves DEF CancelOwn
  <2>3. Pair(t) = <<e, p>>
    BY <1>1, <2>1, <2>2, TaskParts DEF Pair
  <2>4. Closed(e, p)
    BY <2>1, <2>3 DEF Honest, Closed, InDLQ
  <2>. QED BY <2>4, ClosedLasts DEF Kept
<1>5. ASSUME NEW w \in Workers, NEW m \in RetryMessages, CancelPublished(w, m), r \notin retries'
      PROVE  Kept(e, p, n + 1)'
  <2>1. retries' = retries \ {m} /\ m \in republished[w]
    BY <1>5, WithoutRemoves DEF CancelPublished
  <2>2. r = m
    BY <1>5, <2>1
  <2>3. Kept(e, p, r.n)
    BY <1>1, <2>1, <2>2 DEF Chased
  <2>4. UNCHANGED <<topic, task>>
    BY <1>5 DEF CancelPublished
  <2>5. After(e, p, r.n) => After(e, p, r.n)'
    <3>1. ASSUME NEW k \in retries, k.ev = e, k.ep = p, k.n > r.n PROVE k \in retries'
      BY <1>2, <2>1, <2>2, <3>1
    <3>. QED BY <3>1 DEF After
  <2>6. Kept(e, p, r.n)'
    BY <2>3, <2>4, <2>5, ClosedLasts DEF Kept, OnTopic, InHand
  <2>. QED BY <1>1, <1>2, <2>6, KeptFromLaterNext
<1>6. \/ r \in retries'
      \/ \E t \in Tasks : CancelOwn(t)
      \/ \E w \in Workers, m \in RetryMessages : CancelPublished(w, m)
  <2>1. ASSUME NEW t \in Tasks, Schedule(t) PROVE r \in retries'
    BY <2>1, ScheduleAdds
  <2>. QED BY <2>1 DEF Alive, TaskStep, Take, Check, Post, Record, InsertDLQ,
           SchedulerStep, Poll, Republish, vars
<1>. QED BY <1>3, <1>4, <1>5, <1>6

(* So what is on its way stays on its way, ...                             *)
LEMMA KeptLasts ==
  ASSUME Typed, Typed', Calm, Honest, Chased, Steady, Alive, NEW e \in Events,
         NEW p \in Endpoints, NEW n \in Nat, Kept(e, p, n)
  PROVE  Kept(e, p, n)'
<1>1. CASE OnTopic(e, p, n)
  BY <1>1, TopicHeld, HandKept DEF Kept
<1>2. CASE After(e, p, n)
  <2>1. After(e, p, n)' \/ Kept(e, p, n + 1)'
    BY <1>2, RetryKept
  <2>2. Kept(e, p, n + 1)' => Kept(e, p, n)'
    BY KeptFromLaterNext
  <2>. QED BY <2>1, <2>2 DEF Kept
<1>. QED BY <1>1, <1>2, HandKept, ClosedLasts DEF Kept

(* ... a task that failed sees to it that something comes after, ...       *)
LEMMA FailingLasts ==
  ASSUME Typed, Typed', Steady, Alive, NEW e \in Events, NEW p \in Endpoints, NEW n \in Nat,
         Failing(e, p, n)
  PROVE  Later(e, p, n)'
<1>1. PICK t \in Tasks : /\ task[t].step \in {"schedule", "dlq"} /\ task[t].ep = p
                         /\ task[t].msg.ev = e /\ task[t].msg.n >= n
  BY DEF Failing
<1>2. CASE task'[t] = task[t]
  BY <1>1, <1>2 DEF Later, Failing
<1>3. CASE Schedule(t)
  <2>1. /\ NextKey(t) \in retries' /\ NextKey(t).ev = e /\ NextKey(t).ep = p
        /\ NextKey(t).n = task[t].msg.n + 1 /\ task[t].msg.n \in Nat
    BY <1>1, <1>3, ScheduleAdds, NextAttempt, TaskParts DEF Schedule, Attempts
  <2>2. NextKey(t).n > n
    BY <1>1, <2>1
  <2>. QED BY <2>1, <2>2 DEF Later, After
<1>4. CASE InsertDLQ(t)
  <2>1. dlq'[Pair(t)] # "none" /\ Pair(t) = <<e, p>>
    BY <1>1, <1>4, TaskParts DEF InsertDLQ, Reason, Pair, Typed, TypeOK
  <2>. QED BY <2>1 DEF Later, Kept, Closed, InDLQ
<1>5. TaskStep(t) => Schedule(t) \/ InsertDLQ(t)
  BY <1>1 DEF TaskStep, Take, Check, Post, Record, CancelOwn
<1>6. TaskStep(t) \/ task'[t] = task[t]
  BY OthersWait DEF Alive, SchedulerStep, Poll, Republish, CancelPublished, vars
<1>. QED BY <1>2, <1>3, <1>4, <1>5, <1>6

(* ... and what comes after a failure keeps coming.                        *)
LEMMA LaterLasts ==
  ASSUME Typed, Typed', Calm, Honest, Chased, Steady, Alive, NEW e \in Events,
         NEW p \in Endpoints, NEW n \in Nat, Later(e, p, n)
  PROVE  Later(e, p, n)'
BY KeptLasts, RetryKept, FailingLasts DEF Later

(* Nothing is chased at the start.                                         *)
LEMMA ChasedInit == Quiescent => Chased
BY DEF Quiescent, Chased

(* A step without a death keeps every failure followed by something.       *)
LEMMA ChasedStep ==
  ASSUME Typed, Typed', Calm, Honest, Chased, Steady, Alive
  PROVE  Chased'
<1>1. ASSUME NEW k \in RetryMessages, attempts'[k] = "failure" PROVE Later(k.ev, k.ep, k.n)'
  <2>1. k.ev \in Events /\ k.ep \in Endpoints /\ k.n \in Nat
    BY RetryParts DEF Attempts
  <2>2. CASE attempts[k] = "failure"
    BY <2>1, <2>2, LaterLasts DEF Chased
  <2>3. ASSUME NEW t \in Tasks, Record(t), attempts[k] # "failure" PROVE Failing(k.ev, k.ep, k.n)'
    <3>1. /\ task[t].step = "record" /\ Key(t) \in RetryMessages
          /\ Key(t).ev = task[t].msg.ev /\ Key(t).ep = task[t].ep /\ Key(t).n = task[t].msg.n
      BY <2>3, TaskParts DEF Record
    <3>2. k = Key(t) /\ task[t].outcome # "success"
      BY <1>1, <2>3, <3>1 DEF Record, InsertAttempt, Status, Typed, TypeOK
    <3>3. PICK j \in TaskStates :
            /\ Becomes(t, j) /\ Consistent(j)
            /\ j.ep = task[t].ep /\ j.msg = task[t].msg /\ j.step \in {"schedule", "dlq"}
      BY <2>3, <3>2, RecordEffect
    <3>4. task'[t] = j
      BY <3>3, BecomesTyped
    <3>5. task'[t].msg.n >= k.n
      BY <2>1, <3>1, <3>2, <3>3, <3>4
    <3>. QED BY <3>1, <3>2, <3>3, <3>4, <3>5 DEF Failing
  <2>4. attempts' = attempts \/ \E t \in Tasks : Record(t)
    BY DEF Alive, TaskStep, Take, Check, Post, Schedule, InsertDLQ, CancelOwn,
       SchedulerStep, Poll, Republish, CancelPublished, vars, postgres
  <2>. QED BY <1>1, <2>2, <2>3, <2>4 DEF Later
<1>2. ASSUME NEW w \in Workers, NEW m \in republished'[w] PROVE Kept(m.ev, m.ep, m.n)'
  <2>1. CASE m \in republished[w]
    <3>1. m.ev \in Events /\ m.ep \in Endpoints /\ m.n \in Nat
      BY <2>1, RetryParts DEF Typed, TypeOK, Attempts
    <3>. QED BY <2>1, <3>1, KeptLasts DEF Chased
  <2>2. ASSUME NEW v \in Workers, NEW k \in RetryMessages, Republish(v, k), m \notin republished[w]
        PROVE  Kept(m.ev, m.ep, m.n)'
    <3>1. m = k
      BY <1>2, <2>2 DEF Republish, Typed, TypeOK
    <3>2. k \in Messages /\ k.n \in Nat
      BY RetryParts DEF Attempts
    <3>3. topic'[k] > 0
      BY <2>2, <3>2, AddTyped DEF Republish, Typed, TypeOK
    <3>. QED BY <3>1, <3>2, <3>3 DEF Kept, OnTopic
  <2>3. \/ m \in republished[w]
        \/ \E v \in Workers, k \in RetryMessages : Republish(v, k)
    BY <1>2 DEF Alive, TaskStep, Take, Check, Post, Record, Schedule, InsertDLQ, CancelOwn,
       SchedulerStep, Poll, CancelPublished, vars, sched, Typed, TypeOK
  <2>. QED BY <2>1, <2>2, <2>3
<1>. QED BY <1>1, <1>2 DEF Chased

(* What is chased is pending: an endpoint that was tried, has no success   *)
(* on record and is not dead has a failure on record.                      *)
LEMMA RetryingChased ==
  ASSUME Typed, Chased, NEW e \in Events, NEW p \in Retrying(e)
  PROVE  Pending(e, p)
<1>1. p \in Endpoints /\ Tried(e, p) /\ ~Closed(e, p)
  BY DEF Retrying, Closed
<1>2. PICK n \in Attempts : attempts[Retry(e, p, n)] = "failure"
  BY <1>1, RetryMade DEF Tried, Closed, HasSuccess, Typed, TypeOK
<1>3. Later(e, p, n) /\ n \in Nat
  BY <1>1, <1>2, RetryMade DEF Chased, Attempts
<1>4. OnTopic(e, p, n + 1) => Pending(e, p)
  BY MessageParts, RetryParts DEF OnTopic, Pending, InTopic
<1>5. InHand(e, p, n + 1) => Pending(e, p)
  BY DEF InHand, Pending, InTask
<1>6. After(e, p, n) \/ After(e, p, n + 1) => Pending(e, p)
  BY DEF After, Pending, InRedis
<1>7. Failing(e, p, n) => Pending(e, p)
  BY <1>1, TaskParts DEF Failing, Pending, InTask
<1>. QED BY <1>1, <1>3, <1>4, <1>5, <1>6, <1>7 DEF Later, Kept

(* So "retrying" is true.                                                 *)
LEMMA ChasedIsPending ==
  ASSUME Typed, Chased
  PROVE  RetryingIsPending
BY RetryingChased DEF RetryingIsPending

(* Nobody has answered at the start.                                       *)
LEMMA NotedInit == Quiescent => Noted
BY DEF Quiescent, Noted, Pairs

(* Until a worker dies the task that got an answer goes on to its insert,  *)
(* after which its attempt is on record, whoever put it there.             *)
LEMMA NotedStep ==
  ASSUME Typed, Noted, Steady, Alive
  PROVE  Noted'
<1>. SUFFICES ASSUME NEW e \in Events, NEW p \in Endpoints, acked'[<<e, p>>] > 0
              PROVE  Tried(e, p)' \/ Recording(e, p)'
  BY DEF Noted
<1>1. <<e, p>> \in Pairs
  BY DEF Pairs
<1>2. Tried(e, p) => Tried(e, p)'
  BY RecordsStay, RetryMade DEF Tried
<1>3. ASSUME Recording(e, p) PROVE Tried(e, p)' \/ Recording(e, p)'
  <2>1. PICK t \in Tasks : task[t].step = "record" /\ task[t].msg.ev = e /\ task[t].ep = p
    BY <1>3 DEF Recording
  <2>2. CASE task'[t] = task[t]
    BY <2>1, <2>2 DEF Recording
  <2>3. CASE task'[t] # task[t]
    <3>1. ~(UNCHANGED vars) /\ ~(\E w \in Workers : SchedulerStep(w))
      BY <2>3 DEF vars, SchedulerStep, Poll, Republish, CancelPublished
    <3>2. TaskStep(t)
      BY <2>3, <3>1, OthersWait DEF Alive
    <3>3. Record(t)
      BY <2>1, <3>2 DEF TaskStep, Take, Check, Post, Schedule, InsertDLQ, CancelOwn
    <3>4. /\ Key(t) \in RetryMessages /\ task[t].msg.n \in Attempts
          /\ Key(t) = Retry(e, p, task[t].msg.n)
      BY <2>1, TaskParts DEF Key
    <3>5. attempts'[Key(t)] # "none"
      BY <3>3, <3>4 DEF Record, InsertAttempt, Status, Typed, TypeOK
    <3>. QED BY <3>4, <3>5 DEF Tried
  <2>. QED BY <2>2, <2>3
<1>4. CASE acked'[<<e, p>>] = acked[<<e, p>>]
  BY <1>2, <1>3, <1>4 DEF Noted
<1>5. CASE acked'[<<e, p>>] # acked[<<e, p>>]
  <2>1. ~(UNCHANGED vars) /\ ~(\E w \in Workers : SchedulerStep(w))
    BY <1>5 DEF vars, ghosts, SchedulerStep, Poll, Republish, CancelPublished
  <2>2. PICK t \in Tasks : TaskStep(t)
    BY <2>1 DEF Alive
  <2>3. PICK outcome \in Outcomes : Post(t, outcome)
    BY <1>5, <2>2 DEF TaskStep, Take, Check, Record, Schedule, InsertDLQ, CancelOwn, ghosts
  <2>4. Pair(t) = <<e, p>>
    BY <1>1, <1>5, <2>3 DEF Post, Typed, TypeOK
  <2>5. task'[t].step = "record" /\ task'[t].ep = task[t].ep /\ task'[t].msg = task[t].msg
    BY <2>3, PostEffect, BecomesTyped
  <2>. QED BY <2>4, <2>5 DEF Recording, Pair
<1>. QED BY <1>4, <1>5

(* So an answer that is nowhere on record belongs to a delivery that goes  *)
(* on, or is dead: what was put in the place of its outcome is a failure,  *)
(* which is chased.                                                        *)
LEMMA DroppedIsChased ==
  ASSUME Typed, Chased, Noted, NEW e \in Events, NEW p \in Endpoints, acked[<<e, p>>] > 0
  PROVE  HasSuccess(e, p) \/ InDLQ(e, p) \/ Pending(e, p)
<1>1. Recording(e, p) => Pending(e, p)
  BY TaskParts DEF Recording, Pending, InTask
<1>2. ASSUME Tried(e, p), ~HasSuccess(e, p), ~InDLQ(e, p) PROVE Pending(e, p)
  <2>1. p \in Retrying(e)
    BY <1>2 DEF Retrying
  <2>. QED BY <2>1, RetryingChased
<1>. QED BY <1>1, <1>2 DEF Noted

=============================================================================
