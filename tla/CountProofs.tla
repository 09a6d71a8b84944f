---------------------------- MODULE CountProofs ----------------------------
(***************************************************************************)
(* Counting, for any number of events, endpoints, tasks and attempts, one  *)
(* worker and no operator.  Whatever can still bring a delivery to an end  *)
(* is a carrier of it: a message on the topic, a task, a retry.  Until the *)
(* worker dies no step makes a carrier, an answer or a dead letter but out *)
(* of another carrier, so there are never more of them than messages were  *)
(* published and read again.  The steps of the invariants that follow from *)
(* it; HookRelay's proofs put them together.  And the dead letters the     *)
(* worker has counted, whether it dies or not.                             *)
(***************************************************************************)
EXTENDS EventStatus, DeliveryProofs

(* Messages on the topic that reach endpoint p, each copy one carrier. *)
Reaches(m, e, p) == m.ev = e /\ m.ep \in {p, None}
Copies(e, p) == UNION {{m} \X (1 .. topic[m]) : m \in {m \in Messages : Reaches(m, e, p)}}

(* Tasks that serve it and can still answer or give up: not those that     *)
(* have had a 2xx for it or have its dead letter in the queue.             *)
Serves(t, e, p) == task[t].msg.ev = e /\ p \in task[t].targets
Answered(t, p) ==
  task[t].ep = p /\ task[t].step = "record" /\ task[t].outcome = "success"
GivenUp(t, p) == task[t].ep = p /\ task[t].step = "cancel"
Carrying(e, p) == {t \in Tasks : Serves(t, e, p) /\ ~Answered(t, p) /\ ~GivenUp(t, p)}

(* Retries in Redis or polled, but for one that is on the topic again.     *)
Waiting(e, p) ==
  {r \in RetryMessages :
     r.ev = e /\ r.ep = p /\ \E w \in Workers : r \in (retries \cup due[w]) \ republished[w]}

(* A scheduler deals with one retry at a time.                             *)
OneAtATime ==
  \A w \in Workers :
    \/ republished[w] = {}
    \/ \E m \in RetryMessages : republished[w] = {m} /\ m \notin due[w]

Ended(e, p) == acked[<<e, p>>] + (IF dlq[<<e, p>>] = "none" THEN 0 ELSE 1)

Total(e, p) ==
  Ended(e, p) + Cardinality(Copies(e, p)) + Cardinality(Carrying(e, p))
              + Cardinality(Waiting(e, p))

(* Not all of these sets are finite by their types.                        *)
Countable(e, p) ==
  IsFiniteSet(Copies(e, p)) /\ IsFiniteSet(Carrying(e, p)) /\ IsFiniteSet(Waiting(e, p))

-----------------------------------------------------------------------------
(* Sets that gain or lose an element *)

(* A set that gains nothing is no larger. *)
LEMMA NoMore ==
  ASSUME NEW S, NEW T, IsFiniteSet(S), T \subseteq S
  PROVE  IsFiniteSet(T) /\ Cardinality(T) <= Cardinality(S)
         /\ Cardinality(S) \in Nat /\ Cardinality(T) \in Nat
BY FS_Subset, FS_CardinalityType

(* A set that gains one element at most is larger by one at most. *)
LEMMA OneMore ==
  ASSUME NEW S, NEW T, NEW x, IsFiniteSet(S), T \subseteq S \cup {x}
  PROVE  IsFiniteSet(T) /\ Cardinality(T) <= Cardinality(S) + 1
         /\ Cardinality(S) \in Nat /\ Cardinality(T) \in Nat
<1>1. IsFiniteSet(S \cup {x}) /\ Cardinality(S \cup {x}) \in {Cardinality(S), Cardinality(S) + 1}
  BY FS_AddElement
<1>2. IsFiniteSet(T) /\ Cardinality(T) <= Cardinality(S \cup {x})
      /\ Cardinality(S \cup {x}) \in Nat /\ Cardinality(T) \in Nat
  BY <1>1, NoMore
<1>3. Cardinality(S) \in Nat
  BY FS_CardinalityType
<1>. QED BY <1>1, <1>2, <1>3

(* A set that loses an element is smaller. *)
LEMMA OneLess ==
  ASSUME NEW S, NEW T, IsFiniteSet(S), T \subseteq S, T # S
  PROVE  IsFiniteSet(T) /\ Cardinality(T) + 1 <= Cardinality(S)
         /\ Cardinality(S) \in Nat /\ Cardinality(T) \in Nat
<1>1. Cardinality(S) # Cardinality(T)
  BY FS_Subset
<1>. QED BY <1>1, NoMore

(* A set with an element, and one with two. *)
LEMMA AtLeast ==
  ASSUME NEW S, NEW x \in S, IsFiniteSet(S)
  PROVE  Cardinality(S) \in Nat /\ Cardinality(S) >= 1
         /\ \A y \in S : y # x => Cardinality(S) >= 2
<1>1. Cardinality(S) \in Nat /\ Cardinality(S \ {x}) + 1 <= Cardinality(S)
      /\ Cardinality(S \ {x}) \in Nat /\ IsFiniteSet(S \ {x})
  BY S \ {x} # S, OneLess
<1>2. ASSUME NEW y \in S, y # x PROVE Cardinality(S) >= 2
  <2>1. y \in S \ {x}
    BY <1>2
  <2>2. Cardinality((S \ {x}) \ {y}) + 1 <= Cardinality(S \ {x})
        /\ Cardinality((S \ {x}) \ {y}) \in Nat
    BY <1>1, <2>1, (S \ {x}) \ {y} # S \ {x}, OneLess
  <2>. QED BY <1>1, <2>2
<1>. QED BY <1>1, <1>2

-----------------------------------------------------------------------------
(* How the carriers move *)

(* The numbers that are added up. *)
LEMMA Parts ==
  ASSUME Typed, NEW e \in Events, NEW p \in Endpoints, Countable(e, p)
  PROVE  /\ <<e, p>> \in Pairs /\ acked[<<e, p>>] \in Nat /\ Ended(e, p) \in Nat
         /\ Cardinality(Copies(e, p)) \in Nat /\ Cardinality(Carrying(e, p)) \in Nat
         /\ Cardinality(Waiting(e, p)) \in Nat
         /\ Total(e, p) \in Nat /\ Ended(e, p) <= Total(e, p)
<1>1. <<e, p>> \in Pairs
  BY DEF Pairs
<1>2. acked[<<e, p>>] \in Nat
  BY <1>1 DEF Typed, TypeOK
<1>3. Ended(e, p) \in Nat
  BY <1>2 DEF Ended
<1>. QED BY <1>1, <1>2, <1>3, FS_CardinalityType DEF Countable, Total

(* What a copy is. *)
LEMMA CopyParts ==
  ASSUME NEW e \in Events, NEW p \in Endpoints, NEW c
  PROVE  c \in Copies(e, p) <=>
           \E m \in Messages : Reaches(m, e, p) /\ \E i \in 1 .. topic[m] : c = <<m, i>>
BY DEF Copies

(* And after a step.                                                       *)
LEMMA CopyPartsNext ==
  ASSUME NEW e \in Events, NEW p \in Endpoints, NEW c
  PROVE  c \in Copies(e, p)' <=>
           \E m \in Messages : Reaches(m, e, p) /\ \E i \in 1 .. topic'[m] : c = <<m, i>>
BY DEF Copies, Reaches

(* A step that adds no message adds no copy, ... *)
LEMMA NoNewCopy ==
  ASSUME Typed, Typed', NEW e \in Events, NEW p \in Endpoints,
         \A m \in Messages : Reaches(m, e, p) => topic'[m] <= topic[m]
  PROVE  Copies(e, p)' \subseteq Copies(e, p)
<1>1. \A m \in Messages : topic[m] \in Nat /\ topic'[m] \in Nat
  BY DEF Typed, TypeOK
<1>2. \A m \in Messages : Reaches(m, e, p) => 1 .. topic'[m] \subseteq 1 .. topic[m]
  BY <1>1
<1>. QED BY <1>2, CopyParts, CopyPartsNext

(* ... one that adds one adds one, ...                                     *)
LEMMA OneNewCopy ==
  ASSUME Typed, Typed', NEW e \in Events, NEW p \in Endpoints, NEW k \in Messages,
         topic'[k] = topic[k] + 1, \A m \in Messages \ {k} : topic'[m] <= topic[m]
  PROVE  Copies(e, p)' \subseteq Copies(e, p) \cup {<<k, topic[k] + 1>>}
<1>1. \A m \in Messages : topic[m] \in Nat /\ topic'[m] \in Nat
  BY DEF Typed, TypeOK
<1>2. \A m \in Messages : \A i \in 1 .. topic'[m] :
        i \in 1 .. topic[m] \/ (m = k /\ i = topic[k] + 1)
  BY <1>1
<1>. QED BY <1>2, CopyParts, CopyPartsNext

(* ... and one that takes one removes one.                                 *)
LEMMA OneCopyLess ==
  ASSUME Typed, Typed', NEW e \in Events, NEW p \in Endpoints, NEW k \in Messages,
         Reaches(k, e, p), topic[k] > 0, topic'[k] = topic[k] - 1,
         \A m \in Messages \ {k} : topic'[m] <= topic[m]
  PROVE  Copies(e, p)' \subseteq Copies(e, p) /\ Copies(e, p)' # Copies(e, p)
<1>1. \A m \in Messages : topic[m] \in Nat /\ topic'[m] \in Nat
  BY DEF Typed, TypeOK
<1>2. topic[k] \in 1 .. topic[k]
  BY <1>1
<1>3. <<k, topic[k]>> \in Copies(e, p)
  BY <1>2, CopyParts
<1>4. \A m \in Messages : \A i \in 1 .. topic'[m] :
        i \in 1 .. topic[m] /\ (m = k => i # topic[k])
  BY <1>1
<1>5. ASSUME NEW c \in Copies(e, p)' PROVE c \in Copies(e, p) /\ c # <<k, topic[k]>>
  <2>1. PICK m \in Messages : Reaches(m, e, p) /\ \E i \in 1 .. topic'[m] : c = <<m, i>>
    BY <1>5, CopyPartsNext
  <2>2. PICK i \in 1 .. topic'[m] : c = <<m, i>>
    BY <2>1
  <2>. QED BY <1>4, <2>1, <2>2, CopyParts
<1>. QED BY <1>3, <1>5

(* A step of one task changes no other carrier among the tasks. *)
LEMMA OneCarrier ==
  ASSUME NEW e \in Events, NEW p \in Endpoints, NEW t \in Tasks,
         \A u \in Tasks \ {t} : task'[u] = task[u]
  PROVE  /\ Carrying(e, p)' \subseteq Carrying(e, p) \cup {t}
         /\ t \notin Carrying(e, p)' => Carrying(e, p)' \subseteq Carrying(e, p)
         /\ t \in Carrying(e, p) /\ t \notin Carrying(e, p)' =>
              Carrying(e, p)' # Carrying(e, p)
BY DEF Carrying, Serves, Answered, GivenUp

(* No carrier more: the total does not grow. *)
LEMMA NoCarrierMore ==
  ASSUME Typed, Typed', NEW e \in Events, NEW p \in Endpoints, Countable(e, p),
         Copies(e, p)' \subseteq Copies(e, p), Carrying(e, p)' \subseteq Carrying(e, p),
         Waiting(e, p)' \subseteq Waiting(e, p), Ended(e, p)' = Ended(e, p)
  PROVE  /\ Countable(e, p)' /\ Total(e, p)' <= Total(e, p)
         /\ Total(e, p) \in Nat /\ Total(e, p)' \in Nat
<1>1. Ended(e, p) \in Nat
  BY Parts
<1>. QED BY <1>1, NoMore DEF Countable, Total

-----------------------------------------------------------------------------
(* The steps of a task *)

(* A task takes a message in its place, or reads it once more.             *)
LEMMA TakeTotal ==
  ASSUME Typed, Typed', NEW e \in Events, NEW p \in Endpoints, Countable(e, p),
         redeliveries \in Nat, NEW t \in Tasks, NEW m \in Messages, Take(t, m)
  PROVE  Countable(e, p)' /\ Total(e, p)' <= Total(e, p) + (redeliveries' - redeliveries)
<1>1. PICK k \in TaskStates :
        /\ Becomes(t, k) /\ Consistent(k)
        /\ \/ k = Free /\ Targets(m) = {}
           \/ k.step = "check" /\ k.msg = m /\ k.targets = Targets(m)
  BY TakeEffect
<1>2. task'[t] = k /\ \A u \in Tasks \ {t} : task'[u] = task[u]
  BY <1>1, BecomesTyped
<1>3. t \notin Carrying(e, p)
  BY TaskParts DEF Take, Carrying, Serves, Consistent
<1>4. ASSUME t \in Carrying(e, p)' PROVE Reaches(m, e, p)
  <2>1. k.msg.ev = e /\ p \in k.targets
    BY <1>2, <1>4 DEF Carrying, Serves
  <2>2. k.msg = m /\ p \in Targets(m)
    BY <1>1, <2>1 DEF Free
  <2>. QED BY <2>1, <2>2, TakeEffect DEF Reaches
<1>5. Waiting(e, p)' \subseteq Waiting(e, p) /\ Ended(e, p)' = Ended(e, p)
  BY DEF Waiting, Ended, Take, sched, postgres, ghosts
<1>6. Ended(e, p) \in Nat
  BY Parts
<1>7. CASE t \notin Carrying(e, p)' /\ UNCHANGED redeliveries
  <2>1. Carrying(e, p)' \subseteq Carrying(e, p)
    BY <1>2, <1>7, OneCarrier
  <2>2. \A j \in Messages : topic'[j] <= topic[j]
    BY DEF Take, Typed, TypeOK
  <2>3. Copies(e, p)' \subseteq Copies(e, p)
    BY <2>2, NoNewCopy
  <2>. QED BY <1>5, <1>7, <2>1, <2>3, NoCarrierMore
<1>8. CASE t \in Carrying(e, p)' /\ UNCHANGED redeliveries
  <2>1. Carrying(e, p)' \subseteq Carrying(e, p) \cup {t}
    BY <1>2, OneCarrier
  <2>2. Reaches(m, e, p) /\ topic[m] > 0 /\ topic'[m] = topic[m] - 1
        /\ \A j \in Messages \ {m} : topic'[j] <= topic[j]
    BY <1>4, <1>8 DEF Take, Typed, TypeOK
  <2>3. Copies(e, p)' \subseteq Copies(e, p) /\ Copies(e, p)' # Copies(e, p)
    BY <2>2, OneCopyLess
  <2>4. /\ IsFiniteSet(Copies(e, p)') /\ Cardinality(Copies(e, p)') + 1 <= Cardinality(Copies(e, p))
        /\ Cardinality(Copies(e, p)) \in Nat /\ Cardinality(Copies(e, p)') \in Nat
    BY <2>3, OneLess DEF Countable
  <2>5. /\ IsFiniteSet(Carrying(e, p)') /\ Cardinality(Carrying(e, p)') <= Cardinality(Carrying(e, p)) + 1
        /\ Cardinality(Carrying(e, p)) \in Nat /\ Cardinality(Carrying(e, p)') \in Nat
    BY <2>1, OneMore DEF Countable
  <2>6. /\ IsFiniteSet(Waiting(e, p)') /\ Cardinality(Waiting(e, p)') <= Cardinality(Waiting(e, p))
        /\ Cardinality(Waiting(e, p)) \in Nat /\ Cardinality(Waiting(e, p)') \in Nat
    BY <1>5, NoMore DEF Countable
  <2>. QED BY <1>5, <1>6, <1>8, <2>4, <2>5, <2>6 DEF Countable, Total
<1>9. CASE redeliveries' = redeliveries + 1 /\ UNCHANGED topic
  <2>1. Carrying(e, p)' \subseteq Carrying(e, p) \cup {t}
    BY <1>2, OneCarrier
  <2>2. Copies(e, p)' \subseteq Copies(e, p)
    BY <1>9 DEF Copies
  <2>3. IsFiniteSet(Copies(e, p)') /\ Cardinality(Copies(e, p)') <= Cardinality(Copies(e, p))
        /\ Cardinality(Copies(e, p)) \in Nat /\ Cardinality(Copies(e, p)') \in Nat
    BY <2>2, NoMore DEF Countable
  <2>4. /\ IsFiniteSet(Carrying(e, p)')
        /\ Cardinality(Carrying(e, p)') <= Cardinality(Carrying(e, p)) + 1
        /\ Cardinality(Carrying(e, p)) \in Nat /\ Cardinality(Carrying(e, p)') \in Nat
    BY <2>1, OneMore DEF Countable
  <2>5. /\ IsFiniteSet(Waiting(e, p)')
        /\ Cardinality(Waiting(e, p)') <= Cardinality(Waiting(e, p))
        /\ Cardinality(Waiting(e, p)) \in Nat /\ Cardinality(Waiting(e, p)') \in Nat
    BY <1>5, NoMore DEF Countable
  <2>. QED BY <1>5, <1>6, <1>9, <2>3, <2>4, <2>5 DEF Countable, Total
<1>. QED BY <1>7, <1>8, <1>9 DEF Take

(* What a task that goes on serves it served before, ... *)
LEMMA GoesOnServing ==
  ASSUME Typed, NEW t \in Tasks, NEW k \in TaskStates, Becomes(t, k), Consistent(k),
         k.msg = task[t].msg, k.targets = task[t].targets
  PROVE  task'[t] = k /\ \A e \in Events, p \in Endpoints : Serves(t, e, p)' <=> Serves(t, e, p)
<1>1. task'[t] = k
  BY BecomesTyped
<1>. QED BY <1>1 DEF Serves

(* ... and what it is done with it no longer serves.                       *)
LEMMA DoneServing ==
  ASSUME Typed, NEW t \in Tasks, NEW q \in task[t].targets, task[t].step # "idle", DoneWith(t, q)
  PROVE  \A e \in Events, p \in Endpoints : Serves(t, e, p)' => Serves(t, e, p) /\ p # q
<1>1. PICK k \in TaskStates :
        /\ Becomes(t, k) /\ Consistent(k)
        /\ \/ k = Free /\ task[t].targets = {q}
           \/ /\ k.step = "check" /\ k.msg = task[t].msg /\ k.msg.ep = None
              /\ k.targets = task[t].targets \ {q} /\ k.targets # {}
  BY DoneWithEffect
<1>2. task'[t] = k
  BY <1>1, BecomesTyped
<1>. QED BY <1>1, <1>2 DEF Serves, Free

(* A check makes no carrier.                                               *)
LEMMA CheckTotal ==
  ASSUME Typed, Typed', NEW e \in Events, NEW p \in Endpoints, Countable(e, p),
         NEW t \in Tasks, NEW q \in Endpoints, Check(t, q)
  PROVE  Countable(e, p)' /\ Total(e, p)' <= Total(e, p)
<1>1. task[t].step = "check" /\ q \in task[t].targets
  BY DEF Check
<1>2. Serves(t, e, p)' => Serves(t, e, p)
  BY <1>1, CheckEffect, DoneServing, GoesOnServing
<1>3. Carrying(e, p)' \subseteq Carrying(e, p)
  BY <1>1, <1>2, OthersWait, OneCarrier DEF TaskStep, Carrying, Answered, GivenUp
<1>4. /\ Copies(e, p)' \subseteq Copies(e, p) /\ Waiting(e, p)' \subseteq Waiting(e, p)
      /\ Ended(e, p)' = Ended(e, p)
  BY DEF Check, Copies, Waiting, Ended, postgres, sched, ghosts
<1>. QED BY <1>3, <1>4, NoCarrierMore

(* A task that gets a 2xx gives up its part for it.                        *)
LEMMA PostTotal ==
  ASSUME Typed, Typed', NEW e \in Events, NEW p \in Endpoints, Countable(e, p),
         NEW t \in Tasks, NEW outcome \in Outcomes, Post(t, outcome)
  PROVE  Countable(e, p)' /\ Total(e, p)' <= Total(e, p)
<1>1. PICK k \in TaskStates :
        /\ Becomes(t, k) /\ Consistent(k)
        /\ k.step = "record" /\ k.outcome = outcome /\ k.ep = task[t].ep
        /\ k.msg = task[t].msg /\ k.targets = task[t].targets
  BY PostEffect
<1>2. /\ task'[t] = k /\ (Serves(t, e, p)' <=> Serves(t, e, p))
      /\ task[t].step = "post" /\ \A u \in Tasks \ {t} : task'[u] = task[u]
  BY <1>1, GoesOnServing, OthersWait DEF Post, TaskStep
<1>3. Carrying(e, p)' \subseteq Carrying(e, p)
  BY <1>2, OneCarrier DEF Carrying, Answered, GivenUp
<1>4. Copies(e, p)' \subseteq Copies(e, p) /\ Waiting(e, p)' \subseteq Waiting(e, p)
  BY DEF Post, Copies, Waiting, sched
<1>5. <<e, p>> \in Pairs /\ acked[<<e, p>>] \in Nat /\ dlq' = dlq /\ Ended(e, p) \in Nat
  BY Parts DEF Post, postgres
<1>6. CASE outcome = "success" /\ Pair(t) = <<e, p>>
  <2>1. acked'[<<e, p>>] = acked[<<e, p>>] + 1
    BY <1>5, <1>6 DEF Post, Typed, TypeOK
  <2>2. Ended(e, p)' = Ended(e, p) + 1
    BY <1>5, <2>1 DEF Ended
  <2>3. task[t].msg.ev = e /\ task[t].ep = p /\ p \in task[t].targets
    BY <1>2, <1>6, TaskParts DEF Pair
  <2>4. t \in Carrying(e, p) /\ t \notin Carrying(e, p)'
    BY <1>1, <1>2, <1>6, <2>3 DEF Carrying, Serves, Answered, GivenUp
  <2>5. Carrying(e, p)' # Carrying(e, p)
    BY <1>2, <2>4, OneCarrier
  <2>6. /\ IsFiniteSet(Carrying(e, p)') /\ Cardinality(Carrying(e, p)') + 1 <= Cardinality(Carrying(e, p))
        /\ Cardinality(Carrying(e, p)) \in Nat /\ Cardinality(Carrying(e, p)') \in Nat
    BY <1>3, <2>5, OneLess DEF Countable
  <2>7. /\ IsFiniteSet(Copies(e, p)') /\ Cardinality(Copies(e, p)') <= Cardinality(Copies(e, p))
        /\ Cardinality(Copies(e, p)) \in Nat /\ Cardinality(Copies(e, p)') \in Nat
    BY <1>4, NoMore DEF Countable
  <2>8. /\ IsFiniteSet(Waiting(e, p)') /\ Cardinality(Waiting(e, p)') <= Cardinality(Waiting(e, p))
        /\ Cardinality(Waiting(e, p)) \in Nat /\ Cardinality(Waiting(e, p)') \in Nat
    BY <1>4, NoMore DEF Countable
  <2>. QED BY <1>5, <2>2, <2>6, <2>7, <2>8 DEF Countable, Total
<1>7. CASE ~(outcome = "success" /\ Pair(t) = <<e, p>>)
  <2>1. acked'[<<e, p>>] = acked[<<e, p>>]
    BY <1>5, <1>7 DEF Post, Typed, TypeOK
  <2>2. Ended(e, p)' = Ended(e, p)
    BY <1>5, <2>1 DEF Ended
  <2>. QED BY <1>3, <1>4, <2>2, NoCarrierMore
<1>. QED BY <1>6, <1>7

(* Recording makes no carrier.                                             *)
LEMMA RecordTotal ==
  ASSUME Typed, Typed', NEW e \in Events, NEW p \in Endpoints, Countable(e, p),
         NEW t \in Tasks, Record(t)
  PROVE  /\ Countable(e, p)' /\ Total(e, p)' <= Total(e, p)
         /\ Copies(e, p)' \subseteq Copies(e, p) /\ Carrying(e, p)' \subseteq Carrying(e, p)
         /\ Waiting(e, p)' \subseteq Waiting(e, p)
<1>1. task[t].step = "record" /\ task[t].ep \in task[t].targets
  BY TaskParts DEF Record
<1>2. Serves(t, e, p)' => Serves(t, e, p) /\ ~Answered(t, p)
  BY <1>1, RecordEffect, DoneServing, GoesOnServing DEF Answered
<1>3. Carrying(e, p)' \subseteq Carrying(e, p)
  BY <1>1, <1>2, OthersWait, OneCarrier DEF TaskStep, Carrying, GivenUp
<1>4. /\ Copies(e, p)' \subseteq Copies(e, p) /\ Waiting(e, p)' \subseteq Waiting(e, p)
      /\ Ended(e, p)' = Ended(e, p)
  BY DEF Record, Copies, Waiting, Ended, sched, ghosts
<1>. QED BY <1>3, <1>4, NoCarrierMore

(* A task that schedules a retry leaves its part to it.                    *)
LEMMA ScheduleTotal ==
  ASSUME Typed, Typed', NEW e \in Events, NEW p \in Endpoints, Countable(e, p),
         NEW t \in Tasks, Schedule(t)
  PROVE  Countable(e, p)' /\ Total(e, p)' <= Total(e, p)
<1>1. task[t].step = "schedule" /\ task[t].ep \in task[t].targets
      /\ \A u \in Tasks \ {t} : task'[u] = task[u]
  BY TaskParts, OthersWait DEF Schedule, TaskStep
<1>2. Serves(t, e, p)' => Serves(t, e, p) /\ p # task[t].ep
  BY <1>1, DoneServing DEF Schedule
<1>3. Carrying(e, p)' \subseteq Carrying(e, p)
  BY <1>1, <1>2, OneCarrier DEF Carrying, Answered, GivenUp
<1>4. Copies(e, p)' \subseteq Copies(e, p) /\ Ended(e, p)' = Ended(e, p)
  BY DEF Schedule, Copies, Ended, postgres, ghosts
<1>5. /\ NextKey(t).ev = task[t].msg.ev /\ NextKey(t).ep = task[t].ep
      /\ retries' = retries \cup {NextKey(t)}
  BY <1>1, ScheduleAdds, NextAttempt
<1>6. Ended(e, p) \in Nat
  BY Parts
<1>7. CASE task[t].msg.ev = e /\ task[t].ep = p
  <2>1. t \in Carrying(e, p) /\ t \notin Carrying(e, p)'
    BY <1>1, <1>2, <1>7 DEF Carrying, Serves, Answered, GivenUp
  <2>2. Carrying(e, p)' # Carrying(e, p)
    BY <1>1, <2>1, OneCarrier
  <2>3. Waiting(e, p)' \subseteq Waiting(e, p) \cup {NextKey(t)}
    BY <1>5 DEF Schedule, Waiting, sched
  <2>4. /\ IsFiniteSet(Carrying(e, p)') /\ Cardinality(Carrying(e, p)') + 1 <= Cardinality(Carrying(e, p))
        /\ Cardinality(Carrying(e, p)) \in Nat /\ Cardinality(Carrying(e, p)') \in Nat
    BY <1>3, <2>2, OneLess DEF Countable
  <2>5. /\ IsFiniteSet(Copies(e, p)') /\ Cardinality(Copies(e, p)') <= Cardinality(Copies(e, p))
        /\ Cardinality(Copies(e, p)) \in Nat /\ Cardinality(Copies(e, p)') \in Nat
    BY <1>4, NoMore DEF Countable
  <2>6. /\ IsFiniteSet(Waiting(e, p)') /\ Cardinality(Waiting(e, p)') <= Cardinality(Waiting(e, p)) + 1
        /\ Cardinality(Waiting(e, p)) \in Nat /\ Cardinality(Waiting(e, p)') \in Nat
    BY <2>3, OneMore DEF Countable
  <2>. QED BY <1>4, <1>6, <2>4, <2>5, <2>6 DEF Countable, Total
<1>8. CASE ~(task[t].msg.ev = e /\ task[t].ep = p)
  <2>1. Waiting(e, p)' \subseteq Waiting(e, p)
    BY <1>5, <1>8 DEF Schedule, Waiting, sched
  <2>. QED BY <1>3, <1>4, <2>1, NoCarrierMore
<1>. QED BY <1>7, <1>8

(* A task that dead-letters gives up its part for the entry.               *)
LEMMA InsertDLQTotal ==
  ASSUME Typed, Typed', NEW e \in Events, NEW p \in Endpoints, Countable(e, p),
         NEW t \in Tasks, InsertDLQ(t)
  PROVE  Countable(e, p)' /\ Total(e, p)' <= Total(e, p)
<1>1. PICK k \in TaskStates :
        /\ Becomes(t, k) /\ Consistent(k)
        /\ k.step = "cancel" /\ k.outcome = task[t].outcome /\ k.ep = task[t].ep
        /\ k.msg = task[t].msg /\ k.targets = task[t].targets
  BY InsertDLQEffect
<1>2. /\ task'[t] = k /\ (Serves(t, e, p)' <=> Serves(t, e, p))
      /\ task[t].step = "dlq" /\ \A u \in Tasks \ {t} : task'[u] = task[u]
  BY <1>1, GoesOnServing, OthersWait DEF InsertDLQ, TaskStep
<1>3. Carrying(e, p)' \subseteq Carrying(e, p)
  BY <1>2, OneCarrier DEF Carrying, Answered, GivenUp
<1>4. Copies(e, p)' \subseteq Copies(e, p) /\ Waiting(e, p)' \subseteq Waiting(e, p)
  BY DEF InsertDLQ, Copies, Waiting, sched
<1>5. <<e, p>> \in Pairs /\ acked[<<e, p>>] \in Nat /\ acked' = acked /\ Ended(e, p) \in Nat
  BY Parts DEF InsertDLQ, ghosts
<1>6. CASE Pair(t) = <<e, p>>
  <2>1. Ended(e, p)' <= Ended(e, p) + 1 /\ Ended(e, p)' \in Nat
    <3>1. dlq[<<e, p>>] # "none" => dlq'[<<e, p>>] = dlq[<<e, p>>]
      BY DEF InsertDLQ
    <3>. QED BY <1>5, <3>1 DEF Ended
  <2>2. task[t].msg.ev = e /\ task[t].ep = p /\ p \in task[t].targets
    BY <1>2, <1>6, TaskParts DEF Pair
  <2>3. t \in Carrying(e, p) /\ t \notin Carrying(e, p)'
    BY <1>1, <1>2, <2>2 DEF Carrying, Serves, Answered, GivenUp
  <2>4. Carrying(e, p)' # Carrying(e, p)
    BY <1>2, <2>3, OneCarrier
  <2>5. /\ IsFiniteSet(Carrying(e, p)') /\ Cardinality(Carrying(e, p)') + 1 <= Cardinality(Carrying(e, p))
        /\ Cardinality(Carrying(e, p)) \in Nat /\ Cardinality(Carrying(e, p)') \in Nat
    BY <1>3, <2>4, OneLess DEF Countable
  <2>6. /\ IsFiniteSet(Copies(e, p)') /\ Cardinality(Copies(e, p)') <= Cardinality(Copies(e, p))
        /\ Cardinality(Copies(e, p)) \in Nat /\ Cardinality(Copies(e, p)') \in Nat
    BY <1>4, NoMore DEF Countable
  <2>7. /\ IsFiniteSet(Waiting(e, p)') /\ Cardinality(Waiting(e, p)') <= Cardinality(Waiting(e, p))
        /\ Cardinality(Waiting(e, p)) \in Nat /\ Cardinality(Waiting(e, p)') \in Nat
    BY <1>4, NoMore DEF Countable
  <2>. QED BY <1>5, <2>1, <2>5, <2>6, <2>7 DEF Countable, Total
<1>7. CASE Pair(t) # <<e, p>>
  <2>1. dlq'[<<e, p>>] = dlq[<<e, p>>]
    BY <1>5, <1>7 DEF InsertDLQ, Typed, TypeOK
  <2>2. Ended(e, p)' = Ended(e, p)
    BY <1>5, <2>1 DEF Ended
  <2>. QED BY <1>3, <1>4, <2>2, NoCarrierMore
<1>. QED BY <1>6, <1>7

(* Nor does the end of a delivery make any.                                *)
LEMMA CancelOwnTotal ==
  ASSUME Typed, Typed', NEW e \in Events, NEW p \in Endpoints, Countable(e, p),
         NEW t \in Tasks, CancelOwn(t)
  PROVE  Countable(e, p)' /\ Total(e, p)' <= Total(e, p)
<1>1. task[t].step = "cancel" /\ task[t].ep \in task[t].targets
      /\ \A u \in Tasks \ {t} : task'[u] = task[u]
  BY TaskParts, OthersWait DEF CancelOwn, TaskStep
<1>2. Serves(t, e, p)' => Serves(t, e, p) /\ p # task[t].ep
  BY <1>1, DoneServing DEF CancelOwn
<1>3. Carrying(e, p)' \subseteq Carrying(e, p)
  BY <1>1, <1>2, OneCarrier DEF Carrying, Answered, GivenUp
<1>4. /\ Copies(e, p)' \subseteq Copies(e, p) /\ Waiting(e, p)' \subseteq Waiting(e, p)
      /\ Ended(e, p)' = Ended(e, p)
  BY DEF CancelOwn, Without, Copies, Waiting, Ended, postgres, sched, ghosts
<1>. QED BY <1>3, <1>4, NoCarrierMore

-----------------------------------------------------------------------------
(* The steps of a scheduler *)

(* A poll looks; a retry that is published leaves its part to the message; *)
(* what is cancelled then has none.                                        *)
LEMMA SchedulerTotal ==
  ASSUME Typed, Typed', OneAtATime, NEW e \in Events, NEW p \in Endpoints, Countable(e, p),
         NEW w \in Workers, Workers = {w}, SchedulerStep(w)
  PROVE  Countable(e, p)' /\ Total(e, p)' <= Total(e, p)
<1>1. due \in [Workers -> SUBSET RetryMessages] /\ republished \in [Workers -> SUBSET RetryMessages]
  BY DEF Typed, TypeOK
<1>2. Carrying(e, p)' \subseteq Carrying(e, p) /\ Ended(e, p)' = Ended(e, p)
  BY DEF SchedulerStep, Poll, Republish, CancelPublished, Carrying, Serves, Answered, GivenUp, Ended,
         postgres, ghosts
<1>3. CASE Poll(w)
  <2>1. Waiting(e, p)' \subseteq Waiting(e, p)
    BY <1>1, <1>3 DEF Poll, Waiting
  <2>2. Copies(e, p)' \subseteq Copies(e, p)
    BY <1>3 DEF Poll, Copies
  <2>. QED BY <1>2, <2>1, <2>2, NoCarrierMore
<1>4. ASSUME NEW m \in RetryMessages, Republish(w, m)
      PROVE  Countable(e, p)' /\ Total(e, p)' <= Total(e, p)
  <2>1. m \in Messages /\ m.ep # None /\ topic'[m] = topic[m] + 1
        /\ \A j \in Messages \ {m} : topic'[j] <= topic[j]
    BY <1>4, RetryParts, NoneAssumption DEF Republish, Add, Typed, TypeOK
  <2>2. /\ m \in due[w] /\ republished[w] = {}
        /\ due'[w] = due[w] \ {m} /\ republished'[w] = {m} /\ retries' = retries
    BY <1>1, <1>4 DEF Republish
  <2>3. Waiting(e, p)' \subseteq Waiting(e, p) \ {m}
    BY <2>2 DEF Waiting
  <2>4. CASE Reaches(m, e, p)
    <3>1. m \in Waiting(e, p)
      BY <2>1, <2>2, <2>4 DEF Waiting, Reaches
    <3>2. Waiting(e, p)' \subseteq Waiting(e, p) /\ Waiting(e, p)' # Waiting(e, p)
      BY <2>3, <3>1
    <3>3. Copies(e, p)' \subseteq Copies(e, p) \cup {<<m, topic[m] + 1>>}
      BY <2>1, OneNewCopy
    <3>4. /\ IsFiniteSet(Carrying(e, p)') /\ Cardinality(Carrying(e, p)') <= Cardinality(Carrying(e, p))
          /\ Cardinality(Carrying(e, p)) \in Nat /\ Cardinality(Carrying(e, p)') \in Nat
      BY <1>2, NoMore DEF Countable
    <3>5. /\ IsFiniteSet(Copies(e, p)') /\ Cardinality(Copies(e, p)') <= Cardinality(Copies(e, p)) + 1
          /\ Cardinality(Copies(e, p)) \in Nat /\ Cardinality(Copies(e, p)') \in Nat
      BY <3>3, OneMore DEF Countable
    <3>6. /\ IsFiniteSet(Waiting(e, p)') /\ Cardinality(Waiting(e, p)') + 1 <= Cardinality(Waiting(e, p))
          /\ Cardinality(Waiting(e, p)) \in Nat /\ Cardinality(Waiting(e, p)') \in Nat
      BY <3>2, OneLess DEF Countable
    <3>7. Ended(e, p) \in Nat
      BY Parts
    <3>. QED BY <1>2, <3>4, <3>5, <3>6, <3>7 DEF Countable, Total
  <2>5. CASE ~Reaches(m, e, p)
    <3>1. Copies(e, p)' \subseteq Copies(e, p)
      BY <2>1, <2>5, NoNewCopy DEF Typed, TypeOK
    <3>. QED BY <1>2, <2>3, <3>1, NoCarrierMore
  <2>. QED BY <2>4, <2>5
<1>5. ASSUME NEW m \in RetryMessages, CancelPublished(w, m)
      PROVE  Countable(e, p)' /\ Total(e, p)' <= Total(e, p)
  <2>1. /\ republished[w] = {m} /\ m \notin due[w] /\ republished'[w] = {}
        /\ due' = due /\ retries' = retries \ {m}
    BY <1>1, <1>5, WithoutRemoves DEF CancelPublished, OneAtATime
  <2>2. Waiting(e, p)' \subseteq Waiting(e, p)
    BY <2>1 DEF Waiting
  <2>3. Copies(e, p)' \subseteq Copies(e, p)
    BY <1>5 DEF CancelPublished, Copies
  <2>. QED BY <1>2, <2>2, <2>3, NoCarrierMore
<1>. QED BY <1>3, <1>4, <1>5 DEF SchedulerStep

(* So is it in every step without a death: the total grows only by what is *)
(* read once more.                                                         *)
LEMMA TotalStep ==
  ASSUME Typed, Typed', Spent, OneAtATime, Alive, NEW w \in Workers, Workers = {w},
         NEW e \in Events, NEW p \in Endpoints, Countable(e, p)
  PROVE  Countable(e, p)' /\ Total(e, p)' <= Total(e, p) + (redeliveries' - redeliveries)
<1>1. Total(e, p) \in Nat /\ redeliveries \in Nat
  BY Parts DEF Spent
<1>2. ASSUME Countable(e, p)', Total(e, p)' <= Total(e, p), redeliveries' = redeliveries
      PROVE  Total(e, p)' <= Total(e, p) + (redeliveries' - redeliveries)
  BY <1>1, <1>2
<1>3. ASSUME NEW t \in Tasks, TaskStep(t)
      PROVE  Countable(e, p)' /\ Total(e, p)' <= Total(e, p) + (redeliveries' - redeliveries)
  <2>1. CASE \E m \in Messages : Take(t, m)
    BY <1>1, <2>1, TakeTotal
  <2>2. ~(\E m \in Messages : Take(t, m)) => redeliveries' = redeliveries
    BY <1>3 DEF TaskStep, Check, Post, Record, Schedule, InsertDLQ, CancelOwn, spent
  <2>. QED BY <1>2, <1>3, <2>1, <2>2, CheckTotal, PostTotal, RecordTotal, ScheduleTotal,
           InsertDLQTotal, CancelOwnTotal DEF TaskStep
<1>4. CASE SchedulerStep(w)
  <2>1. redeliveries' = redeliveries
    BY <1>4 DEF SchedulerStep, Poll, Republish, CancelPublished, spent
  <2>. QED BY <1>2, <1>4, <2>1, SchedulerTotal
<1>5. CASE UNCHANGED vars
  <2>1. /\ Copies(e, p)' \subseteq Copies(e, p) /\ Carrying(e, p)' \subseteq Carrying(e, p)
        /\ Waiting(e, p)' \subseteq Waiting(e, p) /\ Ended(e, p)' = Ended(e, p)
        /\ redeliveries' = redeliveries
    BY <1>5 DEF vars, postgres, sched, ghosts, spent, Copies, Carrying, Serves, Answered, GivenUp,
                Waiting, Ended
  <2>. QED BY <1>2, <2>1, NoCarrierMore
<1>. QED BY <1>3, <1>4, <1>5 DEF Alive

(* The scheduler goes on dealing with one retry at a time. *)
LEMMA OneAtATimeStep ==
  ASSUME Typed, OneAtATime, [Next]_vars
  PROVE  OneAtATime'
<1>1. due \in [Workers -> SUBSET RetryMessages] /\ republished \in [Workers -> SUBSET RetryMessages]
  BY DEF Typed, TypeOK
<1>2. CASE UNCHANGED sched
  BY <1>2 DEF OneAtATime, sched
<1>3. ASSUME NEW w \in Workers, SchedulerStep(w) PROVE OneAtATime'
  <2>1. CASE Poll(w)
    BY <1>1, <2>1 DEF Poll, OneAtATime
  <2>2. ASSUME NEW m \in RetryMessages, Republish(w, m) PROVE OneAtATime'
    BY <1>1, <2>2 DEF Republish, OneAtATime
  <2>3. ASSUME NEW m \in RetryMessages, CancelPublished(w, m) PROVE OneAtATime'
    BY <1>1, <2>3 DEF CancelPublished, OneAtATime
  <2>. QED BY <1>3, <2>1, <2>2, <2>3 DEF SchedulerStep
<1>4. ASSUME NEW w \in Workers, Die(w) PROVE OneAtATime'
  BY <1>1, <1>4 DEF Die, OneAtATime
<1>5. ASSUME NEW t \in Tasks, TaskStep(t) PROVE UNCHANGED sched
  BY <1>5 DEF TaskStep, Take, Check, Post, Record, Schedule, InsertDLQ, CancelOwn
<1>6. OperatorStep => UNCHANGED sched
  BY DEF OperatorStep, RequestStep, RetryPublish, ReplayPublish, RetryCommit, ReplayCommit,
         RequestAborts, DeleteDLQ, UpdateEndpoint, CreateEndpoint, DeleteEndpoint
<1>7. UNCHANGED vars => UNCHANGED sched
  BY DEF vars
<1>. QED BY <1>2, <1>3, <1>4, <1>5, <1>6, <1>7 DEF Next, Crash, ForeignKeyError

-----------------------------------------------------------------------------
(* Two answers *)

(* A task that has had a 2xx and not recorded it.                          *)
Answering(t, e, p) == Serves(t, e, p) /\ Answered(t, p)

(* Two such tasks have had two answers.                                    *)
Twice ==
  \A e \in Events, p \in Endpoints, t, u \in Tasks :
    t # u /\ Answering(t, e, p) /\ Answering(u, e, p) => acked[<<e, p>>] >= 2

(* Only a 2xx makes a task one of them.                                    *)
LEMMA NewAnswer ==
  ASSUME Typed, Steady, NEW t \in Tasks, NEW e \in Events, NEW p \in Endpoints,
         Answering(t, e, p)', ~Answering(t, e, p)
  PROVE  /\ \A u \in Tasks \ {t} : task'[u] = task[u]
         /\ acked'[<<e, p>>] = acked[<<e, p>>] + 1
<1>1. task'[t] # task[t] /\ task'[t].step = "record" /\ task'[t].outcome = "success"
      /\ task'[t].ep = p /\ task'[t].msg.ev = e
  BY DEF Answering, Serves, Answered
<1>2. ASSUME NEW w \in Workers, Crash(w) \/ ForeignKeyError(w) PROVE FALSE
  BY <1>1, <1>2, TaskParts DEF Crash, ForeignKeyError, Die, Free
<1>3. ASSUME NEW w \in Workers, SchedulerStep(w) PROVE FALSE
  BY <1>1, <1>3 DEF SchedulerStep, Poll, Republish, CancelPublished
<1>4. ~(UNCHANGED vars)
  BY <1>1 DEF vars
<1>5. PICK u \in Tasks : TaskStep(u)
  BY <1>2, <1>3, <1>4 DEF Steady
<1>6. u = t
  BY <1>1, <1>5, OthersWait
<1>7. ASSUME NEW q \in task[t].targets, task[t].step # "idle", DoneWith(t, q) PROVE FALSE
  BY <1>1, <1>7, DoneWithEffect, BecomesTyped DEF Free
<1>8. ~(\E m \in Messages : Take(t, m))
  BY <1>1, TakeEffect, BecomesTyped DEF Free
<1>9. ~(\E q \in Endpoints : Check(t, q))
  BY <1>1, <1>7, CheckEffect, BecomesTyped DEF Check
<1>10. ~Record(t)
  BY <1>1, <1>7, RecordEffect, BecomesTyped, TaskParts DEF Record
<1>11. ~Schedule(t) /\ ~CancelOwn(t)
  BY <1>7, TaskParts DEF Schedule, CancelOwn
<1>12. ~InsertDLQ(t)
  BY <1>1, InsertDLQEffect, BecomesTyped
<1>13. PICK outcome \in Outcomes : Post(t, outcome)
  BY <1>5, <1>6, <1>8, <1>9, <1>10, <1>11, <1>12 DEF TaskStep
<1>14. /\ task'[t].outcome = outcome /\ task'[t].ep = task[t].ep /\ task'[t].msg = task[t].msg
  BY <1>13, PostEffect, BecomesTyped
<1>15. Pair(t) = <<e, p>> /\ <<e, p>> \in Pairs
  BY <1>1, <1>14 DEF Pair, Pairs
<1>16. acked'[<<e, p>>] = acked[<<e, p>>] + 1
  BY <1>1, <1>13, <1>14, <1>15 DEF Post, Typed, TypeOK
<1>. QED BY <1>5, <1>6, <1>16, OthersWait

(* Answers are never taken back.                                           *)
LEMMA AnswersGrow ==
  ASSUME Typed, Steady
  PROVE  \A d \in Pairs : acked[d] \in Nat /\ acked'[d] \in Nat /\ acked'[d] >= acked[d]
<1>1. acked \in [Pairs -> Nat]
  BY DEF Typed, TypeOK
<1>2. ASSUME NEW t \in Tasks, NEW outcome \in Outcomes, Post(t, outcome)
      PROVE  \A d \in Pairs : acked[d] \in Nat /\ acked'[d] \in Nat /\ acked'[d] >= acked[d]
  BY <1>1, <1>2 DEF Post
<1>3. acked' = acked => \A d \in Pairs : acked[d] \in Nat /\ acked'[d] \in Nat /\ acked'[d] >= acked[d]
  BY <1>1
<1>4. ASSUME NEW t \in Tasks, TaskStep(t)
      PROVE  acked' = acked \/ \E outcome \in Outcomes : Post(t, outcome)
  BY <1>4 DEF TaskStep, Take, Check, Record, Schedule, InsertDLQ, CancelOwn, ghosts
<1>5. ASSUME NEW w \in Workers, SchedulerStep(w) \/ Crash(w) \/ ForeignKeyError(w)
      PROVE  acked' = acked
  BY <1>5 DEF SchedulerStep, Poll, Republish, CancelPublished, Crash, ForeignKeyError, Die, ghosts
<1>6. UNCHANGED vars => acked' = acked
  BY DEF vars, ghosts
<1>. QED BY <1>2, <1>3, <1>4, <1>5, <1>6 DEF Steady

(* So two tasks that record an answer always have had two.                 *)
LEMMA TwiceStep ==
  ASSUME Typed, Honest, Twice, Steady
  PROVE  Twice'
<1>1. SUFFICES ASSUME NEW e \in Events, NEW p \in Endpoints, NEW t \in Tasks, NEW u \in Tasks,
                      t # u, Answering(t, e, p)', Answering(u, e, p)'
               PROVE  acked'[<<e, p>>] >= 2
  BY DEF Twice, Answering, Serves, Answered
<1>2. <<e, p>> \in Pairs /\ acked[<<e, p>>] \in Nat /\ acked'[<<e, p>>] \in Nat
      /\ acked'[<<e, p>>] >= acked[<<e, p>>]
  BY AnswersGrow DEF Pairs
<1>3. ASSUME NEW v \in Tasks, Answering(v, e, p) PROVE acked[<<e, p>>] > 0
  BY <1>3 DEF Honest, Answering, Answered, Serves, Pair
<1>4. CASE Answering(t, e, p) /\ Answering(u, e, p)
  BY <1>1, <1>2, <1>4 DEF Twice
<1>5. CASE ~Answering(t, e, p)
  <2>1. task'[u] = task[u] /\ acked'[<<e, p>>] = acked[<<e, p>>] + 1
    BY <1>1, <1>5, NewAnswer
  <2>2. Answering(u, e, p)
    BY <1>1, <2>1 DEF Answering, Serves, Answered
  <2>. QED BY <1>2, <1>3, <2>1, <2>2
<1>6. CASE ~Answering(u, e, p)
  <2>1. task'[t] = task[t] /\ acked'[<<e, p>>] = acked[<<e, p>>] + 1
    BY <1>1, <1>6, NewAnswer
  <2>2. Answering(t, e, p)
    BY <1>1, <2>1 DEF Answering, Serves, Answered
  <2>. QED BY <1>2, <1>3, <2>1, <2>2
<1>. QED BY <1>4, <1>5, <1>6

-----------------------------------------------------------------------------
(* While there is one carrier at most *)

(* An answer, a dead letter or a carrier is then alone.                    *)
LEMMA OneOnly ==
  ASSUME Typed, NEW e \in Events, NEW p \in Endpoints, Countable(e, p), Total(e, p) <= 1
  PROVE  /\ acked[<<e, p>>] > 0 \/ dlq[<<e, p>>] # "none" =>
              /\ acked[<<e, p>>] = 0 \/ (acked[<<e, p>>] = 1 /\ dlq[<<e, p>>] = "none")
              /\ Copies(e, p) = {} /\ Carrying(e, p) = {} /\ Waiting(e, p) = {}
         /\ \A t \in Carrying(e, p) :
              /\ acked[<<e, p>>] = 0 /\ dlq[<<e, p>>] = "none"
              /\ Copies(e, p) = {} /\ Carrying(e, p) = {t} /\ Waiting(e, p) = {}
<1>1. /\ acked[<<e, p>>] \in Nat /\ Ended(e, p) \in Nat
      /\ Cardinality(Copies(e, p)) \in Nat /\ Cardinality(Carrying(e, p)) \in Nat
      /\ Cardinality(Waiting(e, p)) \in Nat
  BY Parts
<1>2. Ended(e, p) + Cardinality(Copies(e, p)) + Cardinality(Carrying(e, p))
        + Cardinality(Waiting(e, p)) <= 1
  BY DEF Total
<1>3. Ended(e, p) = acked[<<e, p>>] + (IF dlq[<<e, p>>] = "none" THEN 0 ELSE 1)
  BY DEF Ended
<1>4. ASSUME NEW c \in Copies(e, p) PROVE Cardinality(Copies(e, p)) >= 1
  BY <1>4, AtLeast DEF Countable
<1>5. ASSUME NEW c \in Waiting(e, p) PROVE Cardinality(Waiting(e, p)) >= 1
  BY <1>5, AtLeast DEF Countable
<1>6. ASSUME NEW c \in Carrying(e, p)
      PROVE  /\ Cardinality(Carrying(e, p)) >= 1
             /\ \A u \in Carrying(e, p) : u # c => Cardinality(Carrying(e, p)) >= 2
  BY <1>6, AtLeast DEF Countable
<1>7. ASSUME acked[<<e, p>>] > 0 \/ dlq[<<e, p>>] # "none"
      PROVE  /\ acked[<<e, p>>] = 0 \/ (acked[<<e, p>>] = 1 /\ dlq[<<e, p>>] = "none")
             /\ Copies(e, p) = {} /\ Carrying(e, p) = {} /\ Waiting(e, p) = {}
  <2>1. Ended(e, p) >= 1
    BY <1>1, <1>3, <1>7
  <2>. QED BY <1>1, <1>2, <1>3, <1>4, <1>5, <1>6, <2>1
<1>8. ASSUME NEW t \in Carrying(e, p)
      PROVE  /\ acked[<<e, p>>] = 0 /\ dlq[<<e, p>>] = "none"
             /\ Copies(e, p) = {} /\ Carrying(e, p) = {t} /\ Waiting(e, p) = {}
  <2>1. /\ Cardinality(Carrying(e, p)) >= 1
        /\ \A u \in Carrying(e, p) : u # t => Cardinality(Carrying(e, p)) >= 2
    BY <1>6, <1>8
  <2>2. Carrying(e, p) = {t}
    BY <1>1, <1>2, <1>8, <2>1
  <2>. QED BY <1>1, <1>2, <1>3, <1>4, <1>5, <2>1, <2>2
<1>. QED BY <1>7, <1>8

(* Nothing is on record for the attempts a carrier has still to make.      *)
Unrecorded(e, p, n) == \A j \in Attempts : j >= n => attempts[Retry(e, p, j)] = "none"
Ahead(t, p) ==
  IF task[t].ep = p /\ task[t].step \in {"schedule", "dlq"} THEN task[t].msg.n + 1
  ELSE task[t].msg.n

Fresh(e, p) ==
  /\ \A m \in Messages : Reaches(m, e, p) /\ topic[m] > 0 => Unrecorded(e, p, m.n)
  /\ \A t \in Tasks : Serves(t, e, p) /\ ~GivenUp(t, p) => Unrecorded(e, p, Ahead(t, p))
  /\ \A r \in Waiting(e, p) : Unrecorded(e, p, r.n)

(* A step that records nothing for the pair, brings no message or retry    *)
(* that does not come from a task or a retry, and keeps each task where it *)
(* is or takes it nowhere earlier.                                         *)
LEMMA FreshKept ==
  ASSUME NEW e \in Events, NEW p \in Endpoints, Fresh(e, p),
         \A j \in Attempts : attempts'[Retry(e, p, j)] = attempts[Retry(e, p, j)],
         \A m \in Messages : Reaches(m, e, p) /\ topic'[m] > 0 =>
           topic[m] > 0 \/ m \in Waiting(e, p),
         \A t \in Tasks : Serves(t, e, p)' /\ ~GivenUp(t, p)' =>
           Unrecorded(e, p, Ahead(t, p)'),
         \A r \in Waiting(e, p)' : r \in Waiting(e, p) \/ Unrecorded(e, p, r.n)
  PROVE  Fresh(e, p)'
BY DEF Fresh, Unrecorded, Reaches

(* A task that goes on with what it has, or stops, and records nothing, is *)
(* no nearer to a record.                                                  *)
LEMMA TaskFresh ==
  ASSUME Typed, NEW e \in Events, NEW p \in Endpoints, Fresh(e, p), NEW t \in Tasks,
         \A u \in Tasks \ {t} : task'[u] = task[u], UNCHANGED attempts,
         NEW k, task'[t] = k,
         \/ k = Free
         \/ /\ k.msg = task[t].msg /\ k.targets \subseteq task[t].targets
            /\ ~(task[t].step = "cancel" /\ task[t].ep = p /\ p \in k.targets)
            /\ task[t].step \in {"schedule", "dlq"} /\ task[t].ep = p /\ p \in k.targets =>
                 k.ep = p /\ k.step \in {"schedule", "dlq", "cancel"}
  PROVE  \A u \in Tasks : Serves(u, e, p)' /\ ~GivenUp(u, p)' => Unrecorded(e, p, Ahead(u, p)')
<1>1. SUFFICES ASSUME NEW u \in Tasks, Serves(u, e, p)', ~GivenUp(u, p)'
               PROVE  Unrecorded(e, p, Ahead(u, p)')
  OBVIOUS
<1>2. CASE u # t
  BY <1>1, <1>2 DEF Fresh, Serves, GivenUp, Ahead
<1>3. CASE u = t
  <2>1. k # Free
    BY <1>1, <1>3, NoMessage DEF Free, Serves
  <2>2. Serves(t, e, p) /\ ~GivenUp(t, p)
    BY <1>1, <1>3, <2>1 DEF Serves, GivenUp
  <2>3. Unrecorded(e, p, Ahead(t, p))
    BY <2>2 DEF Fresh
  <2>4. task[t].msg.n \in Nat
    BY <2>2, TaskParts DEF Serves, Consistent, Attempts
  <2>5. Ahead(t, p)' = Ahead(t, p) \/ (Ahead(t, p)' = task[t].msg.n + 1 /\ Ahead(t, p) = task[t].msg.n)
    BY <1>1, <1>3, <2>1 DEF Ahead, GivenUp, Serves
  <2>6. \A j \in Attempts : j \in Nat
    BY DEF Attempts
  <2>. QED BY <1>3, <2>3, <2>4, <2>5, <2>6 DEF Unrecorded
<1>. QED BY <1>2, <1>3

(* The steps of a task but the record.                                     *)
LEMMA TaskStepFresh ==
  ASSUME Typed, Typed', NEW e \in Events, NEW p \in Endpoints, Fresh(e, p),
         NEW t \in Tasks, TaskStep(t), ~Record(t)
  PROVE  Fresh(e, p)'
<1>1. \A u \in Tasks \ {t} : task'[u] = task[u]
  BY OthersWait
<1>2. UNCHANGED attempts /\ UNCHANGED sched
  BY DEF TaskStep, Take, Check, Post, Schedule, InsertDLQ, CancelOwn, postgres
<1>3. \A m \in Messages : topic'[m] > 0 => topic[m] > 0
  BY DEF TaskStep, Take, Check, Post, Schedule, InsertDLQ, CancelOwn, Typed, TypeOK
<1>4. CASE \E m \in Messages : Take(t, m)
  <2>1. PICK m \in Messages : Take(t, m)
    BY <1>4
  <2>2. PICK k \in TaskStates :
          /\ Becomes(t, k) /\ Consistent(k)
          /\ \/ k = Free /\ Targets(m) = {}
             \/ k.step = "check" /\ k.msg = m /\ k.targets = Targets(m)
    BY <2>1, TakeEffect
  <2>3. task'[t] = k
    BY <2>2, BecomesTyped
  <2>4. ASSUME Serves(t, e, p)' PROVE Unrecorded(e, p, Ahead(t, p)')
    <3>1. k.msg = m /\ p \in Targets(m) /\ m.ev = e /\ k.step = "check"
      BY <2>2, <2>3, <2>4, NoMessage DEF Serves, Free
    <3>2. Reaches(m, e, p) /\ topic[m] > 0
      BY <2>1, <3>1, TakeEffect DEF Reaches, Take
    <3>. QED BY <2>3, <3>1, <3>2 DEF Fresh, Ahead
  <2>5. \A u \in Tasks : Serves(u, e, p)' /\ ~GivenUp(u, p)' => Unrecorded(e, p, Ahead(u, p)')
    BY <1>1, <2>4 DEF Fresh, Serves, GivenUp, Ahead
  <2>6. Waiting(e, p)' = Waiting(e, p)
    BY <1>2, <2>1 DEF Take, Waiting, sched
  <2>. QED BY <1>2, <1>3, <2>5, <2>6, FreshKept
<1>5. ASSUME NEW q \in task[t].targets, task[t].step # "idle", DoneWith(t, q),
             task[t].step \in {"check", "record"} \/ task[t].ep = q
      PROVE  \A u \in Tasks : Serves(u, e, p)' /\ ~GivenUp(u, p)' => Unrecorded(e, p, Ahead(u, p)')
  <2>1. PICK k \in TaskStates :
          /\ Becomes(t, k) /\ Consistent(k)
          /\ \/ k = Free /\ task[t].targets = {q}
             \/ /\ k.step = "check" /\ k.msg = task[t].msg /\ k.msg.ep = None
                /\ k.targets = task[t].targets \ {q} /\ k.targets # {}
    BY <1>5, DoneWithEffect
  <2>2. task'[t] = k
    BY <2>1, BecomesTyped
  <2>. QED BY <1>1, <1>2, <1>5, <2>1, <2>2, TaskFresh
<1>6. CASE \E q \in Endpoints : Check(t, q)
  <2>1. PICK q \in Endpoints : Check(t, q)
    BY <1>6
  <2>2. task[t].step = "check" /\ q \in task[t].targets
    BY <2>1 DEF Check
  <2>3. \A u \in Tasks : Serves(u, e, p)' /\ ~GivenUp(u, p)' => Unrecorded(e, p, Ahead(u, p)')
    <3>1. CASE DoneWith(t, q)
      BY <1>5, <2>2, <3>1
    <3>2. CASE ~DoneWith(t, q)
      <4>1. PICK k \in TaskStates :
              /\ Becomes(t, k) /\ Consistent(k)
              /\ k.step = "post" /\ k.ep = q
              /\ k.msg = task[t].msg /\ k.targets = task[t].targets
        BY <2>1, <3>2, CheckEffect
      <4>2. task'[t] = k
        BY <4>1, BecomesTyped
      <4>. QED BY <1>1, <1>2, <2>2, <4>1, <4>2, TaskFresh
    <3>. QED BY <3>1, <3>2
  <2>4. Waiting(e, p)' = Waiting(e, p)
    BY <1>2, <2>1 DEF Check, Waiting, sched
  <2>. QED BY <1>2, <1>3, <2>3, <2>4, FreshKept
<1>7. CASE \E outcome \in Outcomes : Post(t, outcome)
  <2>1. PICK outcome \in Outcomes : Post(t, outcome)
    BY <1>7
  <2>2. PICK k \in TaskStates :
          /\ Becomes(t, k) /\ Consistent(k)
          /\ k.step = "record" /\ k.outcome = outcome /\ k.ep = task[t].ep
          /\ k.msg = task[t].msg /\ k.targets = task[t].targets
    BY <2>1, PostEffect
  <2>3. task'[t] = k /\ task[t].step = "post"
    BY <2>1, <2>2, BecomesTyped DEF Post
  <2>4. \A u \in Tasks : Serves(u, e, p)' /\ ~GivenUp(u, p)' => Unrecorded(e, p, Ahead(u, p)')
    BY <1>1, <1>2, <2>2, <2>3, TaskFresh
  <2>5. Waiting(e, p)' = Waiting(e, p)
    BY <1>2, <2>1 DEF Post, Waiting, sched
  <2>. QED BY <1>2, <1>3, <2>4, <2>5, FreshKept
<1>8. CASE Schedule(t)
  <2>1. task[t].step = "schedule" /\ task[t].ep \in task[t].targets /\ DoneWith(t, task[t].ep)
    BY <1>8, TaskParts DEF Schedule
  <2>2. \A u \in Tasks : Serves(u, e, p)' /\ ~GivenUp(u, p)' => Unrecorded(e, p, Ahead(u, p)')
    BY <1>5, <2>1
  <2>3. ASSUME NEW r \in Waiting(e, p)' PROVE r \in Waiting(e, p) \/ Unrecorded(e, p, r.n)
    <3>1. /\ NextKey(t).ev = task[t].msg.ev /\ NextKey(t).ep = task[t].ep
          /\ NextKey(t).n = task[t].msg.n + 1
          /\ retries' = retries \cup {NextKey(t)}
      BY <1>8, <2>1, ScheduleAdds, NextAttempt
    <3>2. CASE r # NextKey(t)
      BY <1>2, <2>3, <3>1, <3>2 DEF Waiting, sched
    <3>3. CASE r = NextKey(t)
      <4>1. task[t].msg.ev = e /\ task[t].ep = p
        BY <2>3, <3>1, <3>3 DEF Waiting
      <4>2. Serves(t, e, p) /\ ~GivenUp(t, p) /\ Ahead(t, p) = r.n
        BY <2>1, <3>1, <3>3, <4>1 DEF Serves, GivenUp, Ahead
      <4>. QED BY <4>2 DEF Fresh
    <3>. QED BY <3>2, <3>3
  <2>. QED BY <1>2, <1>3, <2>2, <2>3, FreshKept
<1>9. CASE InsertDLQ(t)
  <2>1. PICK k \in TaskStates :
          /\ Becomes(t, k) /\ Consistent(k)
          /\ k.step = "cancel" /\ k.outcome = task[t].outcome /\ k.ep = task[t].ep
          /\ k.msg = task[t].msg /\ k.targets = task[t].targets
    BY <1>9, InsertDLQEffect
  <2>2. task'[t] = k /\ task[t].step = "dlq"
    BY <1>9, <2>1, BecomesTyped DEF InsertDLQ
  <2>3. \A u \in Tasks : Serves(u, e, p)' /\ ~GivenUp(u, p)' => Unrecorded(e, p, Ahead(u, p)')
    BY <1>1, <1>2, <2>1, <2>2, TaskFresh
  <2>4. Waiting(e, p)' = Waiting(e, p)
    BY <1>2, <1>9 DEF InsertDLQ, Waiting, sched
  <2>. QED BY <1>2, <1>3, <2>3, <2>4, FreshKept
<1>10. CASE CancelOwn(t)
  <2>1. task[t].step = "cancel" /\ task[t].ep \in task[t].targets /\ DoneWith(t, task[t].ep)
    BY <1>10, TaskParts DEF CancelOwn
  <2>2. \A u \in Tasks : Serves(u, e, p)' /\ ~GivenUp(u, p)' => Unrecorded(e, p, Ahead(u, p)')
    BY <1>5, <2>1
  <2>3. Waiting(e, p)' \subseteq Waiting(e, p)
    BY <1>2, <1>10 DEF CancelOwn, Without, Waiting, sched
  <2>. QED BY <1>2, <1>3, <2>2, <2>3, FreshKept
<1>. QED BY <1>4, <1>6, <1>7, <1>8, <1>9, <1>10 DEF TaskStep

(* A record is the first of its attempt: nothing else is under way for the *)
(* pair but tasks that have given it up.                                   *)
LEMMA RecordFresh ==
  ASSUME Typed, Typed', Honest, Twice, NEW e \in Events, NEW p \in Endpoints,
         Countable(e, p), Total(e, p) <= 1, Fresh(e, p), NEW t \in Tasks, Record(t)
  PROVE  Fresh(e, p)'
<1>1. /\ task[t].step = "record" /\ task[t].ep \in task[t].targets
      /\ Key(t) \in RetryMessages /\ Key(t).ev = task[t].msg.ev /\ Key(t).ep = task[t].ep
      /\ Key(t).n = task[t].msg.n /\ task[t].msg.n \in Attempts
      /\ \A u \in Tasks \ {t} : task'[u] = task[u]
  BY TaskParts, OthersWait DEF Record, TaskStep
<1>2. /\ \A k \in RetryMessages : k # Key(t) => attempts'[k] = attempts[k]
      /\ topic' = topic /\ Waiting(e, p)' = Waiting(e, p)
  BY <1>1 DEF Record, InsertAttempt, Typed, TypeOK, Waiting, sched
<1>3. \A j \in Attempts :
        Retry(e, p, j) \in RetryMessages /\ Retry(e, p, j).ev = e /\ Retry(e, p, j).ep = p
        /\ Retry(e, p, j).n = j
  BY RetryMade
<1>4. \E k \in TaskStates :
        /\ task'[t] = k
        /\ \/ k = Free /\ task[t].outcome = "success" /\ task[t].targets = {task[t].ep}
           \/ /\ k.step = "check" /\ k.msg = task[t].msg /\ task[t].outcome = "success"
              /\ k.targets = task[t].targets \ {task[t].ep}
           \/ /\ k.step \in {"schedule", "dlq"} /\ k.ep = task[t].ep /\ k.msg = task[t].msg
              /\ k.targets = task[t].targets /\ task[t].outcome # "success"
  <2>1. CASE task[t].outcome = "success"
    <3>1. DoneWith(t, task[t].ep)
      BY <2>1, RecordEffect
    <3>. QED BY <1>1, <2>1, <3>1, DoneWithEffect, BecomesTyped
  <2>2. CASE task[t].outcome # "success"
    BY <2>2, RecordEffect, BecomesTyped
  <2>. QED BY <2>1, <2>2
<1>5. PICK k \in TaskStates :
        /\ task'[t] = k
        /\ \/ k = Free /\ task[t].outcome = "success" /\ task[t].targets = {task[t].ep}
           \/ /\ k.step = "check" /\ k.msg = task[t].msg /\ task[t].outcome = "success"
              /\ k.targets = task[t].targets \ {task[t].ep}
           \/ /\ k.step \in {"schedule", "dlq"} /\ k.ep = task[t].ep /\ k.msg = task[t].msg
              /\ k.targets = task[t].targets /\ task[t].outcome # "success"
  BY <1>4
<1>6. CASE ~(task[t].msg.ev = e /\ task[t].ep = p)
  <2>1. \A j \in Attempts : attempts'[Retry(e, p, j)] = attempts[Retry(e, p, j)]
    BY <1>1, <1>2, <1>3, <1>6
  <2>2. ASSUME Serves(t, e, p)' PROVE Serves(t, e, p) /\ Ahead(t, p)' = Ahead(t, p) /\ ~GivenUp(t, p)
    BY <1>1, <1>5, <1>6, <2>2, NoMessage DEF Serves, Ahead, Free, GivenUp
  <2>3. \A u \in Tasks : Serves(u, e, p)' /\ ~GivenUp(u, p)' => Unrecorded(e, p, Ahead(u, p)')
    BY <1>1, <2>2 DEF Fresh, Serves, GivenUp, Ahead
  <2>. QED BY <1>2, <2>1, <2>3, FreshKept
<1>7. CASE task[t].msg.ev = e /\ task[t].ep = p
  <2>1. Serves(t, e, p) /\ ~GivenUp(t, p) /\ Pair(t) = <<e, p>> /\ Ahead(t, p) = task[t].msg.n
    BY <1>1, <1>7 DEF Serves, GivenUp, Pair, Ahead
  <2>2. /\ Copies(e, p) = {} /\ Waiting(e, p) = {}
        /\ \A u \in Tasks \ {t} : Serves(u, e, p) => GivenUp(u, p)
    <3>1. CASE task[t].outcome = "success"
      <4>1. acked[<<e, p>>] > 0 /\ Answering(t, e, p)
        BY <1>1, <1>7, <2>1, <3>1 DEF Honest, Answering, Answered
      <4>2. /\ Copies(e, p) = {} /\ Carrying(e, p) = {} /\ Waiting(e, p) = {}
            /\ acked[<<e, p>>] \in {0, 1}
        BY <4>1, OneOnly
      <4>3. \A u \in Tasks \ {t} : ~Answering(u, e, p)
        BY <4>1, <4>2 DEF Twice
      <4>. QED BY <4>2, <4>3 DEF Carrying, Answering
    <3>2. CASE task[t].outcome # "success"
      <4>1. t \in Carrying(e, p)
        BY <2>1, <3>2 DEF Carrying, Answered
      <4>2. /\ Copies(e, p) = {} /\ Carrying(e, p) = {t} /\ Waiting(e, p) = {}
            /\ acked[<<e, p>>] = 0
        BY <4>1, OneOnly
      <4>3. ASSUME NEW u \in Tasks, Answering(u, e, p) PROVE FALSE
        <5>1. acked[<<e, p>>] > 0
          BY <4>3 DEF Honest, Answering, Answered, Serves, Pair
        <5>. QED BY <4>2, <5>1
      <4>. QED BY <4>2, <4>3 DEF Carrying, Answering
    <3>. QED BY <3>1, <3>2
  <2>3. ASSUME NEW m \in Messages, Reaches(m, e, p), topic'[m] > 0 PROVE FALSE
    <3>1. topic[m] \in Nat /\ topic[m] > 0
      BY <1>2, <2>3 DEF Typed, TypeOK
    <3>2. 1 \in 1 .. topic[m]
      BY <3>1
    <3>3. <<m, 1>> \in Copies(e, p)
      BY <2>3, <3>2, CopyParts
    <3>. QED BY <2>2, <3>3
  <2>4. ASSUME NEW j \in Attempts, j >= task[t].msg.n + 1 PROVE attempts'[Retry(e, p, j)] = "none"
    <3>1. j >= task[t].msg.n /\ j # Key(t).n
      BY <1>1, <2>4 DEF Attempts
    <3>2. attempts[Retry(e, p, j)] = "none"
      BY <2>1, <3>1 DEF Fresh, Unrecorded
    <3>. QED BY <1>2, <1>3, <3>1, <3>2
  <2>5. Serves(t, e, p)' => Ahead(t, p)' = task[t].msg.n + 1
    BY <1>5, <1>7, NoMessage DEF Ahead, Serves, Free
  <2>6. \A u \in Tasks : Serves(u, e, p)' /\ ~GivenUp(u, p)' => u = t
    BY <1>1, <2>2 DEF Serves, GivenUp
  <2>. QED BY <1>2, <2>2, <2>3, <2>4, <2>5, <2>6 DEF Fresh, Reaches, Unrecorded
<1>. QED BY <1>6, <1>7

(* The scheduler carries a retry from Redis to the topic.                  *)
LEMMA SchedulerFresh ==
  ASSUME Typed, OneAtATime, NEW e \in Events, NEW p \in Endpoints, Fresh(e, p),
         NEW w \in Workers, Workers = {w}, SchedulerStep(w)
  PROVE  Fresh(e, p)'
<1>1. /\ due \in [Workers -> SUBSET RetryMessages] /\ republished \in [Workers -> SUBSET RetryMessages]
      /\ topic \in [Messages -> Nat]
  BY DEF Typed, TypeOK
<1>2. UNCHANGED <<attempts, task>>
  BY DEF SchedulerStep, Poll, Republish, CancelPublished, postgres
<1>3. \A t \in Tasks : Serves(t, e, p)' /\ ~GivenUp(t, p)' => Unrecorded(e, p, Ahead(t, p)')
  BY <1>2 DEF Fresh, Serves, GivenUp, Ahead
<1>4. CASE Poll(w)
  <2>1. Waiting(e, p)' \subseteq Waiting(e, p) /\ topic' = topic
    BY <1>1, <1>4 DEF Poll, Waiting
  <2>. QED BY <1>2, <1>3, <2>1, FreshKept
<1>5. ASSUME NEW m \in RetryMessages, Republish(w, m) PROVE Fresh(e, p)'
  <2>1. /\ m \in due[w] /\ republished[w] = {}
        /\ due'[w] = due[w] \ {m} /\ republished'[w] = {m} /\ retries' = retries
    BY <1>1, <1>5 DEF Republish
  <2>2. Waiting(e, p)' \subseteq Waiting(e, p)
    BY <2>1 DEF Waiting
  <2>3. m \in Messages /\ m.ep # None /\ \A j \in Messages \ {m} : topic'[j] = topic[j]
    BY <1>1, <1>5, RetryParts, NoneAssumption DEF Republish, Add
  <2>4. Reaches(m, e, p) => m \in Waiting(e, p)
    BY <2>1, <2>3 DEF Waiting, Reaches
  <2>. QED BY <1>2, <1>3, <2>2, <2>3, <2>4, FreshKept
<1>6. ASSUME NEW m \in RetryMessages, CancelPublished(w, m) PROVE Fresh(e, p)'
  <2>1. /\ republished[w] = {m} /\ m \notin due[w] /\ republished'[w] = {}
        /\ due' = due /\ retries' = retries \ {m} /\ topic' = topic
    BY <1>1, <1>6, WithoutRemoves DEF CancelPublished, OneAtATime
  <2>2. Waiting(e, p)' \subseteq Waiting(e, p)
    BY <2>1 DEF Waiting
  <2>. QED BY <1>2, <1>3, <2>1, <2>2, FreshKept
<1>. QED BY <1>4, <1>5, <1>6 DEF SchedulerStep

(* Until the worker dies or a message is read twice, every attempt that is *)
(* made is a new one.                                                      *)
LEMMA FreshStep ==
  ASSUME Typed, Typed', Honest, Twice, OneAtATime, Alive, NEW w \in Workers, Workers = {w},
         NEW e \in Events, NEW p \in Endpoints, Countable(e, p), Total(e, p) <= 1, Fresh(e, p)
  PROVE  Fresh(e, p)'
<1>1. CASE UNCHANGED vars
  BY <1>1 DEF Fresh, Reaches, Serves, GivenUp, Ahead, Unrecorded, Waiting, vars, postgres, sched
<1>. QED BY <1>1, TaskStepFresh, RecordFresh, SchedulerFresh DEF Alive

(* What nothing was published for stays without a record.                  *)
LEMMA UnrecordedStep ==
  ASSUME Typed, Honest, Alive, NEW e \in Events, NEW p \in Endpoints,
         Countable(e, p), Total(e, p) <= 0, Unrecorded(e, p, 0)
  PROVE  Unrecorded(e, p, 0)'
<1>1. ASSUME NEW t \in Tasks, Record(t), task[t].msg.ev = e, task[t].ep = p PROVE FALSE
  <2>1. Ended(e, p) \in Nat /\ acked[<<e, p>>] \in Nat
        /\ Cardinality(Copies(e, p)) \in Nat /\ Cardinality(Carrying(e, p)) \in Nat
        /\ Cardinality(Waiting(e, p)) \in Nat
    BY Parts
  <2>2. acked[<<e, p>>] = 0 /\ Cardinality(Carrying(e, p)) = 0
    <3>1. Ended(e, p) + Cardinality(Copies(e, p)) + Cardinality(Carrying(e, p))
            + Cardinality(Waiting(e, p)) <= 0
      BY DEF Total
    <3>2. Ended(e, p) >= acked[<<e, p>>]
      BY <2>1 DEF Ended
    <3>. QED BY <2>1, <3>1, <3>2
  <2>3. task[t].step = "record" /\ Serves(t, e, p) /\ Pair(t) = <<e, p>>
    BY <1>1, TaskParts DEF Record, Serves, Pair
  <2>4. task[t].outcome # "success"
    BY <2>2, <2>3 DEF Honest
  <2>5. t \in Carrying(e, p)
    BY <2>3, <2>4 DEF Carrying, Answered, GivenUp
  <2>. QED BY <2>2, <2>5, AtLeast DEF Countable
<1>2. \A j \in Attempts : attempts'[Retry(e, p, j)] = attempts[Retry(e, p, j)]
  <2>1. ASSUME NEW t \in Tasks, Record(t)
        PROVE  \A j \in Attempts : attempts'[Retry(e, p, j)] = attempts[Retry(e, p, j)]
    <3>1. Key(t).ev # e \/ Key(t).ep # p
      BY <1>1, <2>1, TaskParts DEF Record
    <3>2. \A j \in Attempts : Retry(e, p, j) \in RetryMessages /\ Retry(e, p, j) # Key(t)
      BY <3>1, RetryMade
    <3>. QED BY <2>1, <3>2 DEF Record, InsertAttempt, Typed, TypeOK
  <2>2. ASSUME NEW t \in Tasks, TaskStep(t), ~Record(t) PROVE attempts' = attempts
    BY <2>2 DEF TaskStep, Take, Check, Post, Schedule, InsertDLQ, CancelOwn, postgres
  <2>3. ASSUME NEW w \in Workers, SchedulerStep(w) PROVE attempts' = attempts
    BY <2>3 DEF SchedulerStep, Poll, Republish, CancelPublished, postgres
  <2>4. UNCHANGED vars => attempts' = attempts
    BY DEF vars, postgres
  <2>. QED BY <2>1, <2>2, <2>3, <2>4 DEF Alive
<1>. QED BY <1>2 DEF Unrecorded

(* An answer is on record, or a task is about to record it.                *)
Logged(e, p) ==
  acked[<<e, p>>] > 0 => HasSuccess(e, p) \/ \E t \in Tasks : Answering(t, e, p)

(* The insert of a record that is the first of its attempt does insert it. *)
LEMMA LoggedStep ==
  ASSUME Typed, Steady, Alive, NEW e \in Events, NEW p \in Endpoints, Fresh(e, p), Logged(e, p)
  PROVE  Logged(e, p)'
<1>1. <<e, p>> \in Pairs
  BY DEF Pairs
<1>2. HasSuccess(e, p) => HasSuccess(e, p)'
  <2>1. SUFFICES ASSUME NEW n \in Attempts, attempts[Retry(e, p, n)] = "success"
                 PROVE  attempts'[Retry(e, p, n)] = "success"
    BY DEF HasSuccess
  <2>2. Retry(e, p, n) \in RetryMessages
    BY RetryMade
  <2>3. \A k \in RetryMessages : attempts[k] # "none" => attempts'[k] = attempts[k]
    BY RecordsStay
  <2>. QED BY <2>1, <2>2, <2>3
<1>3. ASSUME NEW t \in Tasks, Answering(t, e, p) PROVE Logged(e, p)'
  <2>1. /\ task[t].step = "record" /\ task[t].outcome = "success"
        /\ task[t].ep = p /\ task[t].msg.ev = e
    BY <1>3 DEF Answering, Answered, Serves
  <2>2. CASE task'[t] = task[t]
    BY <1>3, <2>2 DEF Logged, Answering, Answered, Serves
  <2>3. CASE task'[t] # task[t]
    <3>1. ~(UNCHANGED vars) /\ ~(\E w \in Workers : SchedulerStep(w))
      BY <2>3 DEF vars, SchedulerStep, Poll, Republish, CancelPublished
    <3>2. TaskStep(t)
      BY <2>3, <3>1, OthersWait DEF Alive
    <3>3. Record(t)
      BY <2>1, <3>2 DEF TaskStep, Take, Check, Post, Schedule, InsertDLQ, CancelOwn
    <3>4. /\ Key(t) \in RetryMessages /\ task[t].msg.n \in Attempts
          /\ Key(t) = Retry(e, p, task[t].msg.n)
      BY <2>1, TaskParts DEF Key
    <3>5. Unrecorded(e, p, task[t].msg.n)
      <4>1. Unrecorded(e, p, Ahead(t, p))
        BY <1>3, <2>1 DEF Fresh, Answering, GivenUp
      <4>. QED BY <2>1, <4>1 DEF Ahead
    <3>6. attempts[Key(t)] = "none"
      BY <3>4, <3>5 DEF Unrecorded, Attempts
    <3>7. attempts'[Key(t)] = "success"
      BY <2>1, <3>3, <3>4, <3>6 DEF Record, InsertAttempt, Status, Typed, TypeOK
    <3>. QED BY <3>4, <3>7 DEF Logged, HasSuccess
  <2>. QED BY <2>2, <2>3
<1>4. CASE acked'[<<e, p>>] = acked[<<e, p>>]
  BY <1>2, <1>3, <1>4 DEF Logged
<1>5. CASE acked'[<<e, p>>] # acked[<<e, p>>]
  <2>1. ~(UNCHANGED vars) /\ ~(\E w \in Workers : SchedulerStep(w))
    BY <1>5 DEF vars, ghosts, SchedulerStep, Poll, Republish, CancelPublished
  <2>2. PICK t \in Tasks : TaskStep(t)
    BY <2>1 DEF Alive
  <2>3. PICK outcome \in Outcomes : Post(t, outcome)
    BY <1>5, <2>2 DEF TaskStep, Take, Check, Record, Schedule, InsertDLQ, CancelOwn, ghosts
  <2>4. outcome = "success" /\ Pair(t) = <<e, p>>
    BY <1>1, <1>5, <2>3 DEF Post, Typed, TypeOK
  <2>5. /\ task'[t].step = "record" /\ task'[t].outcome = outcome /\ task'[t].ep = task[t].ep
        /\ task'[t].msg = task[t].msg /\ task'[t].targets = task[t].targets
    BY <2>3, PostEffect, BecomesTyped
  <2>6. task[t].ep \in task[t].targets
    BY <2>3, TaskParts DEF Post
  <2>7. Answering(t, e, p)'
    BY <2>4, <2>5, <2>6 DEF Answering, Answered, Serves, Pair
  <2>. QED BY <2>7 DEF Logged
<1>. QED BY <1>4, <1>5

-----------------------------------------------------------------------------
(* What follows for the properties of HookRelay *)

(* A dead letter that is alone is final. *)
LEMMA AloneIsFinal ==
  ASSUME Typed, Honest, NEW w \in Workers, Workers = {w},
         \A e \in Events, p \in Endpoints : Countable(e, p) /\ Total(e, p) <= 1
  PROVE  DeadLetterIsFinal
<1>1. SUFFICES ASSUME NEW e \in Events, NEW p \in Endpoints, dlq[<<e, p>>] # "none"
               PROVE  /\ acked[<<e, p>>] = 0
                      /\ ~InTopic(e, p)
                      /\ \A t \in Tasks : task[t].msg.ev = e /\ p \in task[t].targets =>
                           task[t].step = "cancel"
                      /\ \A r \in retries : r.ev = e /\ r.ep = p =>
                           \E v \in Workers : r \in republished[v]
  BY DEF DeadLetterIsFinal
<1>2. /\ acked[<<e, p>>] = 0
      /\ Copies(e, p) = {} /\ Carrying(e, p) = {} /\ Waiting(e, p) = {}
  BY <1>1, OneOnly
<1>3. ASSUME NEW m \in Messages, Reaches(m, e, p), topic[m] > 0 PROVE FALSE
  <2>1. 1 \in 1 .. topic[m]
    BY <1>3 DEF Typed, TypeOK
  <2>2. <<m, 1>> \in Copies(e, p)
    BY <1>3, <2>1, CopyParts
  <2>. QED BY <1>2, <2>2
<1>4. ~InTopic(e, p)
  BY <1>3, FanOutMade, RetryMade, RetryParts DEF InTopic, Reaches
<1>5. ASSUME NEW t \in Tasks, task[t].msg.ev = e, p \in task[t].targets
      PROVE  task[t].step = "cancel"
  <2>1. ~Answered(t, p)
    BY <1>2, <1>5 DEF Honest, Answered, Pair
  <2>. QED BY <1>2, <1>5, <2>1 DEF Carrying, Serves, GivenUp
<1>6. \A r \in retries : r.ev = e /\ r.ep = p => \E v \in Workers : r \in republished[v]
  BY <1>2 DEF Waiting, Typed, TypeOK
<1>. QED BY <1>2, <1>4, <1>5, <1>6

(* The status of an event with nothing pending is what happened to it.     *)
LEMMA AloneIsSettled ==
  ASSUME Typed, Honest, NEW e \in Events,
         \A p \in Endpoints :
           /\ Countable(e, p) /\ Total(e, p) <= 1
           /\ Held(e, p, 0) /\ Logged(e, p) /\ ~Pending(e, p)
  PROVE  Settled(e)
<1>1. ASSUME NEW p \in Endpoints PROVE Over(e, p)
  <2>1. ~OnTopic(e, p, 0)
    BY <1>1, MessageParts, RetryParts DEF Pending, InTopic, OnTopic
  <2>2. ~InHand(e, p, 0) /\ ~After(e, p, 0)
    BY <1>1 DEF Pending, InTask, InRedis, InHand, After
  <2>. QED BY <1>1, <2>1, <2>2 DEF Held
<1>2. ASSUME NEW p \in Endpoints PROVE HasSuccess(e, p) <=> acked[<<e, p>>] > 0
  <2>1. HasSuccess(e, p) => acked[<<e, p>>] > 0
    BY <1>2, RetryMade DEF HasSuccess, Honest
  <2>2. ASSUME NEW t \in Tasks, Answering(t, e, p) PROVE FALSE
    BY <1>2, <2>2 DEF Pending, InTask, Answering, Serves
  <2>. QED BY <1>2, <2>1, <2>2 DEF Logged
<1>3. ASSUME NEW p \in Endpoints PROVE dlq[<<e, p>>] # "none" <=> ~(acked[<<e, p>>] > 0)
  <2>1. acked[<<e, p>>] \in Nat
    BY <1>3 DEF Typed, TypeOK, Pairs
  <2>2. acked[<<e, p>>] > 0 => dlq[<<e, p>>] = "none"
    BY <1>3, <2>1, OneOnly
  <2>. QED BY <1>1, <1>3, <2>2 DEF Over
<1>4. Retrying(e) = {}
  BY <1>2, <1>3 DEF Retrying, InDLQ
<1>5. Exhausted(e) = Endpoints \ Succeeded(e)
  BY <1>2, <1>3 DEF Exhausted, Succeeded, InDLQ
<1>6. {p \in Endpoints : acked[<<e, p>>] > 0} = Succeeded(e)
  BY <1>2 DEF Succeeded
<1>7. Succeeded(e) \subseteq Endpoints
  BY DEF Succeeded
<1>. QED BY <1>4, <1>5, <1>6, <1>7 DEF Settled, DerivedStatus

-----------------------------------------------------------------------------
(* The dead letters a worker has counted *)

(* Only a task that is about to count it has inserted a dead letter.       *)
Marked == \A t \in Tasks : task[t].inserted => task[t].step = "cancel"

Uncounted(w) == {s \in Slots : task[<<w, s>>].inserted}
Dead == {d \in Pairs : dlq[d] # "none"}

(* No operator has been asked for anything, whichever endpoints there are. *)
Unattended == ops = 0 /\ request = [o \in Operators |-> NoRequest]

(* Without requests there never is one.                                    *)
LEMMA UnattendedStep ==
  ASSUME MaxOps = 0, Unattended, [Next]_vars
  PROVE  Steady /\ Unattended'
<1>1. ~OperatorStep
  BY DEF Unattended, OperatorStep, RequestStep, RetryPublish, RetryCommit, ReplayPublish,
         ReplayCommit, RequestAborts, DeleteDLQ, UpdateEndpoint, CreateEndpoint, DeleteEndpoint,
         Begin, Spend, NoRequest
<1>2. Steady
  BY <1>1 DEF Next, Steady
<1>3. Unattended'
  BY <1>2 DEF Unattended, Steady, TaskStep, Take, Check, Post, Record, Schedule, InsertDLQ,
         CancelOwn, SchedulerStep, Poll, Republish, CancelPublished, Crash, ForeignKeyError, Die,
         vars, spent
<1>. QED BY <1>2, <1>3

(* What a step of a task makes of the mark.                                *)
LEMMA MarkOfTask ==
  ASSUME Typed, Marked, NEW t \in Tasks, TaskStep(t)
  PROVE  /\ \A u \in Tasks \ {t} : task'[u] = task[u]
         /\ InsertDLQ(t) => /\ ~task[t].inserted /\ task'[t].step = "cancel"
                            /\ task'[t].inserted = (dlq[Pair(t)] = "none")
         /\ CancelOwn(t) => ~task'[t].inserted
         /\ ~InsertDLQ(t) /\ ~CancelOwn(t) => ~task[t].inserted /\ ~task'[t].inserted
<1>1. task \in [Tasks -> TaskStates]
  BY DEF Typed, TypeOK, TaskStates
<1>2. task[t].step # "cancel" => ~task[t].inserted
  BY DEF Marked
<1>3. CASE InsertDLQ(t)
  BY <1>1, <1>2, <1>3, OthersWait DEF InsertDLQ, TaskStates, CancelOwn
<1>4. CASE CancelOwn(t)
  BY <1>1, <1>4, OthersWait DEF CancelOwn, DoneWith, Free, InsertDLQ, TaskStates
<1>5. CASE ~InsertDLQ(t) /\ ~CancelOwn(t)
  <2>1. task[t].step # "cancel"
    BY <1>5 DEF TaskStep, Take, Check, Post, Record, Schedule
  <2>2. ASSUME NEW q, DoneWith(t, q) PROVE ~task'[t].inserted
    BY <1>1, <2>2 DEF DoneWith, Free
  <2>3. ASSUME NEW m \in Messages, Take(t, m) PROVE ~task'[t].inserted
    BY <1>1, <2>3 DEF Take, Free
  <2>4. ASSUME NEW q \in Endpoints, Check(t, q) PROVE ~task'[t].inserted
    BY <1>1, <1>2, <2>1, <2>2, <2>4 DEF Check, TaskStates
  <2>5. ASSUME NEW outcome \in Outcomes, Post(t, outcome) PROVE ~task'[t].inserted
    BY <1>1, <1>2, <2>1, <2>5 DEF Post, TaskStates
  <2>6. Record(t) => ~task'[t].inserted
    BY <1>1, <1>2, <2>1, <2>2 DEF Record, Goto, TaskStates
  <2>7. Schedule(t) => ~task'[t].inserted
    BY <2>2 DEF Schedule
  <2>. QED BY <1>2, <1>5, <2>1, <2>3, <2>4, <2>5, <2>6, <2>7, OthersWait DEF TaskStep
<1>. QED BY <1>3, <1>4, <1>5

(* One worker counts every dead letter once, and again when it starts.     *)
LEMMA GaugeStep ==
  ASSUME Typed, Typed', Marked, GaugeIsDepth, Steady, NEW w \in Workers, Workers = {w}
  PROVE  Marked' /\ GaugeIsDepth'
<1>1. /\ gauge \in [Workers -> Nat] /\ task \in [Tasks -> TaskStates]
      /\ dlq \in [Pairs -> {"none", "permanent", "exhausted"}]
  BY DEF Typed, TypeOK, TaskStates
<1>2. /\ IsFiniteSet(Uncounted(w)) /\ IsFiniteSet(Uncounted(w)')
      /\ IsFiniteSet(Dead) /\ IsFiniteSet(Dead')
      /\ Cardinality(Uncounted(w)) \in Nat /\ Cardinality(Dead) \in Nat
  <2>1. IsFiniteSet(Pairs)
    BY FinitenessAssumption, FS_Product DEF Pairs
  <2>. QED BY <2>1, FinitenessAssumption, FS_Subset, FS_CardinalityType DEF Uncounted, Dead
<1>3. gauge[w] + Cardinality(Uncounted(w)) = Cardinality(Dead)
  BY DEF GaugeIsDepth, Depth, Uncounted, Dead
<1>4. SUFFICES Marked' /\ gauge'[w] + Cardinality(Uncounted(w)') = Cardinality(Dead')
  BY DEF GaugeIsDepth, Depth, Uncounted, Dead
<1>5. CASE UNCHANGED <<task, gauge, dlq>>
  BY <1>3, <1>5 DEF Marked, Uncounted, Dead
<1>6. ASSUME NEW t \in Tasks, TaskStep(t)
      PROVE  Marked' /\ gauge'[w] + Cardinality(Uncounted(w)') = Cardinality(Dead')
  <2>1. PICK s \in Slots : t = <<w, s>>
    BY DEF Tasks
  <2>2. \A x \in Slots : <<w, x>> \in Tasks /\ (x # s => <<w, x>> # t)
    BY <2>1 DEF Tasks
  <2>3. /\ \A u \in Tasks \ {t} : task'[u] = task[u]
        /\ InsertDLQ(t) => /\ ~task[t].inserted /\ task'[t].step = "cancel"
                           /\ task'[t].inserted = (dlq[Pair(t)] = "none")
        /\ CancelOwn(t) => ~task'[t].inserted
        /\ ~InsertDLQ(t) /\ ~CancelOwn(t) => ~task[t].inserted /\ ~task'[t].inserted
    BY <1>6, MarkOfTask
  <2>4. Marked'
    BY <2>3 DEF Marked
  <2>5. Uncounted(w)' \ {s} = Uncounted(w) \ {s}
        /\ (s \in Uncounted(w) <=> task[t].inserted) /\ (s \in Uncounted(w)' <=> task'[t].inserted)
    BY <2>1, <2>2, <2>3 DEF Uncounted
  <2>6. CASE InsertDLQ(t) /\ dlq[Pair(t)] = "none"
    <3>1. Pair(t) \in Pairs /\ Reason(t) # "none"
      BY <2>6, TaskParts DEF InsertDLQ, Reason
    <3>2. Dead' = Dead \cup {Pair(t)} /\ Pair(t) \notin Dead
      BY <1>1, <2>6, <3>1 DEF InsertDLQ, Dead
    <3>3. Cardinality(Dead') = Cardinality(Dead) + 1
      BY <1>2, <3>2, FS_AddElement
    <3>4. Uncounted(w)' = Uncounted(w) \cup {s} /\ s \notin Uncounted(w)
      BY <2>3, <2>5, <2>6
    <3>5. Cardinality(Uncounted(w)') = Cardinality(Uncounted(w)) + 1
      BY <1>2, <3>4, FS_AddElement
    <3>. QED BY <1>1, <1>2, <1>3, <2>4, <2>6, <3>3, <3>5 DEF InsertDLQ
  <2>7. CASE InsertDLQ(t) /\ dlq[Pair(t)] # "none"
    <3>1. s \notin Uncounted(w) /\ s \notin Uncounted(w)'
      BY <2>3, <2>5, <2>7
    <3>2. Uncounted(w)' = Uncounted(w)
      BY <2>5, <3>1
    <3>3. Dead' = Dead /\ gauge' = gauge
      BY <2>7 DEF InsertDLQ, Dead
    <3>. QED BY <1>3, <2>4, <3>2, <3>3
  <2>8. CASE CancelOwn(t) /\ task[t].inserted
    <3>1. Dead' = Dead /\ gauge'[w] = gauge[w] + 1
      BY <1>1, <2>1, <2>8 DEF CancelOwn, postgres, Dead
    <3>2. Uncounted(w)' = Uncounted(w) \ {s} /\ s \in Uncounted(w)
      BY <2>3, <2>5, <2>8
    <3>3. Cardinality(Uncounted(w)') = Cardinality(Uncounted(w)) - 1
      BY <1>2, <3>2, FS_RemoveElement
    <3>. QED BY <1>1, <1>2, <1>3, <2>4, <3>1, <3>3
  <2>9. CASE CancelOwn(t) /\ ~task[t].inserted
    <3>1. Uncounted(w)' = Uncounted(w) /\ Dead' = Dead /\ gauge' = gauge
      BY <2>3, <2>5, <2>9 DEF CancelOwn, postgres, Dead
    <3>. QED BY <1>3, <2>4, <3>1
  <2>10. CASE ~InsertDLQ(t) /\ ~CancelOwn(t)
    <3>1. Uncounted(w)' = Uncounted(w)
      BY <2>3, <2>5, <2>10
    <3>2. Dead' = Dead /\ gauge' = gauge
      BY <1>6, <2>10 DEF TaskStep, Take, Check, Post, Record, Schedule, postgres, Dead
    <3>. QED BY <1>3, <2>4, <3>1, <3>2
  <2>. QED BY <2>6, <2>7, <2>8, <2>9, <2>10
<1>7. ASSUME NEW v \in Workers, Die(v)
      PROVE  Marked' /\ gauge'[w] + Cardinality(Uncounted(w)') = Cardinality(Dead')
  <2>1. \A t \in Tasks : ~task'[t].inserted
    BY <1>7 DEF Die, Tasks, Free
  <2>2. Uncounted(w)' = {}
    BY <2>1 DEF Uncounted, Tasks
  <2>3. gauge'[w] = Cardinality(Dead) /\ Dead' = Dead
    BY <1>1, <1>7 DEF Die, Depth, Dead, postgres
  <2>. QED BY <1>2, <2>1, <2>2, <2>3, FS_EmptySet DEF Marked
<1>8. ASSUME NEW v \in Workers, SchedulerStep(v) PROVE UNCHANGED <<task, gauge, dlq>>
  BY <1>8 DEF SchedulerStep, Poll, Republish, CancelPublished, postgres
<1>9. UNCHANGED vars => UNCHANGED <<task, gauge, dlq>>
  BY DEF vars, postgres
<1>. QED BY <1>5, <1>6, <1>7, <1>8, <1>9 DEF Steady, Crash, ForeignKeyError

(* At first there is nothing to count.                                     *)
LEMMA GaugeInit == Quiescent => Marked /\ GaugeIsDepth /\ Unattended
<1>. SUFFICES ASSUME Quiescent PROVE Marked /\ GaugeIsDepth /\ Unattended
  OBVIOUS
<1>1. \A t \in Tasks : ~task[t].inserted
  BY DEF Quiescent, Free
<1>2. Dead = {} /\ \A w \in Workers : Uncounted(w) = {} /\ gauge[w] = 0
  BY <1>1 DEF Quiescent, Dead, Uncounted, Tasks
<1>3. Cardinality({}) = 0
  BY FS_EmptySet
<1>4. ASSUME NEW w \in Workers
      PROVE  gauge[w] + Cardinality({s \in Slots : task[<<w, s>>].inserted}) = Depth
  <2>1. {s \in Slots : task[<<w, s>>].inserted} = {} /\ {d \in Pairs : dlq[d] # "none"} = {}
    BY <1>2, <1>4 DEF Dead, Uncounted
  <2>2. gauge[w] = 0
    BY <1>2, <1>4
  <2>3. Cardinality({s \in Slots : task[<<w, s>>].inserted}) = 0 /\ Depth = 0
    BY <1>3, <2>1, Zenon DEF Depth
  <2>. QED BY <2>2, <2>3
<1>. QED BY <1>1, <1>4 DEF GaugeIsDepth, Marked, Unattended, Quiescent

(* What a single worker shows as the depth of the dead letter queue is its *)
(* depth, through crashes, duplicates and failed inserts, until an         *)
(* operator takes entries out behind its back (stale_gauge).               *)
THEOREM GaugeIsTrue ==
  ASSUME MaxOps = 0, NEW w \in Workers, Workers = {w}
  PROVE  Spec => []GaugeIsDepth
<1>. DEFINE Inv == Typed /\ Marked /\ GaugeIsDepth /\ Unattended
<1>1. Init => Inv
  BY TypedInit, GaugeInit DEF Init
<1>2. Inv /\ [Next]_vars => Inv'
  BY TypedStep, UnattendedStep, GaugeStep
<1>3. Inv => GaugeIsDepth
  OBVIOUS
<1>. QED BY <1>1, <1>2, <1>3, PTL DEF Spec

=============================================================================
