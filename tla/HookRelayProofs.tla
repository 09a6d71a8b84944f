-------------------------- MODULE HookRelayProofs --------------------------
(***************************************************************************)
(* Proofs about HookRelay, for every number of events, endpoints,          *)
(* handlers, relays, tasks, attempts and faults.  The invariants of Outbox *)
(* and of Delivery are put together; what the two parts share is the topic *)
(* and the events.  Where copies are counted there is one worker: two      *)
(* schedulers can poll, and publish, the same retry.                       *)
(***************************************************************************)
EXTENDS HookRelay, StatusProofs, CountProofs

IngestProofs == INSTANCE OutboxProofs WITH Keys <- Events

(* What is under way for an event comes from a stored event. *)
Stored ==
  /\ \A m \in Messages : topic[m] > 0 => m.ev \in events
  /\ \A t \in Tasks : task[t].step # "idle" => task[t].msg.ev \in events
  /\ \A r \in retries : r.ev \in events
  /\ \A w \in Workers : \A r \in due[w] \cup republished[w] : r.ev \in events

(* A published event is held for each endpoint.                            *)
PublishedHeld == \A e \in Events, p \in Endpoints : published[e] > 0 => Held(e, p, 0)

(* Inductive, for any number of workers. *)
Base ==
  /\ IngestProofs!IInv
  /\ Typed /\ Calm /\ Honest /\ Spent /\ Backed
  /\ Stored /\ PublishedHeld
  /\ crashes = 0 => Chased /\ Noted

-----------------------------------------------------------------------------
(* The two instances of Outbox *)

(* The proofs' initial states are the model's, ... *)
LEMMA SameInit == Ingest!Init => IngestProofs!IInv
<1>1. None \notin Events /\ BatchSize \in Nat \ {0} /\ MaxAborts \in Nat
  BY NoneAssumption, RelayAssumption
<1>2. Ingest!Init => IngestProofs!Init
  BY DEF IngestProofs!Init, Ingest!Init, IngestProofs!Idle, Ingest!Idle
<1>. QED BY <1>1, <1>2, IngestProofs!InvariantInit

(* ... and so are its steps.                                               *)
LEMMA SameStep ==
  ASSUME IngestProofs!IInv, Ingest!Next \/ UNCHANGED ingest
  PROVE  IngestProofs!IInv'
<1>1. None \notin Events /\ BatchSize \in Nat \ {0} /\ MaxAborts \in Nat
  BY NoneAssumption, RelayAssumption
<1>2. [IngestProofs!Next]_(IngestProofs!vars)
  BY DEF ingest, Ingest!Next, IngestProofs!Next, Ingest!vars, IngestProofs!vars, Ingest!db,
         IngestProofs!db, Ingest!Insert, IngestProofs!Insert, Ingest!CommitIngest,
         IngestProofs!CommitIngest, Ingest!AbortIngest, IngestProofs!AbortIngest, Ingest!Select,
         IngestProofs!Select, Ingest!Publish, IngestProofs!Publish, Ingest!CommitRelay,
         IngestProofs!CommitRelay, Ingest!AbortRelay, IngestProofs!AbortRelay, Ingest!Release,
         IngestProofs!Release, Ingest!InsertPending, IngestProofs!InsertPending,
         Ingest!LockedRows, IngestProofs!LockedRows, Ingest!Idle, IngestProofs!Idle,
         Ingest!Cardinality, IngestProofs!Cardinality
<1>. QED BY <1>1, <1>2, IngestProofs!InvariantStep

(* What the rest needs to know of the outbox.                              *)
LEMMA IngestFacts ==
  ASSUME IngestProofs!IInv
  PROVE  /\ events \subseteq Events /\ outbox \subseteq events
         /\ published \in [Events -> Nat] /\ aborts \in Nat
         /\ \A h \in Requests : handler[h].step # "idle" => handler[h].key \in Events
         /\ \A k \in events : k \in outbox \/ published[k] > 0
         /\ \A k \in Events : published[k] > 0 => k \in events
         /\ \A k \in Events : published[k] <= 1 + aborts
BY RelayAssumption DEF IngestProofs!IInv, IngestProofs!TypeOK, IngestProofs!NoEventLost,
   IngestProofs!NoOrphanMessage, IngestProofs!DuplicatesOnlyFromAborts

(* The same in the next state.                                             *)
LEMMA IngestFactsNext ==
  ASSUME IngestProofs!IInv'
  PROVE  /\ events' \subseteq Events /\ outbox' \subseteq events'
         /\ published' \in [Events -> Nat] /\ aborts' \in Nat
         /\ \A k \in events' : k \in outbox' \/ published'[k] > 0
         /\ \A k \in Events : published'[k] > 0 => k \in events'
         /\ \A k \in Events : published'[k] <= 1 + aborts'
BY RelayAssumption DEF IngestProofs!IInv, IngestProofs!TypeOK, IngestProofs!NoEventLost,
   IngestProofs!NoOrphanMessage, IngestProofs!DuplicatesOnlyFromAborts

-----------------------------------------------------------------------------
(* What Outbox does to the rest *)

(* An event stays, one at most is new, ... *)
LEMMA EventsGrow ==
  ASSUME IngestProofs!IInv, Ingest!Next
  PROVE  /\ events \subseteq events' /\ aborts' \in {aborts, aborts + 1}
         /\ events' = events \/ \E e \in Events : events' = events \cup {e}
<1>1. ASSUME NEW h \in Requests, Ingest!CommitIngest(h)
      PROVE  /\ events \subseteq events' /\ aborts' = aborts
             /\ events' = events \/ \E e \in Events : events' = events \cup {e}
  <2>1. handler[h].key \in Events
    BY <1>1, IngestFacts DEF Ingest!CommitIngest
  <2>. QED BY <1>1, <2>1 DEF Ingest!CommitIngest
<1>2. ASSUME NEW h \in Requests,
             (\E k \in Events : Ingest!Insert(h, k)) \/ Ingest!AbortIngest(h)
      PROVE  events' = events /\ aborts' \in {aborts, aborts + 1}
  BY <1>2 DEF Ingest!Insert, Ingest!AbortIngest, Ingest!db
<1>3. ASSUME NEW r \in Relays,
             \/ Ingest!Select(r) \/ (\E k \in Events : Ingest!Publish(r, k))
             \/ Ingest!CommitRelay(r) \/ Ingest!AbortRelay(r)
      PROVE  events' = events /\ aborts' \in {aborts, aborts + 1}
  BY <1>3 DEF Ingest!Select, Ingest!Publish, Ingest!CommitRelay, Ingest!AbortRelay, Ingest!db
<1>. QED BY <1>1, <1>2, <1>3 DEF Ingest!Next

(* ... and one at most is published once more, a message on the topic.     *)
LEMMA OnePublished ==
  ASSUME IngestProofs!IInv, topic \in [Messages -> Nat], Ingesting
  PROVE  \/ published' = published /\ topic' = topic
         \/ \E k \in Events :
              /\ published' = [published EXCEPT ![k] = @ + 1]
              /\ topic' = [topic EXCEPT ![FanOut(k)] = @ + 1]
<1>1. published \in [Events -> Nat]
  BY IngestFacts
<1>2. topic' = [m \in Messages |->
        IF m.ep = None THEN topic[m] + published'[m.ev] - published[m.ev] ELSE topic[m]]
  BY DEF Ingesting, Forward
<1>3. published' = published \/ \E k \in Events : published' = [published EXCEPT ![k] = @ + 1]
  <2>1. ASSUME NEW r \in Relays, Ingest!AbortRelay(r)
        PROVE  published' = published
               \/ \E k \in Events : published' = [published EXCEPT ![k] = @ + 1]
    <3>1. locked \in [Relays -> SUBSET Events]
      BY DEF IngestProofs!IInv, IngestProofs!TypeOK
    <3>. QED BY <2>1, <3>1 DEF Ingest!AbortRelay
  <2>. QED BY <2>1 DEF Ingesting, Ingest!Next, Ingest!Insert, Ingest!CommitIngest,
           Ingest!AbortIngest, Ingest!Select, Ingest!Publish, Ingest!CommitRelay
<1>4. CASE published' = published
  <2>1. \A m \in Messages : topic'[m] = topic[m]
    BY <1>1, <1>2, <1>4, MessageParts
  <2>2. topic' = topic
    BY <1>2, <2>1
  <2>. QED BY <1>4, <2>2
<1>5. ASSUME NEW k \in Events, published' = [published EXCEPT ![k] = @ + 1]
      PROVE  topic' = [topic EXCEPT ![FanOut(k)] = @ + 1]
  <2>1. FanOut(k) \in Messages /\ FanOut(k).ep = None /\ FanOut(k).ev = k
    BY FanOutMade
  <2>2. \A m \in Messages : m.ep = None /\ m.ev = k => m = FanOut(k)
    BY MessageParts
  <2>3. \A m \in Messages : topic'[m] = IF m = FanOut(k) THEN topic[m] + 1 ELSE topic[m]
    BY <1>1, <1>2, <1>5, <2>1, <2>2, MessageParts
  <2>. QED BY <1>2, <2>1, <2>3
<1>. QED BY <1>3, <1>4, <1>5

-----------------------------------------------------------------------------
(* More on the topic, nothing else different *)

Grows ==
  /\ topic' \in [Messages -> Nat] /\ \A m \in Messages : topic'[m] >= topic[m]
  /\ UNCHANGED delivery

(* All that a step of Outbox means to Delivery.                            *)
LEMMA IngestGrows ==
  ASSUME IngestProofs!IInv, Typed, Ingesting
  PROVE  Grows
<1>1. topic \in [Messages -> Nat]
  BY DEF Typed, TypeOK
<1>2. ASSUME NEW k \in Events, topic' = [topic EXCEPT ![FanOut(k)] = @ + 1]
      PROVE  topic' \in [Messages -> Nat] /\ \A m \in Messages : topic'[m] >= topic[m]
  BY <1>1, <1>2, FanOutMade
<1>3. topic' = topic => topic' \in [Messages -> Nat] /\ \A m \in Messages : topic'[m] >= topic[m]
  BY <1>1
<1>4. UNCHANGED delivery
  BY DEF Ingesting, Forward
<1>5. topic' = topic \/ \E k \in Events : topic' = [topic EXCEPT ![FanOut(k)] = @ + 1]
  BY <1>1, OnePublished
<1>. QED BY <1>2, <1>3, <1>4, <1>5 DEF Grows

(* What is held stays held.                                                *)
LEMMA GrowsHeld ==
  ASSUME Typed, Grows, NEW e, NEW p, NEW n
  PROVE  /\ Held(e, p, n) => Held(e, p, n)'
         /\ Kept(e, p, n) => Kept(e, p, n)'
         /\ Later(e, p, n) => Later(e, p, n)'
<1>1. \A m \in Messages : topic[m] \in Nat /\ (topic[m] > 0 => topic'[m] > 0)
  BY DEF Typed, TypeOK, Grows
<1>2. UNCHANGED <<attempts, dlq, retries, task, acked>>
  BY DEF Grows, delivery, postgres, ghosts
<1>3. \A j : OnTopic(e, p, j) => OnTopic(e, p, j)'
  BY <1>1 DEF OnTopic
<1>4. /\ \A j : InHand(e, p, j)' <=> InHand(e, p, j)
      /\ \A j : After(e, p, j)' <=> After(e, p, j)
      /\ Over(e, p)' <=> Over(e, p)
      /\ Closed(e, p)' <=> Closed(e, p)
      /\ Failing(e, p, n)' <=> Failing(e, p, n)
  BY <1>2 DEF InHand, After, Over, Closed, HasSuccess, InDLQ, Failing
<1>. QED BY <1>3, <1>4 DEF Held, Kept, Later

(* The invariants of Delivery hold on.                                     *)
LEMMA GrowsKeeps ==
  ASSUME Typed, Grows
  PROVE  /\ Typed' /\ (Calm => Calm') /\ (Honest => Honest') /\ (Spent => Spent')
         /\ (Backed => Backed') /\ (Chased => Chased') /\ (Noted => Noted')
         /\ crashes' = crashes /\ redeliveries' = redeliveries
<1>1. UNCHANGED <<unused, endpoints, enabled, subscribed, attempts, dlq, retries, task, gauge, due,
                  republished, request, acked, waived, crashes, redeliveries, ops>>
  BY DEF Grows, delivery, postgres, config, sched, ghosts, spent
<1>2. Typed'
  BY <1>1 DEF Typed, TypeOK, Grows, Consistent
<1>3. Calm => Calm'
  BY <1>1 DEF Calm
<1>4. Honest => Honest'
  BY <1>1 DEF Honest, Pair
<1>5. Spent => Spent'
  BY <1>1 DEF Spent
<1>6. Backed => Backed'
  BY <1>1, GrowsHeld DEF Backed
<1>7. Chased => Chased'
  BY <1>1, GrowsHeld DEF Chased
<1>8. Noted => Noted'
  BY <1>1 DEF Noted, Tried, Recording
<1>. QED BY <1>1, <1>2, <1>3, <1>4, <1>5, <1>6, <1>7, <1>8

(* What is stored stays stored, and what is published comes from a stored  *)
(* event.                                                                  *)
LEMMA IngestStored ==
  ASSUME IngestProofs!IInv, IngestProofs!IInv', Typed, Stored, PublishedHeld, Ingesting
  PROVE  Stored' /\ PublishedHeld'
<1>1. topic \in [Messages -> Nat] /\ published \in [Events -> Nat]
  BY IngestFacts DEF Typed, TypeOK
<1>2. UNCHANGED <<retries, task, due, republished>>
  BY DEF Ingesting, Forward, delivery, sched
<1>3. events \subseteq events'
  BY EventsGrow DEF Ingesting
<1>4. Grows
  BY IngestGrows
<1>5. CASE published' = published /\ topic' = topic
  BY <1>2, <1>3, <1>4, <1>5, GrowsHeld DEF Stored, PublishedHeld
<1>6. ASSUME NEW k \in Events, published' = [published EXCEPT ![k] = @ + 1],
             topic' = [topic EXCEPT ![FanOut(k)] = @ + 1]
      PROVE  Stored' /\ PublishedHeld'
  <2>1. FanOut(k) \in Messages /\ FanOut(k).ep = None /\ FanOut(k).ev = k /\ FanOut(k).n = 0
    BY FanOutMade
  <2>2. topic'[FanOut(k)] > 0 /\ published'[k] > 0
    BY <1>1, <1>6, <2>1
  <2>3. k \in events'
    BY <2>2, IngestFactsNext
  <2>4. Stored'
    BY <1>1, <1>2, <1>3, <1>6, <2>1, <2>3 DEF Stored
  <2>5. ASSUME NEW e \in Events, NEW p \in Endpoints, published'[e] > 0 PROVE Held(e, p, 0)'
    <3>1. CASE e = k
      BY <2>1, <2>2, <3>1 DEF Held, OnTopic
    <3>2. CASE e # k
      BY <1>1, <1>4, <1>6, <2>5, <3>2, GrowsHeld DEF PublishedHeld
    <3>. QED BY <3>1, <3>2
  <2>. QED BY <2>4, <2>5 DEF PublishedHeld
<1>. QED BY <1>1, <1>5, <1>6, OnePublished

(* A step of Outbox.                                                       *)
LEMMA IngestBase ==
  ASSUME Base, Ingesting
  PROVE  Base'
<1>1. IngestProofs!IInv'
  BY SameStep DEF Base, Ingesting
<1>2. Grows
  BY IngestGrows DEF Base
<1>. QED BY <1>1, <1>2, GrowsKeeps, IngestStored DEF Base

-----------------------------------------------------------------------------
(* What Delivery does *)

(* What a task or a scheduler handles belongs to the event it had.         *)
LEMMA StoredStep ==
  ASSUME Typed, Typed', Stored, Steady, UNCHANGED events
  PROVE  Stored'
<1>1. /\ topic \in [Messages -> Nat] /\ task \in [Tasks -> TaskStates]
      /\ due \in [Workers -> SUBSET RetryMessages]
      /\ republished \in [Workers -> SUBSET RetryMessages]
  BY DEF Typed, TypeOK, TaskStates
<1>2. ASSUME NEW t \in Tasks, TaskStep(t) PROVE Stored'
  <2>1. \A u \in Tasks \ {t} : task'[u] = task[u]
    BY <1>2, OthersWait
  <2>2. \A m \in Messages : topic'[m] > 0 => topic[m] > 0
    BY <1>1, <1>2 DEF TaskStep, Take, Check, Post, Record, Schedule, InsertDLQ, CancelOwn
  <2>3. task'[t].step # "idle" => task'[t].msg.ev \in events
    <3>1. ASSUME NEW q \in task[t].targets, task[t].step # "idle", DoneWith(t, q)
          PROVE  task'[t].step # "idle" => task'[t].msg.ev \in events
      BY <3>1, DoneWithEffect, BecomesTyped DEF Free, Stored
    <3>2. ASSUME NEW m \in Messages, Take(t, m)
          PROVE  task'[t].step # "idle" => task'[t].msg.ev \in events
      BY <3>2, TakeEffect, BecomesTyped DEF Free, Stored, Take
    <3>3. ASSUME NEW q \in Endpoints, Check(t, q)
          PROVE  task'[t].step # "idle" => task'[t].msg.ev \in events
      BY <3>1, <3>3, CheckEffect, BecomesTyped DEF Check, Stored
    <3>4. ASSUME NEW outcome \in Outcomes, Post(t, outcome)
          PROVE  task'[t].step # "idle" => task'[t].msg.ev \in events
      <4>1. task'[t].msg = task[t].msg
        BY <3>4, PostEffect, BecomesTyped
      <4>2. task[t].msg.ev \in events
        BY <3>4 DEF Post, Stored
      <4>. QED BY <4>1, <4>2
    <3>5. Record(t) => (task'[t].step # "idle" => task'[t].msg.ev \in events)
      BY <3>1, RecordEffect, BecomesTyped, TaskParts DEF Record, Stored
    <3>6. InsertDLQ(t) => (task'[t].step # "idle" => task'[t].msg.ev \in events)
      <4>1. InsertDLQ(t) => task'[t].msg = task[t].msg
        BY InsertDLQEffect, BecomesTyped
      <4>2. InsertDLQ(t) => task[t].msg.ev \in events
        BY DEF InsertDLQ, Stored
      <4>. QED BY <4>1, <4>2
    <3>7. Schedule(t) \/ CancelOwn(t) => (task'[t].step # "idle" => task'[t].msg.ev \in events)
      BY <3>1, TaskParts DEF Schedule, CancelOwn
    <3>. QED BY <1>2, <3>2, <3>3, <3>4, <3>5, <3>6, <3>7 DEF TaskStep
  <2>4. \A r \in retries' : r.ev \in events
    <3>1. Schedule(t) => \A r \in retries' : r.ev \in events
      <4>1. Schedule(t) => task[t].msg.ev \in events
        BY DEF Schedule, Stored
      <4>. QED BY <4>1, ScheduleAdds, NextAttempt DEF Schedule, Stored
    <3>2. ~Schedule(t) => retries' \subseteq retries
      BY <1>2 DEF TaskStep, Take, Check, Post, Record, InsertDLQ, CancelOwn, Without
    <3>. QED BY <3>1, <3>2 DEF Stored
  <2>5. UNCHANGED sched
    BY <1>2 DEF TaskStep, Take, Check, Post, Record, Schedule, InsertDLQ, CancelOwn
  <2>. QED BY <2>1, <2>2, <2>3, <2>4, <2>5 DEF Stored, sched
<1>3. ASSUME NEW w \in Workers, SchedulerStep(w) PROVE Stored'
  <2>1. CASE Poll(w)
    BY <1>1, <2>1 DEF Poll, Stored
  <2>2. ASSUME NEW m \in RetryMessages, Republish(w, m) PROVE Stored'
    BY <1>1, <2>2 DEF Republish, Add, Stored
  <2>3. ASSUME NEW m \in RetryMessages, CancelPublished(w, m) PROVE Stored'
    BY <1>1, <2>3 DEF CancelPublished, Without, Stored
  <2>. QED BY <1>3, <2>1, <2>2, <2>3 DEF SchedulerStep
<1>4. ASSUME NEW w \in Workers, Die(w) PROVE Stored'
  <2>1. ASSUME NEW m \in Messages, topic'[m] > 0 PROVE m.ev \in events
    <3>1. topic'[m] = topic[m] + Reading(w, m) /\ Reading(w, m) \in Nat /\ topic[m] \in Nat
      BY <1>1, <1>4, Counts DEF Die
    <3>2. CASE topic[m] > 0
      BY <3>2 DEF Stored
    <3>3. CASE Reading(w, m) > 0
      <4>1. PICK s \in Slots : task[<<w, s>>].msg = m
        BY <3>3, ReadingCounts
      <4>2. <<w, s>> \in Tasks
        BY DEF Tasks
      <4>3. task[<<w, s>>].step # "idle"
        BY <4>1, <4>2, TaskParts, NoMessage DEF Consistent
      <4>. QED BY <4>1, <4>2, <4>3 DEF Stored
    <3>. QED BY <2>1, <3>1, <3>2, <3>3
  <2>. QED BY <1>1, <1>4, <2>1 DEF Die, Free, Stored
<1>5. UNCHANGED vars => Stored'
  BY DEF vars, sched, Stored
<1>. QED BY <1>2, <1>3, <1>4, <1>5 DEF Steady, Crash, ForeignKeyError

(* A step of Delivery.                                                     *)
LEMMA DeliveryBase ==
  ASSUME Base, [Next]_vars, UNCHANGED ingest
  PROVE  Base'
<1>1. Steady /\ Calm' /\ Typed'
  BY NoOperatorsAssumption, NoOperator, TypedStep DEF Base
<1>2. IngestProofs!IInv'
  BY SameStep DEF Base
<1>3. Honest' /\ Backed' /\ Spent'
  BY <1>1, HonestStep, BackedStep, SpentStep DEF Base
<1>4. Stored'
  BY <1>1, StoredStep DEF Base, ingest
<1>5. PublishedHeld'
  BY <1>1, HeldLasts DEF Base, PublishedHeld, ingest
<1>6. crashes' = 0 => Chased' /\ Noted'
  BY <1>1, NobodyDies, ChasedStep, NotedStep DEF Base
<1>. QED BY <1>1, <1>2, <1>3, <1>4, <1>5, <1>6 DEF Base

(* At first there is nothing but a system at rest. *)
LEMMA BaseInit == RelayInit => Base
<1>. SUFFICES ASSUME RelayInit PROVE Base
  OBVIOUS
<1>1. IngestProofs!IInv
  BY SameInit DEF RelayInit
<1>2. Quiescent /\ \A m \in Messages : topic[m] = 0
  BY DEF RelayInit
<1>3. Typed
  BY QuietTyped DEF RelayInit
<1>4. Calm /\ Honest /\ Backed
  BY <1>2, NoOperatorsAssumption, QuietInit
<1>5. Spent /\ Chased /\ Noted
  BY <1>2, ChasedInit, NotedInit DEF Quiescent, Spent
<1>6. Stored
  BY <1>2 DEF Quiescent, Free, Stored
<1>7. PublishedHeld
  BY DEF RelayInit, Ingest!Init, PublishedHeld
<1>. QED BY <1>1, <1>3, <1>4, <1>5, <1>6, <1>7 DEF Base

(* Every step is one of the two parts'.                                    *)
LEMMA BaseStep ==
  ASSUME Base, [RelayNext]_allVars
  PROVE  Base' /\ (Ingesting \/ ([Next]_vars /\ UNCHANGED ingest))
<1>1. Ingesting \/ ([Next]_vars /\ UNCHANGED ingest)
  BY DEF RelayNext, Delivering, allVars
<1>. QED BY <1>1, IngestBase, DeliveryBase

(* The joined system has the types of its parts.                           *)
THEOREM RelayTypeCorrect == RelaySpec => []TypeOK
<1>1. Base => TypeOK
  BY DEF Base, Typed
<1>. QED BY <1>1, BaseInit, BaseStep, PTL DEF RelaySpec

(* A published event is answered, dead or on its way, an unpublished one   *)
(* is in the outbox: none is dropped, whatever is cut off, dies or is read *)
(* twice.                                                                  *)
THEOREM NoAcceptedEventIsLost == RelaySpec => []NoAcceptedEventLost
<1>1. Base => NoAcceptedEventLost
  <2>. SUFFICES ASSUME Base, NEW e \in events, e \notin outbox, NEW p \in Endpoints
                PROVE  Outcome(<<e, p>>) # "pending" \/ Pending(e, p)
    BY DEF NoAcceptedEventLost
  <2>1. e \in Events /\ published[e] > 0
    BY IngestFacts DEF Base
  <2>2. Held(e, p, 0)
    BY <2>1 DEF Base, PublishedHeld
  <2>3. OnTopic(e, p, 0) => Pending(e, p)
    BY MessageParts, RetryParts DEF OnTopic, Pending, InTopic
  <2>4. InHand(e, p, 0) \/ After(e, p, 0) => Pending(e, p)
    BY DEF InHand, After, Pending, InTask, InRedis
  <2>. QED BY <2>2, <2>3, <2>4 DEF Held, Over, Outcome
<1>. QED BY <1>1, BaseInit, BaseStep, PTL DEF RelaySpec

(* While no worker dies, any number of workers keep "retrying" true.       *)
THEOREM RetryingIsTrue == RelaySpec => []RetryingUnlessCrashed
<1>1. Base => RetryingUnlessCrashed
  BY ChasedIsPending DEF Base, RetryingUnlessCrashed
<1>. QED BY <1>1, BaseInit, BaseStep, PTL DEF RelaySpec

(* Nor do they forget an answer whose outcome was dropped: its delivery    *)
(* goes on, or is dead.                                                    *)
THEOREM DroppedGoesOn == RelaySpec => []DroppedOutcomeGoesOn
<1>1. Base => DroppedOutcomeGoesOn
  BY DroppedIsChased DEF Base, DroppedOutcomeGoesOn
<1>. QED BY <1>1, BaseInit, BaseStep, PTL DEF RelaySpec

-----------------------------------------------------------------------------
(* The promise of WebhookRelay *)

(* An answer is an answer, ... *)
LEMMA PostPromised ==
  ASSUME Base, NEW t \in Tasks, NEW outcome \in Outcomes, Post(t, outcome), UNCHANGED ingest
  PROVE  [Promise!Next]_(Promise!vars)
<1>1. /\ Pair(t) \in Pairs /\ Pair(t)[1] \in events /\ Pair(t) \in Promise!Pairs
      /\ acked \in [Pairs -> Nat] /\ dlq' = dlq /\ events' = events
  <2>1. Pair(t) \in Pairs /\ task[t].step = "post"
    BY TaskParts DEF Base, Post
  <2>2. task[t].msg.ev \in events
    BY <2>1 DEF Base, Stored
  <2>. QED BY <2>1, <2>2 DEF Base, Typed, TypeOK, Post, postgres, Pair, ingest, Pairs, Promise!Pairs
<1>2. CASE outcome = "success" /\ Outcome(Pair(t)) # "answered"
  <2>1. \A d \in Pairs : Outcome(d)' = IF d = Pair(t) THEN "answered" ELSE Outcome(d)
    BY <1>1, <1>2 DEF Post, Outcome
  <2>2. [d \in Pairs |-> Outcome(d)]' =
          [[d \in Pairs |-> Outcome(d)] EXCEPT ![Pair(t)] = "answered"]
    BY <1>1, <2>1
  <2>3. [d \in Pairs |-> Outcome(d)][Pair(t)] # "answered"
    BY <1>1, <1>2
  <2>4. Promise!Answer(Pair(t))
    BY <1>1, <2>2, <2>3 DEF Promise!Answer
  <2>. QED BY <1>1, <2>4 DEF Promise!Next
<1>3. CASE ~(outcome = "success" /\ Outcome(Pair(t)) # "answered")
  <2>1. \A d \in Pairs : Outcome(d)' = Outcome(d)
    BY <1>1, <1>3 DEF Post, Outcome
  <2>. QED BY <1>1, <2>1 DEF Promise!vars
<1>. QED BY <1>2, <1>3

(* ... a new row in the dead letter queue a death, unless the endpoint has *)
(* answered, ...                                                           *)
LEMMA InsertDLQPromised ==
  ASSUME Base, NEW t \in Tasks, InsertDLQ(t), UNCHANGED ingest
  PROVE  [Promise!Next]_(Promise!vars)
<1>1. /\ Pair(t) \in Pairs /\ Pair(t)[1] \in events /\ Pair(t) \in Promise!Pairs
      /\ dlq \in [Pairs -> {"none", "permanent", "exhausted"}] /\ acked' = acked
      /\ events' = events
  <2>1. Pair(t) \in Pairs /\ task[t].step = "dlq"
    BY TaskParts DEF Base, InsertDLQ
  <2>2. task[t].msg.ev \in events
    BY <2>1 DEF Base, Stored
  <2>. QED BY <2>1, <2>2 DEF Base, Typed, TypeOK, InsertDLQ, ghosts, Pair, ingest, Pairs, Promise!Pairs
<1>2. CASE Outcome(Pair(t)) = "pending"
  <2>1. Reason(t) # "none"
    BY DEF Reason
  <2>2. \A d \in Pairs : Outcome(d)' = IF d = Pair(t) THEN "dead" ELSE Outcome(d)
    BY <1>1, <1>2, <2>1 DEF InsertDLQ, Outcome
  <2>3. [d \in Pairs |-> Outcome(d)]' =
          [[d \in Pairs |-> Outcome(d)] EXCEPT ![Pair(t)] = "dead"]
    BY <1>1, <2>2
  <2>4. [d \in Pairs |-> Outcome(d)][Pair(t)] = "pending"
    BY <1>1, <1>2
  <2>5. Promise!DeadLetter(Pair(t))
    BY <1>1, <2>3, <2>4 DEF Promise!DeadLetter
  <2>. QED BY <1>1, <2>5 DEF Promise!Next
<1>3. CASE Outcome(Pair(t)) # "pending"
  <2>1. \A d \in Pairs : Outcome(d)' = Outcome(d)
    BY <1>1, <1>3 DEF InsertDLQ, Outcome
  <2>. QED BY <1>1, <2>1 DEF Promise!vars
<1>. QED BY <1>2, <1>3

(* ... and nothing else changes what was promised, but a new event.        *)
LEMMA PromiseStep ==
  ASSUME Base, [RelayNext]_allVars
  PROVE  [Promise!Next]_(Promise!vars)
<1>1. CASE Ingesting
  <2>1. acked' = acked /\ dlq' = dlq
    BY <1>1 DEF Ingesting, Forward, delivery, ghosts, postgres
  <2>2. [d \in Pairs |-> Outcome(d)]' = [d \in Pairs |-> Outcome(d)]
    BY <2>1 DEF Outcome
  <2>3. events' = events \/ \E e \in Events : events' = events \cup {e}
    BY <1>1, EventsGrow DEF Ingesting, Base
  <2>. QED BY <2>2, <2>3 DEF Promise!Next, Promise!Accept, Promise!vars
<1>2. CASE [Next]_vars /\ UNCHANGED ingest
  <2>1. Steady
    BY <1>2, NoOperatorsAssumption, NoOperator DEF Base
  <2>2. events' = events
    BY <1>2 DEF ingest
  <2>3. CASE acked' = acked /\ dlq' = dlq
    <3>1. [d \in Pairs |-> Outcome(d)]' = [d \in Pairs |-> Outcome(d)]
      BY <2>3 DEF Outcome
    <3>. QED BY <2>2, <3>1 DEF Promise!vars
  <2>4. ASSUME NEW t \in Tasks, TaskStep(t)
        PROVE  \/ acked' = acked /\ dlq' = dlq
               \/ InsertDLQ(t) \/ \E outcome \in Outcomes : Post(t, outcome)
    BY <2>4 DEF TaskStep, Take, Check, Record, Schedule, CancelOwn, postgres, ghosts
  <2>5. ASSUME NEW w \in Workers, SchedulerStep(w) \/ Crash(w) \/ ForeignKeyError(w)
        PROVE  acked' = acked /\ dlq' = dlq
    BY <2>5 DEF SchedulerStep, Poll, Republish, CancelPublished, Crash, ForeignKeyError, Die,
                postgres, ghosts
  <2>6. UNCHANGED vars => acked' = acked /\ dlq' = dlq
    BY DEF vars, postgres, ghosts
  <2>. QED BY <1>2, <2>1, <2>3, <2>4, <2>5, <2>6, PostPromised, InsertDLQPromised DEF Steady
<1>. QED BY <1>1, <1>2, BaseStep

(* hook-relay keeps its promise, step by step: only stored events are      *)
(* posted anywhere or dead-lettered, an answer is for ever, and what was   *)
(* dead is never pending again.  That every event is answered or dead in   *)
(* the end is liveness, and stays with TLC.                                *)
THEOREM PromiseIsKept == RelaySpec => KeepsPromise
<1>1. RelayInit => Promise!Init
  <2>1. RelayInit => events = {} /\ \A d \in Pairs : Outcome(d) = "pending"
    BY DEF RelayInit, Ingest!Init, Quiescent, Outcome
  <2>. QED BY <2>1 DEF Promise!Init, Promise!Pairs, Pairs
<1>. QED BY <1>1, BaseInit, BaseStep, PromiseStep, PTL DEF RelaySpec, KeepsPromise, Promise!Spec

-----------------------------------------------------------------------------
(* One worker: what it counts *)

(* Carriers, answers and dead letters come from messages.                  *)
AllCounted ==
  \A e \in Events, p \in Endpoints :
    Countable(e, p) /\ Total(e, p) <= published[e] + redeliveries

(* No attempt is made twice, and every answer is on record.                *)
AllFresh ==
  \A e \in Events, p \in Endpoints :
    /\ Fresh(e, p) /\ Logged(e, p)
    /\ published[e] = 0 => Unrecorded(e, p, 0)

(* Inductive together with Base.                                           *)
Single ==
  /\ OneAtATime /\ Twice /\ Marked /\ GaugeIsDepth
  /\ crashes = 0 => AllCounted
  /\ Undisturbed => AllFresh

(* A sum after the step.                                                   *)
LEMMA TotalTyped ==
  ASSUME Typed', NEW e \in Events, NEW p \in Endpoints, Countable(e, p)'
  PROVE  Total(e, p)' \in Nat
<1>1. acked'[<<e, p>>] \in Nat
  BY DEF Typed, TypeOK, Pairs
<1>2. Ended(e, p)' \in Nat
  BY <1>1 DEF Ended
<1>. QED BY <1>2, FS_CardinalityType DEF Countable, Total

(* A message more is a carrier more for its event, and for no other.       *)
LEMMA IngestCounted ==
  ASSUME Base, Typed', AllCounted, Ingesting
  PROVE  AllCounted'
<1>. SUFFICES ASSUME NEW e \in Events, NEW p \in Endpoints
              PROVE  Countable(e, p)' /\ Total(e, p)' <= published'[e] + redeliveries'
  BY DEF AllCounted
<1>1. /\ Carrying(e, p)' = Carrying(e, p) /\ Waiting(e, p)' = Waiting(e, p)
      /\ Ended(e, p)' = Ended(e, p) /\ redeliveries' = redeliveries
  BY DEF Ingesting, Forward, delivery, postgres, sched, ghosts, spent, Carrying, Serves, Answered,
         GivenUp, Waiting, Ended
<1>2. /\ published \in [Events -> Nat] /\ topic \in [Messages -> Nat] /\ redeliveries \in Nat
      /\ Countable(e, p) /\ Total(e, p) <= published[e] + redeliveries /\ Typed
      /\ Total(e, p) \in Nat /\ Ended(e, p) \in Nat
      /\ Cardinality(Copies(e, p)) \in Nat /\ Cardinality(Carrying(e, p)) \in Nat
      /\ Cardinality(Waiting(e, p)) \in Nat
  BY IngestFacts, Parts DEF Base, Typed, TypeOK, Spent, AllCounted
<1>3. CASE published' = published /\ topic' = topic
  <2>1. Copies(e, p)' \subseteq Copies(e, p)
    BY <1>3 DEF Copies
  <2>2. Countable(e, p)' /\ Total(e, p)' <= Total(e, p) /\ Total(e, p)' \in Nat
    BY <1>1, <1>2, <2>1, NoCarrierMore
  <2>. QED BY <1>1, <1>2, <1>3, <2>2
<1>4. ASSUME NEW k \in Events, published' = [published EXCEPT ![k] = @ + 1],
             topic' = [topic EXCEPT ![FanOut(k)] = @ + 1]
      PROVE  Countable(e, p)' /\ Total(e, p)' <= published'[e] + redeliveries'
  <2>1. FanOut(k) \in Messages /\ FanOut(k).ev = k
    BY FanOutMade
  <2>2. CASE e = k
    <3>1. /\ topic'[FanOut(k)] = topic[FanOut(k)] + 1
          /\ \A m \in Messages \ {FanOut(k)} : topic'[m] <= topic[m]
      BY <1>2, <1>4, <2>1
    <3>2. Copies(e, p)' \subseteq Copies(e, p) \cup {<<FanOut(k), topic[FanOut(k)] + 1>>}
      BY <1>2, <2>1, <3>1, OneNewCopy
    <3>3. /\ IsFiniteSet(Copies(e, p)')
          /\ Cardinality(Copies(e, p)') <= Cardinality(Copies(e, p)) + 1
          /\ Cardinality(Copies(e, p)') \in Nat
      BY <1>2, <3>2, OneMore DEF Countable
    <3>4. Countable(e, p)'
      BY <1>1, <1>2, <3>3 DEF Countable
    <3>5. Total(e, p)' <= Total(e, p) + 1 /\ Total(e, p)' \in Nat
      BY <1>1, <1>2, <3>3 DEF Total
    <3>6. published'[e] = published[e] + 1
      BY <1>2, <1>4, <2>2
    <3>. QED BY <1>1, <1>2, <3>4, <3>5, <3>6
  <2>3. CASE e # k
    <3>1. \A m \in Messages : Reaches(m, e, p) => topic'[m] <= topic[m]
      BY <1>2, <1>4, <2>1, <2>3 DEF Reaches
    <3>2. Copies(e, p)' \subseteq Copies(e, p)
      BY <1>2, <3>1, NoNewCopy
    <3>3. Countable(e, p)' /\ Total(e, p)' <= Total(e, p) /\ Total(e, p)' \in Nat
      BY <1>1, <1>2, <3>2, NoCarrierMore
    <3>4. published'[e] = published[e]
      BY <1>2, <1>4, <2>3
    <3>. QED BY <1>1, <1>2, <3>3, <3>4
  <2>. QED BY <2>2, <2>3
<1>. QED BY <1>2, <1>3, <1>4, OnePublished DEF Base

(* While no transaction is cut off, a message is the first of its event.   *)
LEMMA IngestFresh ==
  ASSUME Base, Base', aborts' = 0, AllFresh, Ingesting
  PROVE  AllFresh'
<1>. SUFFICES ASSUME NEW e \in Events, NEW p \in Endpoints
              PROVE  /\ Fresh(e, p)' /\ Logged(e, p)'
                     /\ published'[e] = 0 => Unrecorded(e, p, 0)'
  BY DEF AllFresh
<1>1. UNCHANGED <<attempts, task, retries, due, republished, acked>>
  BY DEF Ingesting, Forward, delivery, postgres, sched, ghosts
<1>2. /\ Fresh(e, p) /\ Logged(e, p) /\ (published[e] = 0 => Unrecorded(e, p, 0))
      /\ published \in [Events -> Nat] /\ topic \in [Messages -> Nat]
      /\ published' \in [Events -> Nat] /\ published'[e] <= 1
  BY IngestFacts, IngestFactsNext DEF Base, Typed, TypeOK, AllFresh
<1>3. /\ Logged(e, p)' /\ Waiting(e, p)' = Waiting(e, p)
      /\ Unrecorded(e, p, 0) => Unrecorded(e, p, 0)'
      /\ \A t \in Tasks : /\ Serves(t, e, p)' <=> Serves(t, e, p)
                          /\ GivenUp(t, p)' <=> GivenUp(t, p)
                          /\ Ahead(t, p)' = Ahead(t, p)
  BY <1>1, <1>2 DEF Logged, HasSuccess, Answering, Answered, Waiting, Unrecorded, Serves, GivenUp,
     Ahead
<1>4. CASE published' = published /\ topic' = topic
  BY <1>1, <1>2, <1>3, <1>4 DEF Fresh, Reaches, Unrecorded
<1>5. ASSUME NEW k \in Events, published' = [published EXCEPT ![k] = @ + 1],
             topic' = [topic EXCEPT ![FanOut(k)] = @ + 1]
      PROVE  Fresh(e, p)' /\ (published'[e] = 0 => published[e] = 0)
  <2>1. /\ FanOut(k) \in Messages /\ FanOut(k).ev = k /\ FanOut(k).n = 0
        /\ \A m \in Messages \ {FanOut(k)} : topic'[m] = topic[m]
    BY <1>2, <1>5, FanOutMade
  <2>2. e = k => published[e] = 0
    BY <1>2, <1>5
  <2>3. ASSUME NEW m \in Messages, Reaches(m, e, p), topic'[m] > 0 PROVE Unrecorded(e, p, m.n)
    BY <1>2, <2>1, <2>2, <2>3 DEF Fresh, Reaches
  <2>4. published'[e] = 0 => published[e] = 0
    BY <1>2, <1>5
  <2>. QED BY <1>1, <1>2, <1>3, <2>3, <2>4 DEF Fresh, Reaches, Unrecorded
<1>. QED BY <1>2, <1>3, <1>4, <1>5, OnePublished DEF Base

(* At first there is nothing to count, and no attempt.                     *)
LEMMA SingleInit == RelayInit => Single
<1>. SUFFICES ASSUME RelayInit PROVE Single
  OBVIOUS
<1>1. Quiescent /\ (\A m \in Messages : topic[m] = 0) /\ (\A e \in Events : published[e] = 0)
  BY DEF RelayInit, Ingest!Init
<1>2. Marked /\ GaugeIsDepth
  BY <1>1, GaugeInit
<1>3. OneAtATime /\ Twice
  BY <1>1, NoMessage DEF Quiescent, OneAtATime, Twice, Answering, Serves, Free
<1>4. ASSUME NEW e \in Events, NEW p \in Endpoints
      PROVE  /\ Copies(e, p) = {} /\ Carrying(e, p) = {} /\ Waiting(e, p) = {}
             /\ Ended(e, p) = 0
  <2>1. Copies(e, p) = {}
    BY <1>1, CopyParts
  <2>2. Carrying(e, p) = {} /\ Waiting(e, p) = {}
    BY <1>1 DEF Quiescent, Carrying, Serves, Waiting, Free
  <2>3. acked[<<e, p>>] = 0 /\ dlq[<<e, p>>] = "none"
    BY <1>1 DEF Quiescent, Pairs
  <2>. QED BY <2>1, <2>2, <2>3 DEF Ended
<1>5. AllCounted
  <2>. SUFFICES ASSUME NEW e \in Events, NEW p \in Endpoints
                PROVE  Countable(e, p) /\ Total(e, p) <= published[e] + redeliveries
    BY DEF AllCounted
  <2>1. IsFiniteSet({}) /\ Cardinality({}) = 0
    BY FS_EmptySet
  <2>2. Countable(e, p)
    BY <1>4, <2>1 DEF Countable
  <2>3. /\ Cardinality(Copies(e, p)) = 0 /\ Cardinality(Carrying(e, p)) = 0
        /\ Cardinality(Waiting(e, p)) = 0
    BY <1>4, <2>1
  <2>4. Total(e, p) = 0
    BY <1>4, <2>3 DEF Total
  <2>5. published[e] = 0 /\ redeliveries = 0
    BY <1>1 DEF Quiescent
  <2>. QED BY <2>2, <2>4, <2>5
<1>6. AllFresh
  <2>. SUFFICES ASSUME NEW e \in Events, NEW p \in Endpoints
                PROVE  Fresh(e, p) /\ Logged(e, p) /\ Unrecorded(e, p, 0)
    BY DEF AllFresh
  <2>1. Unrecorded(e, p, 0)
    BY <1>1, RetryMade DEF Quiescent, Unrecorded
  <2>2. Logged(e, p)
    BY <1>1 DEF Quiescent, Pairs, Logged
  <2>3. \A t \in Tasks : ~Serves(t, e, p)
    BY <1>1 DEF Quiescent, Serves, Free
  <2>. QED BY <1>1, <1>4, <2>1, <2>2, <2>3 DEF Fresh
<1>. QED BY <1>2, <1>3, <1>5, <1>6 DEF Single

(* A step of Outbox.                                                       *)
LEMMA SingleIngest ==
  ASSUME Base, Base', Single, Ingesting
  PROVE  Single'
<1>1. UNCHANGED <<task, dlq, gauge, due, republished, acked, crashes, redeliveries>>
  BY DEF Ingesting, Forward, delivery, postgres, sched, ghosts, spent
<1>2. OneAtATime' /\ Twice' /\ Marked' /\ GaugeIsDepth'
  BY <1>1 DEF Single, OneAtATime, Twice, Answering, Serves, Answered, Marked, GaugeIsDepth, Depth
<1>3. crashes' = 0 => AllCounted'
  BY <1>1, IngestCounted DEF Single, Base
<1>4. Undisturbed' => Undisturbed /\ aborts' = 0
  <2>1. aborts' \in {aborts, aborts + 1} /\ aborts \in Nat
    BY EventsGrow, IngestFacts DEF Base, Ingesting
  <2>. QED BY <1>1, <2>1 DEF Undisturbed
<1>5. Undisturbed' => AllFresh'
  BY <1>4, IngestFresh DEF Single
<1>. QED BY <1>2, <1>3, <1>5 DEF Single

(* While nothing is disturbed, one carrier at most.                        *)
LEMMA OnlyOne ==
  ASSUME Base, Single, Undisturbed, NEW e \in Events, NEW p \in Endpoints
  PROVE  /\ Countable(e, p) /\ Total(e, p) <= 1
         /\ published[e] = 0 => Total(e, p) <= 0
<1>1. Countable(e, p) /\ Total(e, p) <= published[e] + 0
  BY DEF Single, AllCounted, Undisturbed
<1>2. Total(e, p) \in Nat
  BY <1>1, Parts DEF Base
<1>3. published[e] \in Nat /\ published[e] <= 1
  BY IngestFacts DEF Base, Undisturbed
<1>. QED BY <1>1, <1>2, <1>3

(* A step of Delivery.                                                     *)
LEMMA SingleDelivery ==
  ASSUME Base, Base', Single, [Next]_vars, UNCHANGED ingest, NEW w \in Workers, Workers = {w}
  PROVE  Single'
<1>1. Steady
  BY NoOperatorsAssumption, NoOperator DEF Base
<1>2. OneAtATime' /\ Twice' /\ Marked' /\ GaugeIsDepth'
  BY <1>1, OneAtATimeStep, TwiceStep, GaugeStep DEF Base, Single
<1>3. published' = published /\ aborts' = aborts
  BY DEF ingest
<1>4. crashes' = 0 => Alive /\ crashes = 0
  BY <1>1, NobodyDies DEF Base
<1>5. crashes' \in Nat /\ redeliveries \in Nat /\ redeliveries' \in Nat
      /\ redeliveries' >= redeliveries
  BY SpentStep DEF Base, Spent
<1>6. crashes' = 0 => AllCounted'
  <2>. SUFFICES ASSUME crashes' = 0, NEW e \in Events, NEW p \in Endpoints
                PROVE  Countable(e, p)' /\ Total(e, p)' <= published'[e] + redeliveries'
    BY DEF AllCounted
  <2>1. Countable(e, p) /\ Total(e, p) <= published[e] + redeliveries /\ published[e] \in Nat
    BY <1>4, IngestFacts DEF Base, Single, AllCounted
  <2>2. Countable(e, p)' /\ Total(e, p)' <= Total(e, p) + (redeliveries' - redeliveries)
    BY <1>4, <2>1, TotalStep DEF Base, Single
  <2>3. Total(e, p) \in Nat /\ Total(e, p)' \in Nat
    BY <2>1, <2>2, Parts, TotalTyped DEF Base
  <2>. QED BY <1>3, <1>5, <2>1, <2>2, <2>3
<1>7. Undisturbed' => AllFresh'
  <2>. SUFFICES ASSUME Undisturbed', NEW e \in Events, NEW p \in Endpoints
                PROVE  /\ Fresh(e, p)' /\ Logged(e, p)'
                       /\ published'[e] = 0 => Unrecorded(e, p, 0)'
    BY DEF AllFresh
  <2>1. Undisturbed /\ Alive
    BY <1>3, <1>4, <1>5 DEF Undisturbed
  <2>2. /\ Countable(e, p) /\ Total(e, p) <= 1
        /\ published[e] = 0 => Total(e, p) <= 0
    BY <2>1, OnlyOne
  <2>3. /\ Fresh(e, p) /\ Logged(e, p)
        /\ published[e] = 0 => Unrecorded(e, p, 0)
    BY <2>1 DEF Single, AllFresh
  <2>4. Fresh(e, p)'
    BY <2>1, <2>2, <2>3, FreshStep DEF Base, Single
  <2>5. Logged(e, p)'
    BY <1>1, <2>1, <2>3, LoggedStep DEF Base
  <2>6. published'[e] = 0 => Unrecorded(e, p, 0)'
    BY <1>3, <2>1, <2>2, <2>3, UnrecordedStep DEF Base
  <2>. QED BY <2>4, <2>5, <2>6
<1>. QED BY <1>2, <1>6, <1>7 DEF Single

(* Every step, then.                                                       *)
LEMMA SingleStep ==
  ASSUME NEW w \in Workers, Workers = {w}, Base, Single, [RelayNext]_allVars
  PROVE  (Base /\ Single)'
BY BaseStep, SingleIngest, SingleDelivery

-----------------------------------------------------------------------------
(* One worker: the theorems *)

(* Each 2xx has a message of its own behind it until the worker dies,      *)
(* however many tasks, relays and attempts there are.                      *)
THEOREM AnswersAreCaused ==
  ASSUME NEW w \in Workers, Workers = {w}
  PROVE  RelaySpec => []AnswersHaveCause
<1>1. Base /\ Single => AnswersHaveCause
  <2>. SUFFICES ASSUME Base, Single, crashes = 0, NEW e \in Events, NEW p \in Endpoints
                PROVE  acked[<<e, p>>] <= 1 + aborts + redeliveries
    BY DEF AnswersHaveCause, Pairs
  <2>1. Countable(e, p) /\ Total(e, p) <= published[e] + redeliveries
    BY DEF Single, AllCounted
  <2>2. /\ acked[<<e, p>>] \in Nat /\ Ended(e, p) \in Nat /\ Total(e, p) \in Nat
        /\ Ended(e, p) <= Total(e, p)
    BY <2>1, Parts DEF Base
  <2>3. acked[<<e, p>>] <= Ended(e, p)
    BY <2>2 DEF Ended
  <2>4. published[e] \in Nat /\ aborts \in Nat /\ redeliveries \in Nat
        /\ published[e] <= 1 + aborts
    BY IngestFacts DEF Base, Spent
  <2>. QED BY <2>1, <2>2, <2>3, <2>4
<1>. QED BY <1>1, BaseInit, SingleInit, SingleStep, PTL DEF RelaySpec

(* While nothing is cut off, dies or is read twice every 2xx is on record, *)
(* or a task is about to record it.                                        *)
THEOREM AnswersAreLogged ==
  ASSUME NEW w \in Workers, Workers = {w}
  PROVE  RelaySpec => []LoggedUnlessCutOff
<1>1. Base /\ Single => LoggedUnlessCutOff
  BY DEF Single, AllFresh, Logged, Answering, Serves, Answered, LoggedUnlessCutOff, AckedIsLogged,
         Recording
<1>. QED BY <1>1, BaseInit, SingleInit, SingleStep, PTL DEF RelaySpec

(* A dead letter is final then.                                            *)
THEOREM DeadLettersAreFinal ==
  ASSUME NEW w \in Workers, Workers = {w}
  PROVE  RelaySpec => []FinalUnlessCutOff
<1>1. Base /\ Single => FinalUnlessCutOff
  BY OnlyOne, AloneIsFinal DEF Base, FinalUnlessCutOff
<1>. QED BY <1>1, BaseInit, SingleInit, SingleStep, PTL DEF RelaySpec

(* And the status of an event with nothing pending is what happened to it. *)
THEOREM StatusIsSettled ==
  ASSUME NEW w \in Workers, Workers = {w}
  PROVE  RelaySpec => []StatusAtRest
<1>1. Base /\ Single => StatusAtRest
  <2>. SUFFICES ASSUME Base, Single, Undisturbed, NEW e \in Events, published[e] > 0,
                       \A p \in Endpoints : ~Pending(e, p)
                PROVE  Settled(e)
    BY DEF StatusAtRest
  <2>1. ASSUME NEW p \in Endpoints
        PROVE  /\ Countable(e, p) /\ Total(e, p) <= 1
               /\ Held(e, p, 0) /\ Logged(e, p) /\ ~Pending(e, p)
    BY OnlyOne DEF Base, PublishedHeld, Single, AllFresh
  <2>. QED BY <2>1, AloneIsSettled DEF Base
<1>. QED BY <1>1, BaseInit, SingleInit, SingleStep, PTL DEF RelaySpec

(* The gauge of the one worker is the depth of the dead letter queue in    *)
(* the joined system too.                                                  *)
THEOREM RelayGaugeIsTrue ==
  ASSUME NEW w \in Workers, Workers = {w}
  PROVE  RelaySpec => []GaugeIsDepth
<1>1. Base /\ Single => GaugeIsDepth
  BY DEF Single
<1>. QED BY <1>1, BaseInit, SingleInit, SingleStep, PTL DEF RelaySpec

=============================================================================
