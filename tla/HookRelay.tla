----------------------------- MODULE HookRelay -----------------------------
(***************************************************************************)
(* The whole path of an event: Outbox takes it from POST /events to the    *)
(* pending topic, Delivery from the topic to a 2xx or a dead letter.  The  *)
(* two share the topic and the events; a message a relay publishes is one  *)
(* more to read.                                                           *)
(***************************************************************************)
EXTENDS EventStatus

CONSTANTS
  Requests,    \* concurrent POST /events handlers
  Relays,      \* relay loops
  BatchSize,   \* _BATCH_SIZE
  MaxAborts    \* bound: handlers and relays cut off

(* The operators are left to Delivery: what they ask for names an event    *)
(* that exists.  So all endpoints are there from the start.                *)
ASSUME NoOperatorsAssumption == MaxOps = 0 /\ InitialEndpoints = Endpoints
ASSUME RelayAssumption == BatchSize \in Nat \ {0} /\ MaxAborts \in Nat

VARIABLES events, outbox, published, answered, handler, locked, sent, aborts

Ingest == INSTANCE Outbox WITH Keys <- Events

delivery == <<postgres, retries, task, gauge, sched, request, ghosts, spent>>
ingest   == <<events, outbox, published, answered, handler, locked, sent, aborts>>
allVars  == <<vars, ingest>>

RelayInit ==
  /\ Ingest!Init
  /\ topic = [m \in Messages |-> 0]
  /\ Quiescent

(* What the relays publish is on the pending topic. *)
Forward ==
  /\ topic' = [m \in Messages |->
       IF m.ep = None THEN topic[m] + published'[m.ev] - published[m.ev] ELSE topic[m]]
  /\ UNCHANGED delivery

Ingesting == Ingest!Next /\ Forward
Delivering == Next /\ UNCHANGED ingest

RelayNext == Ingesting \/ Delivering

RelaySpec == RelayInit /\ [][RelayNext]_allVars

(* A step of a relay, a task or a scheduler: whoever can go on.  That one  *)
(* of them does is all the fairness needed, less than what Outbox and      *)
(* Delivery assume of each.                                                *)
Working ==
  \/ \E r \in Relays : Ingest!RelayStep(r) /\ Forward
  \/ /\ (\E t \in Tasks : TaskStep(t)) \/ (\E w \in Workers : SchedulerStep(w))
     /\ UNCHANGED ingest

FairRelaySpec == RelaySpec /\ WF_allVars(Working)

-----------------------------------------------------------------------------

(* hook-relay keeps its promise, from the POST to the last retry: only     *)
(* stored events are posted anywhere, an answer is for ever, a delivery is *)
(* never pending again after it was dead ...                               *)
Outcome(d) == IF acked[d] > 0 THEN "answered" ELSE IF dlq[d] # "none" THEN "dead" ELSE "pending"
Promise == INSTANCE WebhookRelay WITH
  accepted <- events, outcome <- [d \in Pairs |-> Outcome(d)]
KeepsPromise == Promise!Spec

(* ... and every stored event is answered or dead in the end.              *)
KeepsPromiseInTheEnd == Promise!Resolved

(* No accepted event is dropped on the way (README.md: "Events are never   *)
(* dropped"): until its outbox row is gone it is there to be published,    *)
(* and then each endpoint has answered, its delivery is dead, or something *)
(* is still to deliver it, whatever was cut off, died or read twice.       *)
NoAcceptedEventLost ==
  \A e \in events :
    \/ e \in outbox
    \/ \A p \in Endpoints : Outcome(<<e, p>>) # "pending" \/ Pending(e, p)

(* While no worker died, each 2xx has a message of its own behind it: an   *)
(* endpoint answers an event again only when a transaction was cut off and *)
(* the event published once more, or when a message was read twice.        *)
AnswersHaveCause ==
  crashes = 0 => \A d \in Pairs : acked[d] <= 1 + aborts + redeliveries

(* Nor is an endpoint reported as retrying for nothing then ...            *)
RetryingUnlessCrashed == crashes = 0 => RetryingIsPending

(* ... nor is an answer forgotten: a 2xx whose outcome was dropped, because *)
(* another reading of its message recorded a failure first (INSERT ... ON  *)
(* CONFLICT DO NOTHING), leaves a delivery that goes on or is dead ...     *)
DroppedOutcomeGoesOn ==
  crashes = 0 =>
    \A e \in Events, p \in Endpoints :
      acked[<<e, p>>] > 0 => HasSuccess(e, p) \/ InDLQ(e, p) \/ Pending(e, p)

(* ... and while no transaction was cut off and no message read twice      *)
(* either, every 2xx is on record, a dead letter is final, and the status  *)
(* of an event that has nothing pending is what happened to it.            *)
Undisturbed == crashes = 0 /\ aborts = 0 /\ redeliveries = 0
LoggedUnlessCutOff == Undisturbed => AckedIsLogged
FinalUnlessCutOff == Undisturbed => DeadLetterIsFinal
StatusAtRest ==
  Undisturbed =>
    \A e \in Events :
      published[e] > 0 /\ (\A p \in Endpoints : ~Pending(e, p)) => Settled(e)

=============================================================================
