------------------------------- MODULE Outbox -------------------------------
(***************************************************************************)
(* From POST /events to the pending topic: the transactional outbox.       *)
(*                                                                         *)
(* ingest_event inserts the event (or finds the one that already has its   *)
(* idempotency key) and, in the same transaction, its outbox row.  Every   *)
(* worker runs a relay that locks a batch of rows, publishes and deletes   *)
(* them one by one, and commits.  Either side can be cut off between any   *)
(* two steps; PostgreSQL then rolls its transaction back, Kafka does not.  *)
(*                                                                         *)
(* An event is named by its idempotency key: the unique index gives a key  *)
(* at most one event.  The relay takes rows by age; nothing depends on     *)
(* which ones it takes, so here it takes any of them, up to its batch      *)
(* size.                                                                   *)
(***************************************************************************)
EXTENDS Naturals, FiniteSets

CONSTANTS
  Keys,        \* idempotency keys
  Requests,    \* concurrent POST /events handlers
  Relays,      \* relay loops, one per worker
  BatchSize,   \* _BATCH_SIZE
  None,        \* a handler without a key
  MaxAborts    \* bound: handlers and relays cut off

ASSUME BatchSizeAssumption == BatchSize \in Nat \ {0}
ASSUME NoneAssumption == None \notin Keys
ASSUME MaxAbortsAssumption == MaxAborts \in Nat

VARIABLES
  events,      \* committed event rows
  outbox,      \* committed outbox rows
  published,   \* how often each event was published to the pending topic
  answered,    \* events a client has had a 201 for
  handler,     \* each handler's step and key
  locked,      \* rows each relay holds FOR UPDATE
  sent,        \* those it has published and deleted, uncommitted
  aborts       \* how much of the bound is spent

db   == <<events, outbox>>
vars == <<db, published, answered, handler, locked, sent, aborts>>

Steps == {"idle", "inserted", "found"}
Idle == [step |-> "idle", key |-> None]

Init ==
  /\ events = {} /\ outbox = {}
  /\ published = [k \in Keys |-> 0]
  /\ answered = {}
  /\ handler = [h \in Requests |-> Idle]
  /\ locked = [r \in Relays |-> {}]
  /\ sent = [r \in Relays |-> {}]
  /\ aborts = 0

-----------------------------------------------------------------------------
(* ingest_event *)

(* Keys another transaction has inserted and not committed: a second       *)
(* INSERT of one waits for that transaction to end.                        *)
InsertPending == {k \in Keys : \E h \in Requests : handler[h] = [step |-> "inserted", key |-> k]}

(* The mutant adds the outbox row in a session of its own. *)
InsertOutboxFirst(h, k) ==
  /\ handler[h].step = "idle"
  /\ k \notin InsertPending
  /\ handler' = [handler EXCEPT ![h] =
       [step |-> IF k \in events THEN "found" ELSE "inserted", key |-> k]]
  /\ outbox' = IF k \in events THEN outbox ELSE outbox \cup {k}
  /\ UNCHANGED <<events, published, answered, locked, sent, aborts>>

(* The mutant does not wait for the other transaction, so the SELECT does  *)
(* not see its row, and goes on with what it finds: nothing.               *)
InsertUnseen(h, k) ==
  /\ handler[h].step = "idle"
  /\ handler' = [handler EXCEPT ![h] =
       CASE k \in InsertPending -> [step |-> "found", key |-> None]
         [] k \in events -> [step |-> "found", key |-> k]
         [] OTHER -> [step |-> "inserted", key |-> k]]
  /\ UNCHANGED <<db, published, answered, locked, sent, aborts>>

(* INSERT ... ON CONFLICT DO NOTHING RETURNING id.  After a conflict the   *)
(* SELECT finds the committed row.                                         *)
Insert(h, k) ==
  /\ handler[h].step = "idle"
  /\ k \notin InsertPending
  /\ handler' = [handler EXCEPT ![h] =
       [step |-> IF k \in events THEN "found" ELSE "inserted", key |-> k]]
  /\ UNCHANGED <<db, published, answered, locked, sent, aborts>>

(* The mutant commits the event first and the outbox row in a second step  *)
(* that a crash can prevent.                                               *)
CommitEventAlone(h) ==
  /\ handler[h].step # "idle"
  /\ LET k == handler[h].key
     IN  /\ events' = events \cup {k}
         /\ outbox' = IF k \in events THEN outbox \cup {k} ELSE outbox
         /\ answered' = answered \cup {k}
         /\ handler' = [handler EXCEPT ![h] =
              IF k \in events THEN Idle ELSE [step |-> "found", key |-> k]]
  /\ UNCHANGED <<published, locked, sent, aborts>>

(* The mutant writes an outbox row even for an event it only found. *)
CommitAlways(h) ==
  /\ handler[h].step # "idle"
  /\ LET k == handler[h].key
     IN  /\ events' = events \cup {k}
         /\ outbox' = outbox \cup {k}
         /\ answered' = answered \cup {k}
  /\ handler' = [handler EXCEPT ![h] = Idle]
  /\ UNCHANGED <<published, locked, sent, aborts>>

(* The event, when it is new, and its outbox row become visible together;  *)
(* then the client has its answer.                                         *)
CommitIngest(h) ==
  /\ handler[h].step # "idle"
  /\ LET k == handler[h].key
         new == IF handler[h].step = "inserted" THEN {k} ELSE {}
     IN  /\ events' = events \cup new
         /\ outbox' = outbox \cup new
         /\ answered' = answered \cup {k}
  /\ handler' = [handler EXCEPT ![h] = Idle]
  /\ UNCHANGED <<published, locked, sent, aborts>>

(* The API process dies, or the database connection does: rolled back. *)
AbortIngest(h) ==
  /\ handler[h].step # "idle" /\ aborts < MaxAborts
  /\ aborts' = aborts + 1
  /\ handler' = [handler EXCEPT ![h] = Idle]
  /\ UNCHANGED <<db, published, answered, locked, sent>>

-----------------------------------------------------------------------------
(* _relay_batch *)

LockedRows == UNION {locked[r] : r \in Relays}

(* The mutant selects without FOR UPDATE SKIP LOCKED. *)
SelectUnlocked(r) ==
  /\ locked[r] = {}
  /\ \E rows \in SUBSET outbox :
       /\ rows # {} /\ Cardinality(rows) <= BatchSize
       /\ locked' = [locked EXCEPT ![r] = rows]
  /\ UNCHANGED <<db, published, answered, handler, sent, aborts>>

(* SELECT ... LIMIT ... FOR UPDATE SKIP LOCKED; an empty result ends the   *)
(* poll.                                                                   *)
Select(r) ==
  /\ locked[r] = {}
  /\ \E rows \in SUBSET (outbox \ LockedRows) :
       /\ rows # {} /\ Cardinality(rows) <= BatchSize
       /\ locked' = [locked EXCEPT ![r] = rows]
  /\ UNCHANGED <<db, published, answered, handler, sent, aborts>>

(* One turn of the loop: publish, then DELETE inside the transaction. *)
Publish(r, k) ==
  /\ k \in locked[r] \ sent[r]
  /\ published' = [published EXCEPT ![k] = @ + 1]
  /\ sent' = [sent EXCEPT ![r] = @ \cup {k}]
  /\ UNCHANGED <<db, answered, handler, locked, aborts>>

(* The transaction of a relay ends; its locks go. *)
Release(r) ==
  /\ locked' = [locked EXCEPT ![r] = {}]
  /\ sent' = [sent EXCEPT ![r] = {}]

(* The mutant commits the deletions before everything is published. *)
CommitRelayEarly(r) ==
  /\ locked[r] # {}
  /\ outbox' = outbox \ locked[r]
  /\ Release(r)
  /\ UNCHANGED <<events, published, answered, handler, aborts>>

CommitRelay(r) ==
  /\ locked[r] # {} /\ sent[r] = locked[r]
  /\ outbox' = outbox \ locked[r]
  /\ Release(r)
  /\ UNCHANGED <<events, published, answered, handler, aborts>>

(* The worker dies, or publish raises, and the whole batch rolls back.     *)
(* When publish raises, the message may have reached the topic all the     *)
(* same.                                                                   *)
AbortRelay(r) ==
  /\ locked[r] # {} /\ aborts < MaxAborts
  /\ aborts' = aborts + 1
  /\ \/ UNCHANGED published
     \/ \E k \in locked[r] \ sent[r] : published' = [published EXCEPT ![k] = @ + 1]
  /\ Release(r)
  /\ UNCHANGED <<db, answered, handler>>

-----------------------------------------------------------------------------

Next ==
  \/ \E h \in Requests :
       \/ \E k \in Keys : Insert(h, k)
       \/ CommitIngest(h)
       \/ AbortIngest(h)
  \/ \E r \in Relays :
       \/ Select(r)
       \/ \E k \in Keys : Publish(r, k)
       \/ CommitRelay(r)
       \/ AbortRelay(r)

Spec == Init /\ [][Next]_vars

RelayStep(r) == Select(r) \/ (\E k \in Keys : Publish(r, k)) \/ CommitRelay(r)

(* Each relay polls again and again.  Clients owe nothing: no fairness for *)
(* the handlers.                                                           *)
FairSpec == Spec /\ \A r \in Relays : WF_vars(RelayStep(r))

-----------------------------------------------------------------------------

(* The state has its types; a request that goes on after its INSERT and    *)
(* its SELECT has an event, its own or the one it found (scalar_one), and  *)
(* so has whoever was answered.                                            *)
TypeOK ==
  /\ events \in SUBSET Keys
  /\ outbox \in SUBSET Keys
  /\ published \in [Keys -> Nat]
  /\ answered \in SUBSET Keys
  /\ handler \in [Requests -> [step : Steps, key : Keys \cup {None}]]
  /\ \A h \in Requests : handler[h].step # "idle" => handler[h].key \in Keys
  /\ locked \in [Relays -> SUBSET Keys]
  /\ sent \in [Relays -> SUBSET Keys]
  /\ aborts \in 0 .. MaxAborts

(* No event is lost (OutboxEntry): an event a client has had an answer for *)
(* is stored, and a stored event waits in the outbox or has been           *)
(* published, whatever is cut off in between.                              *)
NoEventLost ==
  /\ answered \subseteq events
  /\ \A k \in events : k \in outbox \/ published[k] > 0

(* A message on the topic names a committed event: the orphan branch of    *)
(* _process_record is never taken for a message of the relay.              *)
NoOrphanMessage == \A k \in Keys : published[k] > 0 => k \in events

(* Posting a key again, and any number of relays, publish nothing twice:   *)
(* each further message of an event is the price of one cut-off            *)
(* transaction.                                                            *)
DuplicatesOnlyFromAborts == \A k \in Keys : published[k] <= 1 + aborts

(* Every committed event reaches the topic in the end. *)
EventuallyPublished == \A k \in Keys : k \in events ~> published[k] > 0

(* Why: two relays never hold the same row, what a relay has sent is in    *)
(* its batch, two handlers never insert the same event, and a row still in *)
(* the outbox has been published once per abort at most, and once more     *)
(* only by the relay that holds it.  Inductive.                            *)
OutboxInv ==
  /\ \A r \in Relays : sent[r] \subseteq locked[r] /\ locked[r] \subseteq outbox
  /\ \A r1, r2 \in Relays : r1 # r2 => locked[r1] \cap locked[r2] = {}
  /\ outbox \subseteq events
  /\ \A h \in Requests :
       /\ handler[h].step = "inserted" => handler[h].key \notin events
       /\ handler[h].step = "found" => handler[h].key \in events
  /\ \A h1, h2 \in Requests :
       h1 # h2 /\ handler[h1].step = "inserted" /\ handler[h2].step = "inserted" =>
         handler[h1].key # handler[h2].key
  /\ \A k \in outbox : (\A r \in Relays : k \notin sent[r]) => published[k] <= aborts
  /\ \A r \in Relays : \A k \in sent[r] : published[k] > 0

=============================================================================
