---------------------------- MODULE OutboxProofs ----------------------------
(***************************************************************************)
(* Proofs about Outbox, for every set of keys, handlers and relays, every  *)
(* batch size and every number of cut-off transactions.                    *)
(***************************************************************************)
EXTENDS Outbox, TLAPS

USE NoneAssumption, MaxAbortsAssumption

(* The initial state has its types. *)
LEMMA TypeInit == Init => TypeOK
BY DEF Init, TypeOK, Idle, Steps

(* Every step keeps the types. *)
LEMMA TypeStep ==
  ASSUME TypeOK, [Next]_vars
  PROVE  TypeOK'
<1>1. ASSUME NEW h \in Requests, NEW k \in Keys, Insert(h, k) PROVE TypeOK'
  BY <1>1 DEF TypeOK, Insert, Steps, db
<1>2. ASSUME NEW h \in Requests, CommitIngest(h) PROVE TypeOK'
  BY <1>2 DEF TypeOK, CommitIngest, Steps, Idle
<1>3. ASSUME NEW h \in Requests, AbortIngest(h) PROVE TypeOK'
  BY <1>3 DEF TypeOK, AbortIngest, Steps, Idle, db
<1>4. ASSUME NEW r \in Relays, Select(r) PROVE TypeOK'
  BY <1>4 DEF TypeOK, Select, db
<1>5. ASSUME NEW r \in Relays, NEW k \in Keys, Publish(r, k) PROVE TypeOK'
  BY <1>5 DEF TypeOK, Publish, db
<1>6. ASSUME NEW r \in Relays, CommitRelay(r) PROVE TypeOK'
  BY <1>6 DEF TypeOK, CommitRelay, Release
<1>7. ASSUME NEW r \in Relays, AbortRelay(r) PROVE TypeOK'
  <2>1. published' \in [Keys -> Nat]
    BY <1>7 DEF TypeOK, AbortRelay
  <2>. QED BY <1>7, <2>1 DEF TypeOK, AbortRelay, Release, db
<1>8. CASE UNCHANGED vars
  BY <1>8 DEF TypeOK, vars, db
<1>. QED BY <1>1, <1>2, <1>3, <1>4, <1>5, <1>6, <1>7, <1>8 DEF Next

(* Every reachable state of the outbox has its types. *)
THEOREM TypeCorrect == Spec => []TypeOK
BY TypeInit, TypeStep, PTL DEF Spec

-----------------------------------------------------------------------------
(* The parts of OutboxInv. *)

RowsHeld ==
  /\ \A r \in Relays : sent[r] \subseteq locked[r] /\ locked[r] \subseteq outbox
  /\ \A r1, r2 \in Relays : r1 # r2 => locked[r1] \cap locked[r2] = {}

OneInserter ==
  /\ \A h \in Requests :
       /\ handler[h].step = "inserted" => handler[h].key \notin events
       /\ handler[h].step = "found" => handler[h].key \in events
  /\ \A h1, h2 \in Requests :
       h1 # h2 /\ handler[h1].step = "inserted" /\ handler[h2].step = "inserted" =>
         handler[h1].key # handler[h2].key

Counted ==
  /\ \A k \in outbox : (\A r \in Relays : k \notin sent[r]) => published[k] <= aborts
  /\ \A r \in Relays : \A k \in sent[r] : published[k] > 0

IInv ==
  /\ TypeOK
  /\ outbox \subseteq events
  /\ RowsHeld /\ OneInserter /\ Counted
  /\ NoEventLost /\ NoOrphanMessage /\ DuplicatesOnlyFromAborts

(* OutboxInv as the conjunction of its parts. *)
LEMMA OutboxInvParts ==
  OutboxInv <=> outbox \subseteq events /\ RowsHeld /\ OneInserter /\ Counted
BY DEF OutboxInv, RowsHeld, OneInserter, Counted

(* The inductive invariant holds at first. *)
LEMMA InvariantInit == Init => IInv
BY TypeInit DEF Init, IInv, RowsHeld, OneInserter, Counted, NoEventLost,
                NoOrphanMessage, DuplicatesOnlyFromAborts, Idle

(* A step that leaves the handlers' bookkeeping alone. *)
LEMMA HandlersKept ==
  ASSUME OneInserter, UNCHANGED <<handler, events>>
  PROVE  OneInserter'
BY DEF OneInserter

(* A step that leaves the relays' bookkeeping alone. *)
LEMMA RelaysKept ==
  ASSUME RowsHeld, UNCHANGED <<locked, sent>>, outbox \subseteq outbox'
  PROVE  RowsHeld'
BY DEF RowsHeld

(* A handler inserts a key nobody else has inserted, or finds its event. *)
LEMMA InsertInv ==
  ASSUME IInv, NEW h \in Requests, NEW k \in Keys, Insert(h, k), TypeOK'
  PROVE  IInv'
<1>1. OneInserter'
  <2>1. /\ handler'[h] = [step |-> IF k \in events THEN "found" ELSE "inserted", key |-> k]
        /\ \A x \in Requests : x # h => handler'[x] = handler[x]
        /\ events' = events
    BY DEF Insert, IInv, TypeOK, db
  <2>2. \A x \in Requests : handler[x].step = "inserted" => handler[x].key # k
    <3>1. ASSUME NEW x \in Requests, handler[x].step = "inserted", handler[x].key = k
          PROVE  FALSE
      <4>1. handler[x] = [step |-> "inserted", key |-> k]
        BY <3>1 DEF IInv, TypeOK
      <4>. QED BY <4>1 DEF Insert, InsertPending
    <3>. QED BY <3>1
  <2>. QED BY <2>1, <2>2 DEF IInv, OneInserter
<1>2. UNCHANGED <<events, outbox, published, answered, locked, sent, aborts>>
  BY DEF Insert, db
<1>. QED BY <1>1, <1>2 DEF IInv, RowsHeld, Counted, NoEventLost, NoOrphanMessage,
                          DuplicatesOnlyFromAborts

(* A handler commits: its event was new, so its outbox row is not published. *)
LEMMA CommitIngestInv ==
  ASSUME IInv, NEW h \in Requests, CommitIngest(h), TypeOK'
  PROVE  IInv'
<1>. DEFINE k == handler[h].key
            new == IF handler[h].step = "inserted" THEN {k} ELSE {}
<1>1. /\ events' = events \cup new /\ outbox' = outbox \cup new
      /\ answered' = answered \cup {k}
      /\ handler' = [handler EXCEPT ![h] = Idle]
      /\ UNCHANGED <<published, locked, sent, aborts>>
  BY DEF CommitIngest
<1>2. k \in Keys /\ handler[h].step \in {"inserted", "found"}
  BY DEF CommitIngest, IInv, TypeOK, Steps
<1>3. /\ handler[h].step = "inserted" => k \notin events
      /\ handler[h].step = "found" => k \in events
  BY DEF IInv, OneInserter
<1>4. /\ handler'[h].step = "idle"
      /\ \A x \in Requests : x # h => handler'[x] = handler[x]
  BY <1>1 DEF IInv, TypeOK, Idle
<1>5. OneInserter'
  BY <1>1, <1>4 DEF IInv, OneInserter
<1>6. RowsHeld'
  BY <1>1, RelaysKept DEF IInv
<1>7. \A x \in new : published[x] = 0
  BY <1>2, <1>3 DEF IInv, NoOrphanMessage, TypeOK
<1>8. Counted'
  BY <1>1, <1>7 DEF IInv, Counted, TypeOK
<1>9. NoEventLost'
  BY <1>1, <1>2, <1>3 DEF IInv, NoEventLost
<1>10. outbox' \subseteq events' /\ NoOrphanMessage' /\ DuplicatesOnlyFromAborts'
  BY <1>1 DEF IInv, NoOrphanMessage, DuplicatesOnlyFromAborts
<1>. QED BY <1>5, <1>6, <1>8, <1>9, <1>10 DEF IInv

(* A handler is cut off: nothing it did is visible. *)
LEMMA AbortIngestInv ==
  ASSUME IInv, NEW h \in Requests, AbortIngest(h), TypeOK'
  PROVE  IInv'
<1>1. /\ handler' = [handler EXCEPT ![h] = Idle]
      /\ aborts' = aborts + 1
      /\ UNCHANGED <<events, outbox, published, answered, locked, sent>>
  BY DEF AbortIngest, db
<1>2. OneInserter'
  BY <1>1 DEF IInv, OneInserter, TypeOK, Idle
<1>3. Counted' /\ DuplicatesOnlyFromAborts'
  BY <1>1 DEF IInv, Counted, DuplicatesOnlyFromAborts, TypeOK
<1>. QED BY <1>1, <1>2, <1>3 DEF IInv, RowsHeld, NoEventLost, NoOrphanMessage

(* A relay locks rows no other relay holds. *)
LEMMA SelectInv ==
  ASSUME IInv, NEW r \in Relays, Select(r), TypeOK'
  PROVE  IInv'
<1>1. PICK rows \in SUBSET (outbox \ LockedRows) : locked' = [locked EXCEPT ![r] = rows]
  BY DEF Select
<1>2. UNCHANGED <<events, outbox, published, answered, handler, sent, aborts>>
  BY DEF Select, db
<1>3. /\ locked'[r] = rows /\ locked[r] = {}
      /\ \A x \in Relays : x # r => locked'[x] = locked[x]
      /\ \A x \in Relays : locked[x] \cap rows = {}
  BY <1>1 DEF Select, IInv, TypeOK, LockedRows
<1>4. RowsHeld'
  BY <1>1, <1>2, <1>3 DEF IInv, RowsHeld
<1>. QED BY <1>2, <1>4 DEF IInv, OneInserter, Counted, NoEventLost, NoOrphanMessage,
                          DuplicatesOnlyFromAborts

(* A relay publishes a row only it holds, for the first time in its batch. *)
LEMMA PublishInv ==
  ASSUME IInv, NEW r \in Relays, NEW k \in Keys, Publish(r, k), TypeOK'
  PROVE  IInv'
<1>1. /\ published' = [published EXCEPT ![k] = @ + 1]
      /\ sent' = [sent EXCEPT ![r] = @ \cup {k}]
      /\ UNCHANGED <<events, outbox, answered, handler, locked, aborts>>
      /\ k \in locked[r] /\ k \notin sent[r]
  BY DEF Publish, db
<1>2. /\ sent'[r] = sent[r] \cup {k}
      /\ \A x \in Relays : x # r => sent'[x] = sent[x]
      /\ published'[k] = published[k] + 1
      /\ \A x \in Keys : x # k => published'[x] = published[x]
  BY <1>1 DEF IInv, TypeOK
<1>3. published[k] \in Nat /\ aborts \in Nat
  BY DEF IInv, TypeOK
<1>4. k \in outbox /\ \A x \in Relays : k \notin sent[x]
  BY <1>1 DEF IInv, RowsHeld
<1>5. published[k] <= aborts
  BY <1>4 DEF IInv, Counted
<1>6. RowsHeld'
  BY <1>1, <1>2 DEF IInv, RowsHeld
<1>7. Counted'
  <2>1. ASSUME NEW x \in outbox, \A y \in Relays : x \notin sent'[y]
        PROVE  published'[x] <= aborts
    <3>1. x # k /\ x \in Keys /\ \A y \in Relays : x \notin sent[y]
      BY <1>2, <2>1 DEF IInv, TypeOK
    <3>. QED BY <1>2, <3>1 DEF IInv, Counted
  <2>2. ASSUME NEW y \in Relays, NEW x \in sent'[y]
        PROVE  published'[x] > 0
    <3>1. x \in Keys /\ (x = k \/ x \in sent[y])
      BY <1>2 DEF IInv, TypeOK
    <3>. QED BY <1>2, <1>3, <3>1 DEF IInv, Counted
  <2>. QED BY <1>1, <2>1, <2>2 DEF Counted
<1>8. NoEventLost'
  BY <1>1, <1>2, <1>3 DEF IInv, NoEventLost, TypeOK
<1>9. NoOrphanMessage'
  BY <1>1, <1>2, <1>4 DEF IInv, NoOrphanMessage
<1>10. DuplicatesOnlyFromAborts'
  BY <1>1, <1>2, <1>3, <1>5 DEF IInv, DuplicatesOnlyFromAborts
<1>11. OneInserter'
  BY <1>1, HandlersKept DEF IInv
<1>. QED BY <1>1, <1>6, <1>7, <1>8, <1>9, <1>10, <1>11 DEF IInv

(* A relay deletes rows it has published. *)
LEMMA CommitRelayInv ==
  ASSUME IInv, NEW r \in Relays, CommitRelay(r), TypeOK'
  PROVE  IInv'
<1>1. /\ outbox' = outbox \ locked[r]
      /\ UNCHANGED <<events, published, answered, handler, aborts>>
      /\ sent[r] = locked[r]
      /\ locked'[r] = {} /\ sent'[r] = {}
      /\ \A x \in Relays : x # r => locked'[x] = locked[x] /\ sent'[x] = sent[x]
  BY DEF CommitRelay, Release, IInv, TypeOK
<1>2. RowsHeld'
  BY <1>1 DEF IInv, RowsHeld
<1>3. Counted'
  BY <1>1 DEF IInv, Counted
<1>4. NoEventLost'
  BY <1>1 DEF IInv, NoEventLost, Counted
<1>5. OneInserter'
  BY <1>1, HandlersKept DEF IInv
<1>. QED BY <1>1, <1>2, <1>3, <1>4, <1>5
         DEF IInv, NoOrphanMessage, DuplicatesOnlyFromAborts

(* A relay is cut off: its rows are free again, one abort dearer. *)
LEMMA AbortRelayInv ==
  ASSUME IInv, NEW r \in Relays, AbortRelay(r), TypeOK'
  PROVE  IInv'
<1>1. /\ UNCHANGED <<events, outbox, answered, handler>>
      /\ aborts' = aborts + 1 /\ aborts \in Nat
      /\ locked'[r] = {} /\ sent'[r] = {}
      /\ \A x \in Relays : x # r => locked'[x] = locked[x] /\ sent'[x] = sent[x]
  BY DEF AbortRelay, Release, IInv, TypeOK, db
<1>2. \A k \in Keys :
        /\ published'[k] \in Nat /\ published[k] \in Nat
        /\ published'[k] = published[k] \/
             (published'[k] = published[k] + 1 /\ k \in locked[r] \ sent[r])
  BY DEF AbortRelay, IInv, TypeOK
<1>3. \A k \in locked[r] \ sent[r] : k \in outbox /\ published[k] <= aborts
  BY DEF IInv, RowsHeld, Counted
<1>4. RowsHeld'
  BY <1>1 DEF IInv, RowsHeld
<1>5. Counted'
  <2>1. ASSUME NEW k \in outbox PROVE published'[k] <= aborts + 1
    <3>1. k \in Keys /\ published[k] <= 1 + aborts
      BY DEF IInv, TypeOK, DuplicatesOnlyFromAborts
    <3>. QED BY <1>1, <1>2, <1>3, <3>1
  <2>2. ASSUME NEW x \in Relays, NEW k \in sent'[x] PROVE published'[k] > 0
    <3>1. k \in Keys /\ published[k] > 0
      BY <1>1 DEF IInv, TypeOK, Counted
    <3>. QED BY <1>2, <3>1
  <2>. QED BY <1>1, <2>1, <2>2 DEF Counted
<1>6. NoEventLost'
  BY <1>1, <1>2 DEF IInv, NoEventLost, TypeOK
<1>7. NoOrphanMessage'
  BY <1>1, <1>2, <1>3 DEF IInv, NoOrphanMessage
<1>8. DuplicatesOnlyFromAborts'
  BY <1>1, <1>2, <1>3 DEF IInv, DuplicatesOnlyFromAborts
<1>9. OneInserter'
  BY <1>1, HandlersKept DEF IInv
<1>. QED BY <1>1, <1>4, <1>5, <1>6, <1>7, <1>8, <1>9 DEF IInv

(* Every step keeps the inductive invariant. *)
LEMMA InvariantStep == IInv /\ [Next]_vars => IInv'
<1>. SUFFICES ASSUME IInv, [Next]_vars PROVE IInv'
  OBVIOUS
<1>1. TypeOK'
  BY TypeStep DEF IInv
<1>2. CASE UNCHANGED vars
  BY <1>1, <1>2 DEF vars, db, IInv, RowsHeld, OneInserter, Counted, NoEventLost,
                    NoOrphanMessage, DuplicatesOnlyFromAborts
<1>. QED BY <1>1, <1>2, InsertInv, CommitIngestInv, AbortIngestInv, SelectInv, PublishInv,
            CommitRelayInv, AbortRelayInv DEF Next

(* So it holds in every reachable state of the outbox. *)
THEOREM Invariant == Spec => []IInv
BY InvariantInit, InvariantStep, PTL DEF Spec

(* The locks of the relays, the pending inserts of the handlers and the    *)
(* counts of published messages agree: the inductive invariant.            *)
THEOREM LocksAndCountsAgree == Spec => []OutboxInv
<1>1. IInv => OutboxInv
  BY OutboxInvParts DEF IInv
<1>. QED BY <1>1, Invariant, PTL

(* No event is lost between the API and the topic (OutboxEntry).           *)
THEOREM EventsAreNotLost == Spec => []NoEventLost
<1>1. IInv => NoEventLost
  BY DEF IInv
<1>. QED BY <1>1, Invariant, PTL

(* The relay never publishes an event whose transaction rolled back.       *)
THEOREM NoOrphans == Spec => []NoOrphanMessage
<1>1. IInv => NoOrphanMessage
  BY DEF IInv
<1>. QED BY <1>1, Invariant, PTL

(* However many handlers post a key and however many relays run, an event  *)
(* is published once, and once more per cut-off transaction at most        *)
(* (ON CONFLICT DO NOTHING, FOR UPDATE SKIP LOCKED).                       *)
THEOREM FewDuplicates == Spec => []DuplicatesOnlyFromAborts
<1>1. IInv => DuplicatesOnlyFromAborts
  BY DEF IInv
<1>. QED BY <1>1, Invariant, PTL

=============================================================================
