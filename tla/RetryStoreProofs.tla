-------------------------- MODULE RetryStoreProofs --------------------------
(***************************************************************************)
(* Proofs about RetryStore, for any retries, bad entries, schedulers,      *)
(* batch sizes and backoffs: the two Redis structures agree, and together  *)
(* they are the set of retries that Delivery uses.                         *)
(***************************************************************************)
EXTENDS RetryStore, TLAPS

(* A backoff is a natural number of seconds and not beyond the cap. *)
LEMMA BackoffBounded ==
  ASSUME NEW m \in Members
  PROVE  Backoff(Attempt[m]) \in Nat /\ Backoff(Attempt[m]) <= Cap
<1>. DEFINE d == Base * 2 ^ Attempt[m]
<1>1. d \in Nat /\ Cap \in Nat
  BY BackoffAssumption
<1>. HIDE DEF d
<1>2. /\ (IF d < Cap THEN d ELSE Cap) \in Nat
      /\ (IF d < Cap THEN d ELSE Cap) <= Cap
  BY <1>1
<1>. QED BY <1>2 DEF d, Backoff

(* The planted entries of the initial state are no members of the workers. *)
LEMMA StoreInit == Init => StoreOK
<1>. SUFFICES ASSUME Init PROVE StoreOK
  OBVIOUS
<1>1. DOMAIN zset = Planted /\ zset \in [Planted -> Nat] /\ hash = Planted \ Missing
  BY PlantedAssumption DEF Init
<1>2. Planted \cap Members = {}
  BY KindsAssumption
<1>3. /\ DOMAIN due = Schedulers
      /\ \A s \in Schedulers : DOMAIN due[s] = {} /\ due[s] \in [DOMAIN due[s] -> Nat]
  BY DEF Init, Nothing, Only
<1>4. /\ now \in Nat /\ republished \in [Schedulers -> SUBSET (Members \cup Misfiled)]
      /\ \A s \in Schedulers : republished[s] = {}
  BY DEF Init
<1>. QED BY <1>1, <1>2, <1>3, <1>4 DEF StoreOK, Entries

(* Scheduling keeps the structures together and the due time within bounds. *)
LEMMA ScheduleStep ==
  ASSUME StoreOK, NEW m \in Members, Schedule(m)
  PROVE  StoreOK'
<1>1. PICK jitter \in 0 .. Base : ZAdd(m, now + Backoff(Attempt[m]) + jitter)
  BY DEF Schedule
<1>. DEFINE at == now + Backoff(Attempt[m]) + jitter
<1>2. at \in Nat /\ at <= now + Cap + Base
  BY BackoffBounded, BackoffAssumption DEF StoreOK
<1>. HIDE DEF at
<1>3. zset' = [x \in DOMAIN zset \cup {m} |-> IF x = m THEN at ELSE zset[x]]
  BY <1>1 DEF ZAdd, at
<1>4. /\ DOMAIN zset' = DOMAIN zset \cup {m}
      /\ \A x \in DOMAIN zset' : zset'[x] = IF x = m THEN at ELSE zset[x]
  BY <1>3
<1>5. /\ zset' \in [DOMAIN zset' -> Nat]
      /\ \A x \in DOMAIN zset' \cap Members : zset'[x] <= now' + Cap + Base
  BY <1>2, <1>3, <1>4 DEF StoreOK, Schedule
<1>6. /\ hash' \subseteq Entries /\ hash' \cap Missing = {}
      /\ DOMAIN zset' \subseteq Entries
      /\ DOMAIN zset' \cap Members = hash' \cap Members
  BY <1>4, KindsAssumption DEF StoreOK, Schedule, Entries, Planted
<1>. QED BY <1>5, <1>6 DEF StoreOK, Schedule

(* Removing entries keeps the times of the others. *)
LEMMA RemovalKeepsTimes ==
  ASSUME StoreOK, NEW gone, ZRem(gone), now' = now
  PROVE  /\ DOMAIN zset' = DOMAIN zset \ gone
         /\ zset' \in [DOMAIN zset' -> Nat]
         /\ \A x \in DOMAIN zset' \cap Members : zset'[x] <= now' + Cap + Base
<1>1. zset' = Only(zset, DOMAIN zset \ gone) /\ zset \in [DOMAIN zset -> Nat]
  BY DEF ZRem, StoreOK
<1>2. zset' = [x \in DOMAIN zset \ gone |-> zset[x]]
  BY <1>1 DEF Only
<1>. QED BY <1>1, <1>2 DEF StoreOK

(* A scheduler that forgets entries still holds a table of due times, and  *)
(* the others hold what they held.                                         *)
LEMMA ForgetKeepsTypes ==
  ASSUME StoreOK, NEW s \in Schedulers, NEW gone, Forget(s, gone)
  PROVE  /\ DOMAIN due' = Schedulers
         /\ DOMAIN due'[s] = DOMAIN due[s] \ gone
         /\ \A o \in Schedulers \ {s} : due'[o] = due[o]
         /\ \A o \in Schedulers : /\ due'[o] \in [DOMAIN due'[o] -> Nat]
                                 /\ DOMAIN due'[o] \subseteq Entries
<1>1. /\ DOMAIN due' = Schedulers
      /\ due'[s] = Only(due[s], DOMAIN due[s] \ gone)
      /\ \A o \in Schedulers \ {s} : due'[o] = due[o]
  BY DEF Forget, StoreOK
<1>2. due[s] \in [DOMAIN due[s] -> Nat] /\ DOMAIN due[s] \subseteq Entries
  BY DEF StoreOK
<1>3. due'[s] = [x \in DOMAIN due[s] \ gone |-> due[s][x]]
  BY <1>1 DEF Only
<1>4. DOMAIN due'[s] = DOMAIN due[s] \ gone /\ due'[s] \in [DOMAIN due'[s] -> Nat]
  BY <1>2, <1>3
<1>. QED BY <1>1, <1>2, <1>4 DEF StoreOK

(* A cancel takes its member out of both structures. *)
LEMMA RemoveStep ==
  ASSUME StoreOK, NEW m \in Members, Remove(m), UNCHANGED <<now, due>>,
         republished' \in [Schedulers -> SUBSET (Members \cup Misfiled)],
         \A s \in Schedulers : \A n, other \in republished'[s] : n = other
  PROVE  StoreOK'
<1>1. ZRem({m}) /\ hash' = hash \ {m}
  BY DEF Remove
<1>. QED BY <1>1, RemovalKeepsTimes DEF StoreOK

(* What a scheduler cancels is a retry the workers may schedule. *)
LEMMA NamesAMember ==
  ASSUME NEW m \in Members \cup Misfiled
  PROVE  NamedBy(m) \in Members
BY PlantedAssumption, KindsAssumption DEF NamedBy

(* What a poll removes has no payload, so it is none of the workers'. *)
LEMMA PollRemovesNoMember ==
  ASSUME StoreOK, NEW found \in SUBSET Ready
  PROVE  (found \ hash) \cap Members = {}
BY DEF StoreOK, Ready

(* What a poll returns are entries of the sorted set that have a payload.  *)
LEMMA PollReturns ==
  ASSUME StoreOK, NEW s \in Schedulers, NEW found \in SUBSET Ready,
         due' = [due EXCEPT ![s] = Only(zset, (found \cap hash) \ Corrupt)]
  PROVE  /\ DOMAIN due' = Schedulers
         /\ DOMAIN due'[s] = (found \cap hash) \ Corrupt
         /\ \A o \in Schedulers \ {s} : due'[o] = due[o]
         /\ \A o \in Schedulers : /\ due'[o] \in [DOMAIN due'[o] -> Nat]
                                 /\ DOMAIN due'[o] \subseteq Entries
<1>1. /\ DOMAIN due' = Schedulers
      /\ due'[s] = Only(zset, (found \cap hash) \ Corrupt)
      /\ \A o \in Schedulers \ {s} : due'[o] = due[o]
  BY DEF StoreOK
<1>2. zset \in [DOMAIN zset -> Nat] /\ DOMAIN zset \subseteq Entries
  BY DEF StoreOK
<1>3. found \subseteq DOMAIN zset
  BY DEF Ready
<1>4. due'[s] = [x \in (found \cap hash) \ Corrupt |-> zset[x]]
  BY <1>1, <1>3 DEF Only
<1>5. /\ DOMAIN due'[s] = (found \cap hash) \ Corrupt
      /\ due'[s] \in [DOMAIN due'[s] -> Nat]
  BY <1>2, <1>3, <1>4
<1>. QED BY <1>1, <1>2, <1>3, <1>5 DEF StoreOK

(* A poll clears away what has no payload and leaves the rest. *)
LEMMA PollStep ==
  ASSUME StoreOK, NEW s \in Schedulers, Poll(s)
  PROVE  StoreOK'
<1>1. PICK found \in SUBSET Ready :
        /\ ZRem(found \ hash)
        /\ due' = [due EXCEPT ![s] = Only(zset, (found \cap hash) \ Corrupt)]
  BY DEF Poll
<1>2. /\ DOMAIN zset' = DOMAIN zset \ (found \ hash)
      /\ zset' \in [DOMAIN zset' -> Nat]
      /\ \A x \in DOMAIN zset' \cap Members : zset'[x] <= now' + Cap + Base
  BY <1>1, RemovalKeepsTimes DEF Poll
<1>3. /\ DOMAIN due' = Schedulers
      /\ \A o \in Schedulers : /\ due'[o] \in [DOMAIN due'[o] -> Nat]
                              /\ DOMAIN due'[o] \subseteq Entries
  BY <1>1, PollReturns
<1>4. DOMAIN zset' \cap Members = hash' \cap Members
  BY <1>2, PollRemovesNoMember DEF StoreOK, Poll
<1>. QED BY <1>2, <1>3, <1>4 DEF StoreOK, Poll

(* Every step keeps the store in order. *)
LEMMA StoreStep ==
  ASSUME StoreOK, [Next]_vars
  PROVE  StoreOK'
<1>1. ASSUME NEW m \in Members, Cancel(m) PROVE StoreOK'
  BY <1>1, RemoveStep DEF Cancel, StoreOK
<1>2. ASSUME NEW s \in Schedulers, NEW m \in Entries, Republish(s, m) PROVE StoreOK'
  <2>1. /\ republished' \in [Schedulers -> SUBSET (Members \cup Misfiled)]
        /\ \A o \in Schedulers : \A n, other \in republished'[o] : n = other
    BY <1>2 DEF Republish, StoreOK
  <2>. QED BY <1>2, <2>1, ForgetKeepsTypes DEF Republish, StoreOK
<1>3. ASSUME NEW s \in Schedulers, NEW m \in Entries, CancelPublished(s, m) PROVE StoreOK'
  <2>1. /\ m \in Members \cup Misfiled
        /\ republished' \in [Schedulers -> SUBSET (Members \cup Misfiled)]
        /\ \A o \in Schedulers : \A n, other \in republished'[o] : n = other
    BY <1>3 DEF CancelPublished, StoreOK
  <2>. QED BY <1>3, <2>1, NamesAMember, RemoveStep DEF CancelPublished
<1>4. ASSUME NEW s \in Schedulers, NEW m \in Entries, Skip(s, m) \/ Choke(s, m)
      PROVE  StoreOK'
  <2>1. PICK gone : Forget(s, gone)
    BY <1>4 DEF Skip, Choke
  <2>. QED BY <1>4, <2>1, ForgetKeepsTypes DEF Skip, Choke, StoreOK
<1>5. ASSUME NEW s \in Schedulers, Restart(s) PROVE StoreOK'
  <2>1. /\ republished' \in [Schedulers -> SUBSET (Members \cup Misfiled)]
        /\ \A o \in Schedulers : \A n, other \in republished'[o] : n = other
    BY <1>5 DEF Restart, StoreOK
  <2>. QED BY <1>5, <2>1, ForgetKeepsTypes DEF Restart, StoreOK
<1>6. CASE Tick
  <2>1. \A m \in DOMAIN zset \cap Members : zset[m] <= now + 1 + Cap + Base
    BY BackoffAssumption DEF StoreOK
  <2>. QED BY <1>6, <2>1 DEF Tick, StoreOK
<1>7. CASE UNCHANGED vars
  BY <1>7 DEF vars, StoreOK
<1>. QED BY <1>1, <1>2, <1>3, <1>4, <1>5, <1>6, <1>7, ScheduleStep, PollStep
         DEF Next, SchedulerStep

(* Sorted set and hash always agree on the retries of the workers, and no  *)
(* retry is due later than the cap and the jitter allow.                   *)
THEOREM StoreStaysOK == Spec => []StoreOK
BY StoreInit, StoreStep, PTL DEF Spec

-----------------------------------------------------------------------------
(* The refinement: Redis is the set of retries. *)

PScheduled == DOMAIN zset \cap Members
PDue == [s \in Schedulers |-> DOMAIN due[s] \cap Members]
PRepublished == [s \in Schedulers |-> republished[s] \cap Members]

(* The store starts as an empty set of retries. *)
LEMMA PromiseInit == Init => Promise!Init
<1>. SUFFICES ASSUME Init PROVE Promise!Init
  OBVIOUS
<1>1. PScheduled = {}
  BY KindsAssumption, PlantedAssumption DEF Init, PScheduled
<1>2. PDue = [s \in Schedulers |-> {}]
  BY DEF Init, Nothing, Only, PDue
<1>3. PRepublished = [s \in Schedulers |-> {}]
  BY DEF Init, PRepublished
<1>. QED BY <1>1, <1>2, <1>3 DEF Promise!Init, PScheduled, PDue, PRepublished

(* A poll finds retries of the set and takes none. *)
LEMMA PollPromise ==
  ASSUME StoreOK, NEW s \in Schedulers, Poll(s)
  PROVE  Promise!Poll(s)
<1>1. PICK found \in SUBSET Ready :
        /\ ZRem(found \ hash)
        /\ due' = [due EXCEPT ![s] = Only(zset, (found \cap hash) \ Corrupt)]
  BY DEF Poll
<1>. DEFINE mine == ((found \cap hash) \ Corrupt) \cap Members
<1>2. PScheduled' = PScheduled
  <2>1. DOMAIN zset' = DOMAIN zset \ (found \ hash)
    BY <1>1, RemovalKeepsTimes DEF Poll
  <2>. QED BY <2>1, PollRemovesNoMember DEF PScheduled
<1>3. mine \in SUBSET PScheduled
  BY DEF PScheduled, Ready
<1>4. PDue' = [PDue EXCEPT ![s] = mine]
  BY <1>1, PollReturns DEF PDue
<1>5. PDue[s] = {} /\ PRepublished[s] = {} /\ UNCHANGED PRepublished
  BY DEF PDue, PRepublished, Poll
<1>. QED BY <1>2, <1>3, <1>4, <1>5 DEF Promise!Poll, PDue, PScheduled, PRepublished

(* What a scheduler forgets is gone from the retries it has yet to deal with. *)
LEMMA ForgetPromise ==
  ASSUME StoreOK, NEW s \in Schedulers, NEW gone, Forget(s, gone)
  PROVE  PDue' = [PDue EXCEPT ![s] = @ \ gone]
<1>1. /\ DOMAIN due'[s] = DOMAIN due[s] \ gone
      /\ \A o \in Schedulers \ {s} : due'[o] = due[o]
  BY ForgetKeepsTypes
<1>2. \A o \in Schedulers : DOMAIN due'[o] \cap Members =
        IF o = s THEN (DOMAIN due[s] \cap Members) \ gone ELSE DOMAIN due[o] \cap Members
  BY <1>1
<1>. QED BY <1>2 DEF PDue

(* A cancel of a retry takes it out of the set. *)
LEMMA RemovePromise ==
  ASSUME StoreOK, NEW m \in Members, Remove(m), now' = now
  PROVE  PScheduled' = PScheduled \ {m}
BY RemovalKeepsTimes DEF Remove, PScheduled

(* Publishing a retry does so in the set; a misfiled payload, which is no  *)
(* retry of the workers, does not show.                                    *)
LEMMA RepublishPromise ==
  ASSUME StoreOK, NEW s \in Schedulers, NEW m \in Entries, Republish(s, m)
  PROVE  \/ m \in Members /\ Promise!Republish(s, m)
         \/ UNCHANGED Promise!vars
<1>1. PDue' = [PDue EXCEPT ![s] = @ \ {m}] /\ UNCHANGED PScheduled
  BY ForgetPromise DEF Republish, PScheduled
<1>2. CASE m \in Members
  <2>1. m \in PDue[s] /\ PRepublished[s] = {}
    BY <1>2 DEF Republish, Turn, PDue, PRepublished
  <2>2. PRepublished' = [PRepublished EXCEPT ![s] = {m}]
    <3>1. republished' = [republished EXCEPT ![s] = {m}] /\ DOMAIN republished = Schedulers
      BY DEF Republish, StoreOK
    <3>. QED BY <1>2, <3>1 DEF PRepublished
  <2>. QED BY <1>1, <1>2, <2>1, <2>2
           DEF Promise!Republish, PDue, PScheduled, PRepublished
<1>3. CASE m \notin Members
  <2>1. PDue' = PDue
    BY <1>1, <1>3 DEF PDue
  <2>2. PRepublished' = PRepublished
    BY <1>3 DEF Republish, Turn, PRepublished, StoreOK
  <2>. QED BY <1>1, <2>1, <2>2 DEF Promise!vars, PDue, PScheduled, PRepublished
<1>. QED BY <1>2, <1>3

(* The cancel after a publish cancels in the set, and a misfiled payload   *)
(* cancels the retry it names.                                             *)
LEMMA CancelPromise ==
  ASSUME StoreOK, NEW s \in Schedulers, NEW m \in Entries, CancelPublished(s, m)
  PROVE  \/ m \in Members /\ Promise!CancelPublished(s, m)
         \/ \E n \in Members : Promise!Cancel(n)
<1>1. m \in Members \cup Misfiled
  BY DEF CancelPublished, StoreOK
<1>2. NamedBy(m) \in Members
  BY <1>1, NamesAMember
<1>3. PScheduled' = PScheduled \ {NamedBy(m)} /\ UNCHANGED PDue
  BY <1>2, RemovePromise DEF CancelPublished, PDue
<1>4. CASE m \in Members
  <2>1. NamedBy(m) = m
    BY <1>4, KindsAssumption DEF NamedBy, Planted
  <2>2. m \in PRepublished[s] /\ PRepublished' = [PRepublished EXCEPT ![s] = {}]
    <3>1. /\ republished' = [republished EXCEPT ![s] = {}] /\ DOMAIN republished = Schedulers
          /\ m \in republished[s]
      BY DEF CancelPublished, StoreOK
    <3>. QED BY <1>4, <3>1 DEF PRepublished
  <2>. QED BY <1>3, <1>4, <2>1, <2>2
           DEF Promise!CancelPublished, PDue, PScheduled, PRepublished
<1>5. CASE m \notin Members
  <2>1. PRepublished' = PRepublished
    BY <1>5 DEF CancelPublished, PRepublished, StoreOK
  <2>. QED BY <1>2, <1>3, <2>1 DEF Promise!Cancel, PDue, PScheduled, PRepublished
<1>. QED BY <1>4, <1>5

(* Every step of the store is a step of the set or a stutter. *)
LEMMA PromiseStep ==
  ASSUME StoreOK, [Next]_vars
  PROVE  [Promise!Next]_(Promise!vars)
<1>1. ASSUME NEW m \in Members, Schedule(m) PROVE Promise!Schedule(m)
  <2>1. PScheduled' = PScheduled \cup {m}
    BY <1>1 DEF Schedule, ZAdd, PScheduled
  <2>. QED BY <1>1, <2>1 DEF Schedule, Promise!Schedule, PScheduled
<1>2. ASSUME NEW m \in Members, Cancel(m) PROVE Promise!Cancel(m)
  <2>1. PScheduled' = PScheduled \ {m}
    BY <1>2, RemovePromise DEF Cancel
  <2>. QED BY <1>2, <2>1 DEF Cancel, Promise!Cancel, PScheduled
<1>3. ASSUME NEW s \in Schedulers, NEW m \in Entries, Skip(s, m)
      PROVE  UNCHANGED Promise!vars
  <2>1. PDue' = [PDue EXCEPT ![s] = @ \ {m}] /\ m \notin Members
    BY <1>3, ForgetPromise, KindsAssumption DEF Skip, Planted
  <2>2. PDue' = PDue
    BY <2>1 DEF PDue
  <2>. QED BY <1>3, <2>2 DEF Skip, Promise!vars, PDue
<1>4. ASSUME NEW s \in Schedulers, NEW m \in Entries, Choke(s, m)
      PROVE  Promise!Restart(s)
  <2>1. PDue' = [PDue EXCEPT ![s] = {}]
    BY <1>4, ForgetPromise DEF Choke, PDue
  <2>2. PRepublished' = [PRepublished EXCEPT ![s] = {}] /\ UNCHANGED PScheduled
    BY <1>4 DEF Choke, Turn, PRepublished, PScheduled
  <2>. QED BY <2>1, <2>2 DEF Promise!Restart, PDue, PScheduled, PRepublished
<1>5. ASSUME NEW s \in Schedulers, Restart(s) PROVE Promise!Restart(s)
  <2>1. PDue' = [PDue EXCEPT ![s] = {}]
    BY <1>5, ForgetPromise DEF Restart, PDue
  <2>2. PRepublished' = [PRepublished EXCEPT ![s] = {}] /\ UNCHANGED PScheduled
    BY <1>5 DEF Restart, PRepublished, PScheduled, StoreOK
  <2>. QED BY <2>1, <2>2 DEF Promise!Restart, PDue, PScheduled, PRepublished
<1>6. CASE Tick
  BY <1>6 DEF Tick, Promise!vars
<1>7. CASE UNCHANGED vars
  BY <1>7 DEF vars, Promise!vars
<1>. QED BY <1>1, <1>2, <1>3, <1>4, <1>5, <1>6, <1>7, PollPromise, RepublishPromise,
            CancelPromise
         DEF Next, SchedulerStep, Promise!Next

(* The sorted set, the hash and the schedulers implement RetrySet, the set *)
(* of retries the delivery of events is built on.                          *)
THEOREM Refinement == Spec => ImplementsRetrySet
<1>. DEFINE Step == [Promise!Next]_(Promise!vars)
<1>1. StoreOK /\ [Next]_vars => Step
  BY PromiseStep
<1>. QED BY <1>1, PromiseInit, StoreStaysOK, PTL DEF Spec, ImplementsRetrySet, Promise!Spec

=============================================================================
