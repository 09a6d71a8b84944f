----------------------------- MODULE RetryStore -----------------------------
(***************************************************************************)
(* RedisRetryScheduler and run_scheduler: the retries as Redis holds them, *)
(* a sorted set of due times and a hash of payloads, with the schedulers   *)
(* that poll it.  Each action is one Redis call (a Lua script or a         *)
(* MULTI pipeline) or one publish, with the code around it.                *)
(*                                                                         *)
(* Beside the members the workers schedule, Redis may hold entries that    *)
(* they never wrote.  The code expects three kinds: a payload that is not  *)
(* JSON, ids that are absent or no UUIDs, and a member without a payload.  *)
(* Two it does not: a payload whose error nobody catches, which takes the  *)
(* worker down, and one that names another retry than its key does.        *)
(***************************************************************************)
EXTENDS Integers, FiniteSets

CONSTANTS
  Members,     \* retries the workers schedule
  Attempt,     \* the attempt number of each
  Corrupt,     \* bad entries: the payload is not JSON,
  Malformed,   \*   raises KeyError or ValueError where the ids are parsed,
  Unusable,    \*   raises anything else there, or a bad attempt_number,
  Misfiled,    \*   names another retry,
  Missing,     \*   or is not there at all
  Named,       \* the retry each misfiled payload names
  PlantedAt,   \* when each bad entry is due
  Schedulers,  \* run_scheduler loops, one per worker
  Base, Cap,   \* _BASE and _CAP
  Batch,       \* _POLL_BATCH
  MaxTime,     \* bound: time up to which anything is due
  MaxCrashes   \* bound: schedulers that die

Planted == UNION {Corrupt, Malformed, Unusable, Misfiled, Missing}
Entries == Members \cup Planted

ASSUME AttemptAssumption == Attempt \in [Members -> Nat]
ASSUME KindsAssumption ==
  /\ Members \cap Planted = {}
  /\ Corrupt \cap (Malformed \cup Unusable \cup Misfiled \cup Missing) = {}
  /\ Malformed \cap (Unusable \cup Misfiled \cup Missing) = {}
  /\ Unusable \cap (Misfiled \cup Missing) = {} /\ Misfiled \cap Missing = {}
ASSUME PlantedAssumption == PlantedAt \in [Planted -> Nat] /\ Named \in [Misfiled -> Members]
ASSUME BackoffAssumption ==
  /\ Base \in Nat /\ Cap \in Nat
  /\ \A m \in Members : Base * 2 ^ Attempt[m] \in Nat   \* the provers know no powers
ASSUME BatchAssumption == Batch \in Nat \ {0}

VARIABLES
  zset,        \* hookrelay:retries, from its members to when they are due
  hash,        \* hookrelay:retry:data, the members that have a payload
  now,
  due,         \* the rest of each scheduler's last poll, from its entries
               \*   to when they were due
  republished, \* what it has published and not yet cancelled
  crashes

vars == <<zset, hash, now, due, republished, crashes>>

Only(times, kept) == [x \in DOMAIN times \cap kept |-> times[x]]
Nothing == Only(PlantedAt, {})

Init ==
  /\ zset = PlantedAt
  /\ hash = Planted \ Missing
  /\ now = 0
  /\ due = [s \in Schedulers |-> Nothing]
  /\ republished = [s \in Schedulers |-> {}]
  /\ crashes = 0

-----------------------------------------------------------------------------
(* RedisRetryScheduler *)

(* The mutant forgets the cap. *)
Uncapped(n) == Base * 2 ^ n

(* backoff_seconds without its jitter, which is up to Base. *)
Backoff(n) == IF Base * 2 ^ n < Cap THEN Base * 2 ^ n ELSE Cap

ZAdd(m, at) == zset' = [x \in DOMAIN zset \cup {m} |-> IF x = m THEN at ELSE zset[x]]
ZRem(gone) == zset' = Only(zset, DOMAIN zset \ gone)

(* The mutant sends the two commands one by one, and can die in between. *)
ScheduleInTwo(m) ==
  /\ now + Cap + Base <= MaxTime
  /\ \E jitter \in 0 .. Base : ZAdd(m, now + Backoff(Attempt[m]) + jitter)
  /\ hash' = hash \cup {m} \/ UNCHANGED hash
  /\ UNCHANGED <<now, due, republished, crashes>>

(* A worker schedules a retry, perhaps one that is scheduled already. *)
Schedule(m) ==
  /\ now + Cap + Base <= MaxTime
  /\ hash' = hash \cup {m}
  /\ \E jitter \in 0 .. Base : ZAdd(m, now + Backoff(Attempt[m]) + jitter)
  /\ UNCHANGED <<now, due, republished, crashes>>

(* cancel: ZREM and HDEL in one MULTI. *)
Remove(m) == ZRem({m}) /\ hash' = hash \ {m}

(* move_to_dlq cancels the retry of its attempt. *)
Cancel(m) ==
  /\ Remove(m)
  /\ UNCHANGED <<now, due, republished, crashes>>

Ready == {m \in DOMAIN zset : zset[m] <= now}

(* ZRANGEBYSCORE ... LIMIT 0 Batch: the entries that are due first. *)
First(found) ==
  /\ found \subseteq Ready
  /\ Cardinality(found) <= Batch
  /\ found # Ready => Cardinality(found) = Batch
  /\ \A m \in found, other \in Ready \ found : zset[m] <= zset[other]

(* poll_due leaves what it found where it is, but for members without a    *)
(* payload, which it removes; payloads that do not parse it drops.         *)
Poll(s) ==
  /\ DOMAIN due[s] = {} /\ republished[s] = {}
  /\ \E found \in SUBSET Ready :
       /\ First(found)
       /\ ZRem(found \ hash)
       /\ due' = [due EXCEPT ![s] = Only(zset, (found \cap hash) \ Corrupt)]
  /\ UNCHANGED <<hash, now, republished, crashes>>

-----------------------------------------------------------------------------
(* run_scheduler *)

(* The batch is a list, earliest first.  Its next entry is m.              *)
Turn(s, m) ==
  /\ m \in DOMAIN due[s] /\ republished[s] = {}
  /\ \A other \in DOMAIN due[s] : due[s][m] <= due[s][other]

Forget(s, gone) == due' = [due EXCEPT ![s] = Only(@, DOMAIN @ \ gone)]

(* A payload with usable ids is published, whatever its key.               *)
Republish(s, m) ==
  /\ m \in Members \cup Misfiled /\ Turn(s, m)
  /\ Forget(s, {m})
  /\ republished' = [republished EXCEPT ![s] = {m}]
  /\ UNCHANGED <<zset, hash, now, crashes>>

(* The mutant ends the batch at a malformed entry. *)
SkipAll(s, m) ==
  /\ m \in Malformed /\ Turn(s, m)
  /\ Forget(s, DOMAIN due[s])
  /\ UNCHANGED <<zset, hash, now, republished, crashes>>

(* The error of the ids is caught: the entry is skipped, and stays.        *)
Skip(s, m) ==
  /\ m \in Malformed /\ Turn(s, m)
  /\ Forget(s, {m})
  /\ UNCHANGED <<zset, hash, now, republished, crashes>>

(* The error is not caught: the worker exits, and its supervisor starts it *)
(* again.  The entry stays.                                                *)
Choke(s, m) ==
  /\ m \in Unusable /\ Turn(s, m)
  /\ Forget(s, DOMAIN due[s])
  /\ UNCHANGED <<zset, hash, now, republished, crashes>>

(* The retry that the payload names, not the entry it was found under.     *)
NamedBy(m) == IF m \in Misfiled THEN Named[m] ELSE m

CancelPublished(s, m) ==
  /\ m \in republished[s]
  /\ Remove(NamedBy(m))
  /\ republished' = [republished EXCEPT ![s] = {}]
  /\ UNCHANGED <<now, due, crashes>>

(* The worker dies anywhere, and its supervisor starts it again. *)
Restart(s) ==
  /\ crashes < MaxCrashes /\ crashes' = crashes + 1
  /\ Forget(s, DOMAIN due[s])
  /\ republished' = [republished EXCEPT ![s] = {}]
  /\ UNCHANGED <<zset, hash, now>>

Tick ==
  /\ now < MaxTime /\ now' = now + 1
  /\ UNCHANGED <<zset, hash, due, republished, crashes>>

-----------------------------------------------------------------------------

SchedulerStep(s) ==
  \/ Poll(s)
  \/ \E m \in Entries :
       Republish(s, m) \/ CancelPublished(s, m) \/ Skip(s, m) \/ Choke(s, m)

Next ==
  \/ \E m \in Members : Schedule(m) \/ Cancel(m)
  \/ \E s \in Schedulers : SchedulerStep(s) \/ Restart(s)
  \/ Tick

Spec == Init /\ [][Next]_vars

(* Time passes and every scheduler goes on.  Nobody has to schedule or to  *)
(* cancel anything.                                                        *)
FairSpec == Spec /\ WF_vars(Tick) /\ \A s \in Schedulers : WF_vars(SchedulerStep(s))

-----------------------------------------------------------------------------

(* The sorted set and the hash agree on the members the workers schedule,  *)
(* whoever polls, publishes or dies, and none of them is due later than    *)
(* the cap and the jitter allow.                                           *)
StoreOK ==
  /\ zset \in [DOMAIN zset -> Nat] /\ DOMAIN zset \subseteq Entries
  /\ hash \subseteq Entries /\ hash \cap Missing = {}
  /\ DOMAIN zset \cap Members = hash \cap Members
  /\ now \in Nat
  /\ \A m \in DOMAIN zset \cap Members : zset[m] <= now + Cap + Base
  /\ DOMAIN due = Schedulers
  /\ \A s \in Schedulers : /\ due[s] \in [DOMAIN due[s] -> Nat]
                           /\ DOMAIN due[s] \subseteq Entries
  /\ republished \in [Schedulers -> SUBSET (Members \cup Misfiled)]
  /\ \A s \in Schedulers : \A m, other \in republished[s] : m = other

(* Redis keeps the promise of RetryScheduler to the workers: seen from the *)
(* members they schedule it is a set, in which batches, bad entries and    *)
(* due times do not show.                                                  *)
Promise == INSTANCE RetrySet WITH
  scheduled <- DOMAIN zset \cap Members,
  due <- [s \in Schedulers |-> DOMAIN due[s] \cap Members],
  republished <- [s \in Schedulers |-> republished[s] \cap Members]
ImplementsRetrySet == Promise!Spec

(* An entry that is due before every entry that takes a worker down. *)
Ahead(m) ==
  m \in DOMAIN zset /\ \A bad \in Unusable : zset[m] < zset[bad]

(* What is due before the first entry that takes the worker down leaves    *)
(* Redis in the end, published or cancelled, and a member without a payload *)
(* is cleared away (retry.py: "Remaining due entries are picked up on the  *)
(* next scheduler tick"): the batch limit, the other bad entries, as long  *)
(* as fewer than a batch stay, and workers that die again and again delay  *)
(* it and no more.  What is due after such an entry does not come out.     *)
EventuallyCleared == \A m \in Members \cup Missing : Ahead(m) ~> ~Ahead(m)

=============================================================================
