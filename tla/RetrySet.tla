------------------------------ MODULE RetrySet ------------------------------
(***************************************************************************)
(* What the workers are promised of RetryScheduler (the Protocol in        *)
(* retry.py): a set of retries.  A poll looks and does not take, so a      *)
(* retry leaves the set only when someone cancels it, and a scheduler that *)
(* starts again forgets what it polled and nothing else.                   *)
(***************************************************************************)
CONSTANTS
  Members,     \* retries that can be scheduled
  Schedulers   \* run_scheduler loops

VARIABLES
  scheduled,   \* the set
  due,         \* what each scheduler has polled and not yet dealt with
  republished  \* what it has published and not yet cancelled

vars == <<scheduled, due, republished>>

Init ==
  /\ scheduled = {}
  /\ due = [s \in Schedulers |-> {}]
  /\ republished = [s \in Schedulers |-> {}]

Schedule(m) == scheduled' = scheduled \cup {m} /\ UNCHANGED <<due, republished>>

Cancel(m) == scheduled' = scheduled \ {m} /\ UNCHANGED <<due, republished>>

Poll(s) ==
  /\ due[s] = {} /\ republished[s] = {}
  /\ \E found \in SUBSET scheduled : due' = [due EXCEPT ![s] = found]
  /\ UNCHANGED <<scheduled, republished>>

Republish(s, m) ==
  /\ m \in due[s] /\ republished[s] = {}
  /\ due' = [due EXCEPT ![s] = @ \ {m}]
  /\ republished' = [republished EXCEPT ![s] = {m}]
  /\ UNCHANGED scheduled

CancelPublished(s, m) ==
  /\ m \in republished[s]
  /\ scheduled' = scheduled \ {m}
  /\ republished' = [republished EXCEPT ![s] = {}]
  /\ UNCHANGED due

Restart(s) ==
  /\ due' = [due EXCEPT ![s] = {}]
  /\ republished' = [republished EXCEPT ![s] = {}]
  /\ UNCHANGED scheduled

Next ==
  \/ \E m \in Members : Schedule(m) \/ Cancel(m)
  \/ \E s \in Schedulers :
       \/ Poll(s) \/ Restart(s)
       \/ \E m \in Members : Republish(s, m) \/ CancelPublished(s, m)

Spec == Init /\ [][Next]_vars

=============================================================================
