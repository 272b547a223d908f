------------------------------- MODULE Alerts -------------------------------
(***************************************************************************)
(* Alerts: the worker check_alerts, the samples it reads and the operator  *)
(* who resolves alerts by hand (crates/csd-pool-workers/src/main.rs,       *)
(* crates/csd-pool-db/src/lib.rs, crates/csd-pool-api/src/lib.rs).         *)
(*                                                                         *)
(* A run goes through the kinds of alert in order.  For each it lists what *)
(* is wrong, opens those alerts one by one, and resolves the others.  The  *)
(* calls are separate transactions, so the pool changes, the operator acts *)
(* and the worker may die between any two of them.  Fewer subjects are in  *)
(* trouble at once than the queries return (100 samples, blocks or         *)
(* batches, 1000 workers).                                                 *)
(***************************************************************************)
EXTENDS Naturals, Sequences, FiniteSets

CONSTANTS
  Subjects,        \* for each kind, what an alert of it may be about
  AlertLimit,      \* limit of list_alerts: 1000
  MaxChanges,      \* bound: changes of what is wrong
  MaxRuns          \* bound: runs of the worker

\* One alert for each sample or for the pool, opened or resolved as it is read; ...
OneByOne == {"service_health", "no_accepted_shares", "template_age"}
\* ... and kinds of which the ones not listed are looked for and resolved.
Listed == {"block_submission", "worker_offline", "share_quality"}

\* share_quality stands for high_reject_rate and high_stale_rate.
Kinds == <<"service_health", "no_accepted_shares", "template_age", "block_submission",
           "payout_stuck", "worker_offline", "share_quality">>
Done == Len(Kinds) + 1

\* What the proofs need: every alert is of a kind the worker handles.
ASSUME AlertsAssumption == DOMAIN Subjects \subseteq {Kinds[i] : i \in 1 .. Len(Kinds)}

Alert == UNION {{<<k, s>> : s \in Subjects[k]} : k \in DOMAIN Subjects}
Of(k, alerts) == {a \in alerts : a[1] = k}

VARIABLES
  failing,    \* what is wrong with the pool, as the queries see it
  alerts,     \* alert_events whose status is active
  place,      \* the kind the run is at; 0 when the worker does not run
  stage,      \* "idle", "open" or "resolve"
  todo,       \* alerts still to be opened or resolved
  found,      \* the fingerprints of this kind found to be active
  dirty,      \* history: since the run began the pool or the operator changed something,
              \* or there were more alerts than list_alerts returns
  alterations, runs

alertVars == <<failing, alerts, place, stage, todo, found, dirty, alterations, runs>>
kind == Kinds[place]
world == <<failing, dirty, alterations>>

-----------------------------------------------------------------------------

\* A sample is inserted, a batch gets stuck or moves on, a worker comes back, ...
PoolChanges ==
  /\ alterations < MaxChanges
  /\ \E a \in Alert : failing' = (failing \ {a}) \cup ({a} \ failing)
  /\ alterations' = alterations + 1
  /\ dirty' = TRUE
  /\ UNCHANGED <<alerts, place, stage, todo, found, runs>>

operator_resolve_alert(a) ==
  /\ a \in alerts
  /\ alerts' = alerts \ {a}
  /\ dirty' = TRUE
  /\ UNCHANGED <<failing, place, stage, todo, found, alterations, runs>>

Running == place \in 1..Len(Kinds)

\* The query of a kind: latest_node_samples, accepted_share_gap, latest_job,
\* list_block_submission_alerts, list_stuck_payout_batches, list_offline_workers,
\* list_share_quality_alerts.
Query(i) ==
  LET k == Kinds[i]
  IN  /\ place' = i
      /\ found' = Of(k, failing)
      /\ todo' = IF k \in OneByOne THEN Of(k, Alert) ELSE Of(k, failing)
      /\ stage' = "open"

BeginRun ==
  /\ place \in {0, Done} /\ runs < MaxRuns
  /\ runs' = runs + 1
  /\ dirty' = FALSE
  /\ Query(1)
  /\ UNCHANGED <<failing, alerts, alterations>>

\* upsert_alert of what is wrong; of a pointwise kind, resolve_alert of what is well.
Open ==
  /\ Running /\ stage = "open"
  /\ \E a \in todo :
       /\ alerts' = IF a \in found THEN alerts \cup {a} ELSE alerts \ {a}
       /\ todo' = todo \ {a}
  /\ UNCHANGED <<world, place, stage, found, runs>>

\* Mutant of Others: alerts of every kind are compared with what this kind found.
OthersOfAnyKind(listed) == listed \ found

\* The alerts of this kind, among the ones listed, that were not found.
Others(listed) == Of(kind, listed) \ found

\* What is left to be resolved: of the listed kinds list_alerts is asked, newest
\* first, and nothing beyond its limit is seen.
List ==
  /\ Running /\ stage = "open" /\ todo = {} /\ kind \in Listed
  /\ stage' = "resolve"
  /\ \E listed \in SUBSET alerts :
       /\ listed = alerts \/ Cardinality(listed) = AlertLimit
       /\ Cardinality(listed) <= AlertLimit
       /\ todo' = Others(listed)
       /\ dirty' = (dirty \/ listed # alerts)
  /\ UNCHANGED <<failing, alterations, alerts, place, found, runs>>

\* resolve_alert
Resolve ==
  /\ Running /\ stage = "resolve"
  /\ \E a \in todo :
       /\ alerts' = alerts \ {a}
       /\ todo' = todo \ {a}
  /\ UNCHANGED <<world, place, stage, found, runs>>

\* The next kind, or the end of the run.
Advance ==
  /\ Running /\ todo = {} /\ (kind \in Listed => stage = "resolve")
  /\ IF place < Len(Kinds) THEN Query(place + 1)
     ELSE place' = Done /\ stage' = "idle" /\ found' = {} /\ UNCHANGED todo
  /\ UNCHANGED <<world, alerts, runs>>

\* A call of the database fails, or the worker dies.
Abort ==
  /\ Running
  /\ place' = 0
  /\ stage' = "idle"
  /\ todo' = {} /\ found' = {}
  /\ UNCHANGED <<world, alerts, runs>>

AlertsInit ==
  /\ failing = {}
  /\ alerts = {}
  /\ place = 0
  /\ stage = "idle"
  /\ todo = {} /\ found = {}
  /\ dirty = FALSE
  /\ alterations = 0 /\ runs = 0

AlertsNext ==
  \/ PoolChanges
  \/ \E a \in Alert : operator_resolve_alert(a)
  \/ BeginRun \/ Open \/ List \/ Resolve \/ Advance \/ Abort

AlertsSpec == AlertsInit /\ [][AlertsNext]_alertVars

-----------------------------------------------------------------------------
(* Properties *)

\* A run that nothing disturbed leaves the alerts as the pool is, whatever runs
\* that were cut short, races with the operator and changes under way have left
\* behind: everything that is wrong has an alert, and nothing else has but
\* batches once stuck, whose alerts only the operator resolves.
QuietRunRepairs ==
  place = Done /\ ~ dirty =>
    /\ failing \subseteq alerts
    /\ \A a \in alerts \ failing : a[1] = "payout_stuck"

=============================================================================
