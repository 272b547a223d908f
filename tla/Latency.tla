------------------------------- MODULE Latency -------------------------------
(***************************************************************************)
(* Telemetry of how long a replacement job takes to reach the miners       *)
(* (crates/csd-pool-bridge/src/replacement_latency.rs).                    *)
(*                                                                         *)
(* The watch task reports an event's stages, sessions report when they     *)
(* come, go and have notified a job.  Nobody ever waits for the state:     *)
(* whoever finds its lock taken gives up and counts.  The counters of      *)
(* sessions are atomics outside the lock, so a session comes and goes in   *)
(* two steps, and an event may be published between them.                  *)
(***************************************************************************)
EXTENDS Naturals, FiniteSets

CONSTANTS
  Clients,           \* session ids; each comes and goes once
  MaxEvents,         \* bound: events observed
  MaxJobs,           \* bound: jobs published, which also numbers them
  MaxInFlight,       \* MAX_IN_FLIGHT_EVENTS
  MaxTracked         \* MAX_TRACKED_SESSIONS

\* What the proofs need: numbers, and finitely many sessions.
ASSUME LatencyAssumption ==
  /\ IsFiniteSet(Clients)
  /\ MaxEvents \in Nat /\ MaxJobs \in Nat /\ MaxInFlight \in Nat /\ MaxTracked \in Nat

Ids == 1..MaxEvents
JobIds == 0..MaxJobs
NoId == 0
NoJob == 0

NoEvent == [stage |-> "none", key |-> 0, job |-> 0, old |-> FALSE, pending |-> {}, target |-> 0,
            success |-> {}, failed |-> 0, skipped |-> 0, gap |-> 0, audience |-> {}]

VARIABLES
  phase,      \* where each session is in activate_session and deactivate_session
  total,      \* active_session_total
  untracked,  \* untracked_active_sessions
  stale,      \* stale_tracked_sessions
  roster,     \* active_sessions
  held,       \* the job each session has taken from the channel and is sending, NoJob for none
  state,      \* events, dedupe and published_jobs, and the summaries of this step
  next_id,    \* events observed so far
  event,      \* active_latency_event of the watch task
  ready,      \* the watch task has a template for a new tip
  job         \* the job on the channel

latencyVars == <<phase, total, untracked, stale, roster, held, state, next_id, event, ready, job>>
sessionCounters == <<phase, total, untracked, stale, roster>>
watch == <<next_id, event, ready, job>>

InFlight(st) == {i \in Ids : st.events[i].stage # "none"}

-----------------------------------------------------------------------------
(* LatencyState *)

\* The counts of a finished event; sessions still pending count as skipped.
Summary(e, status, reason) ==
  [status |-> status, reason |-> reason, target |-> e.target, success |-> e.success,
   sum |-> Cardinality(e.success) + e.failed + e.skipped + Cardinality(e.pending),
   gap |-> e.gap, audience |-> e.audience]

\* The events leave the state with their entries in both indices.
finish_locked(st, ids, verdict) ==
  LET over == ids \cap InFlight(st)
  IN  [events |-> [i \in Ids |-> IF i \in over THEN NoEvent ELSE st.events[i]],
       dedupe |-> [k \in JobIds |-> IF \E i \in over : st.events[i].key = k THEN NoId
                                    ELSE st.dedupe[k]],
       published |-> [j \in JobIds |->
                        IF \E i \in over : st.events[i].stage = "published" /\ st.events[i].job = j
                        THEN NoId ELSE st.published[j]],
       completed |-> st.completed \cup
         {Summary(st.events[i], verdict[i].status, verdict[i].reason) : i \in over}]

Verdict(status, reason) == [i \in Ids |-> [status |-> status, reason |-> reason]]

\* The fanout of an event is over: with sessions nobody tracked it is incomplete.
finish_fanout_locked(st, ids, reason) ==
  finish_locked(st, ids,
    [i \in Ids |-> IF st.events[i].gap > 0
                   THEN [status |-> "tracking_gap", reason |-> "untracked_sessions"]
                   ELSE [status |-> "complete", reason |-> reason]])

\* Events older than EVENT_TIMEOUT, in a state whose summaries were taken.
expire_locked(st) ==
  finish_locked([st EXCEPT !.completed = {}], {i \in Ids : st.events[i].old},
                Verdict("timeout", "stage_timeout"))

\* Time passes the deadline of an event; nothing happens until somebody looks.
EventAges(i) ==
  /\ i \in InFlight(state) /\ ~ state.events[i].old
  /\ state' = [state EXCEPT !.events[i].old = TRUE, !.completed = {}]
  /\ UNCHANGED <<sessionCounters, held, watch>>

\* A call that finds the lock taken changes nothing.
Contended == state' = [state EXCEPT !.completed = {}]

-----------------------------------------------------------------------------
(* The watch task *)

\* observe_upstream for the current job: the event it has, or a new one, if there is
\* room; else the watch keeps the event it had.
observe_upstream ==
  LET st == expire_locked(state)
      known == st.dedupe[job]
      id == next_id + 1
  IN  /\ ~ ready
      /\ \/ Contended /\ UNCHANGED <<next_id, event>>
         \/ known # NoId /\ state' = st /\ event' = known /\ UNCHANGED next_id
         \/ /\ known = NoId /\ Cardinality(InFlight(st)) >= MaxInFlight
            /\ state' = st /\ UNCHANGED <<next_id, event>>
         \/ /\ known = NoId /\ Cardinality(InFlight(st)) < MaxInFlight /\ next_id < MaxEvents
            /\ state' = [st EXCEPT !.dedupe[job] = id,
                                   !.events[id] = [NoEvent EXCEPT !.stage = "observed", !.key = job]]
            /\ next_id' = id
            /\ event' = id
      /\ UNCHANGED <<sessionCounters, held, ready, job>>

\* A template on the new tip has arrived.
mark_a_ready ==
  LET st == expire_locked(state)
  IN  /\ ~ ready /\ event # NoId /\ job < MaxJobs
      /\ ready' = TRUE
      /\ \/ Contended
         \/ /\ event \notin InFlight(st)
            /\ state' = st
         \/ /\ event \in InFlight(st) /\ st.events[event].stage # "published"
            /\ state' = [st EXCEPT !.events[event].stage = "ready"]
         \/ /\ event \in InFlight(st) /\ st.events[event].stage = "published"
            /\ state' = finish_locked(st, {event}, Verdict("failed", "out_of_order"))
      /\ UNCHANGED <<sessionCounters, held, next_id, event, job>>

\* The sessions that ought to be on the roster: counted, and not known to be off it.
Expected == IF total >= untracked THEN total - untracked ELSE 0

\* Mutant of RosterIsWrong: only a roster with leftovers is distrusted.
RosterHasLeftovers == stale > 0 \/ Cardinality(roster) > Expected

RosterIsWrong == stale > 0 \/ Cardinality(roster) # Expected

\* Sessions that are authorized at this moment, whatever the counters say.
Present == {s \in Clients : phase[s] \in {"entering", "uncounted", "tracked", "untracked"}}

\* The event takes the roster as its audience; if the roster cannot be right it ends.
Publish(st, i) ==
  LET e == [st.events[i] EXCEPT !.stage = "published", !.job = job + 1, !.target = total,
                                !.audience = Present]
      wrong == [e EXCEPT !.skipped = total, !.gap = total]
      right == [e EXCEPT !.pending = roster, !.skipped = untracked, !.gap = untracked]
  IN  IF RosterIsWrong
      THEN finish_locked([st EXCEPT !.events[i] = wrong], {i},
                         Verdict("tracking_gap", "session_roster"))
      ELSE LET listed == [st EXCEPT !.events[i] = right, !.published[job + 1] = i]
           IN  IF roster # {} THEN listed
               ELSE finish_locked(listed, {i},
                      IF total = 0 THEN Verdict("complete", "zero_sessions")
                      ELSE Verdict("tracking_gap", "untracked_sessions"))

\* mark_published, then send_replace: from here on the sessions see the job.
mark_published ==
  LET st == expire_locked(state)
  IN  /\ ready
      /\ ready' = FALSE
      /\ event' = NoId
      /\ job' = job + 1
      /\ \/ Contended
         \/ event \notin InFlight(st) /\ state' = st
         \/ /\ event \in InFlight(st) /\ st.events[event].stage # "ready"
            /\ state' = finish_locked(st, {event}, Verdict("failed", "out_of_order"))
         \/ /\ event \in InFlight(st) /\ st.events[event].stage = "ready"
            /\ state' = Publish(st, event)
      /\ UNCHANGED <<sessionCounters, held, next_id>>

\* A heartbeat job, or one whose new tip nobody could record: not measured.
PublishUnmeasured ==
  /\ ~ ready /\ job < MaxJobs
  /\ job' = job + 1
  /\ Contended
  /\ UNCHANGED <<sessionCounters, held, next_id, event, ready>>

\* A request or the database failed: fail_event.
fail_event ==
  /\ event # NoId
  /\ event' = NoId
  /\ ready' = FALSE
  /\ \/ Contended
     \/ state' = finish_locked([state EXCEPT !.completed = {}], {event},
                               Verdict("failed", "read_or_persist"))
  /\ UNCHANGED <<sessionCounters, held, next_id, job>>

\* At the start of every round of the watch.
expire ==
  /\ \E i \in Ids : state.events[i].old
  /\ state' = expire_locked(state)
  /\ UNCHANGED <<sessionCounters, held, watch>>

-----------------------------------------------------------------------------
(* Sessions *)

\* activate_session: the session is counted ...
authorize(s) ==
  /\ phase[s] = "new"
  /\ phase' = [phase EXCEPT ![s] = "entering"]
  /\ total' = total + 1
  /\ Contended
  /\ UNCHANGED <<untracked, stale, roster, held, watch>>

\* ... then put on the roster, if the lock is free and there is room.
Enrol(s) ==
  /\ phase[s] = "entering"
  /\ \/ /\ Cardinality(roster) < MaxTracked
        /\ roster' = roster \cup {s}
        /\ phase' = [phase EXCEPT ![s] = "tracked"]
     \/ /\ phase' = [phase EXCEPT ![s] = "uncounted"]
        /\ UNCHANGED roster
  /\ Contended
  /\ UNCHANGED <<total, untracked, stale, held, watch>>

count_untracked_session(s) ==
  /\ phase[s] = "uncounted"
  /\ phase' = [phase EXCEPT ![s] = "untracked"]
  /\ untracked' = untracked + 1
  /\ Contended
  /\ UNCHANGED <<total, stale, roster, held, watch>>

\* deactivate_session, when the session ends, which is never between taking a job and
\* recording it: no longer counted ...
Leave(s) ==
  /\ phase[s] \in {"tracked", "untracked"} /\ held[s] = NoJob
  /\ phase' = [phase EXCEPT ![s] = IF @ = "tracked" THEN "leaving" ELSE "uncounting"]
  /\ total' = total - 1
  /\ Contended
  /\ UNCHANGED <<untracked, stale, roster, held, watch>>

\* An event loses a session that will not be notified any more.
Without(e, s) ==
  IF s \in e.pending THEN [e EXCEPT !.pending = @ \ {s}, !.skipped = @ + 1] ELSE e

\* The state without session s in the events ids, and the ones that this ends.
Dropped(st, ids, s) ==
  [st EXCEPT !.events = [i \in Ids |-> IF i \in ids THEN Without(st.events[i], s) ELSE st.events[i]]]
Emptied(st, ids, s) == {i \in ids : st.events[i].pending = {s}}

\* ... then taken off the roster and off every event that waits for it.
TakeOff(s) ==
  /\ phase[s] = "leaving"
  /\ phase' = [phase EXCEPT ![s] = "gone"]
  /\ \/ /\ stale' = stale + 1
        /\ Contended
        /\ UNCHANGED roster
     \/ LET st == [state EXCEPT !.completed = {}]
        IN  /\ roster' = roster \ {s}
            /\ state' = finish_fanout_locked(Dropped(st, Ids, s), Emptied(st, Ids, s),
                                             "session_disconnected")
            /\ UNCHANGED stale
  /\ UNCHANGED <<total, untracked, held, watch>>

ForgetUntracked(s) ==
  /\ phase[s] = "uncounting"
  /\ phase' = [phase EXCEPT ![s] = "gone"]
  /\ untracked' = untracked - 1
  /\ Contended
  /\ UNCHANGED <<total, stale, roster, held, watch>>

\* The last outcome of an event's fanout.
FanoutReason(e) ==
  IF e.failed > 0 THEN "partial_notify_failure"
  ELSE IF e.skipped > 0 THEN "partial_notify_skip" ELSE "all_notified"

Heard(e, s, outcome) ==
  [e EXCEPT !.pending = @ \ {s},
            !.success = IF outcome = "success" THEN @ \cup {s} ELSE @,
            !.failed = IF outcome = "failed" THEN @ + 1 ELSE @,
            !.skipped = IF outcome = "skipped" THEN @ + 1 ELSE @]

\* The session takes the job that is on the channel; while it writes it to the miner
\* newer jobs may be published.
TakeJob(s) ==
  /\ phase[s] \in {"tracked", "untracked"} /\ held[s] = NoJob /\ job # NoJob
  /\ held' = [held EXCEPT ![s] = job]
  /\ Contended
  /\ UNCHANGED <<sessionCounters, watch>>

\* record_fanout for the job the session took: all other events lose the session, newer
\* ones too, then the event of this job hears of it.
record_fanout(s, outcome) ==
  LET st == expire_locked(state)
      i == st.published[held[s]]
      others == Ids \ {i}
      after == finish_fanout_locked(Dropped(st, others, s), Emptied(st, others, s), "superseded")
      heard == [after EXCEPT !.events[i] = Heard(@, s, outcome)]
  IN  /\ phase[s] \in {"tracked", "untracked"} /\ held[s] # NoJob
      /\ held' = [held EXCEPT ![s] = NoJob]
      /\ \/ Contended
         \/ i = NoId /\ state' = st
         \/ i # NoId /\ i \notin InFlight(after) /\ state' = after
         \/ i # NoId /\ i \in InFlight(after) /\ s \notin after.events[i].pending /\ state' = after
         \/ /\ i # NoId /\ i \in InFlight(after) /\ s \in after.events[i].pending
            /\ state' = IF heard.events[i].pending # {} THEN heard
                        ELSE finish_fanout_locked(heard, {i}, FanoutReason(heard.events[i]))
      /\ UNCHANGED <<sessionCounters, watch>>

-----------------------------------------------------------------------------

LatencyInit ==
  /\ phase = [s \in Clients |-> "new"]
  /\ total = 0 /\ untracked = 0 /\ stale = 0
  /\ roster = {}
  /\ held = [s \in Clients |-> NoJob]
  /\ state = [events |-> [i \in Ids |-> NoEvent], dedupe |-> [k \in JobIds |-> NoId],
              published |-> [j \in JobIds |-> NoId], completed |-> {}]
  /\ next_id = 0 /\ event = NoId /\ ready = FALSE /\ job = 0

LatencyNext ==
  \/ observe_upstream \/ mark_a_ready \/ mark_published \/ PublishUnmeasured
  \/ fail_event \/ expire
  \/ \E i \in Ids : EventAges(i)
  \/ \E s \in Clients :
       \/ authorize(s) \/ Enrol(s) \/ count_untracked_session(s)
       \/ Leave(s) \/ TakeOff(s) \/ ForgetUntracked(s) \/ TakeJob(s)
       \/ \E outcome \in {"success", "failed", "skipped"} : record_fanout(s, outcome)

LatencySpec == LatencyInit /\ [][LatencyNext]_latencyVars

-----------------------------------------------------------------------------
(* Properties *)

\* A complete fanout has been sent to everybody who was there when it began.
EveryoneReached ==
  \A r \in state.completed :
    r.status = "complete" /\ r.reason \in {"all_notified", "zero_sessions"}
      => r.audience \subseteq r.success

\* The two indices name exactly the events in flight, published ones in the second,
\* and nothing a session was waited for is left out of a summary.
EventsAccounted ==
  /\ \A i \in InFlight(state) :
       /\ state.dedupe[state.events[i].key] = i
       /\ state.events[i].stage = "published" =>
            state.published[state.events[i].job] = i /\ state.events[i].pending # {}
  /\ \A k \in JobIds : state.dedupe[k] # NoId => state.dedupe[k] \in InFlight(state)
  /\ \A j \in JobIds : state.published[j] # NoId => state.published[j] \in InFlight(state)
  /\ \A r \in state.completed : r.sum >= r.target

\* record_fanout and finish_locked: a fanout reported as complete to everyone was.
\* Every session that was authorized when the job was published has been sent it,
\* although sessions come and go between the counters and the roster, locks are found
\* taken, and a session may still be writing an older job; and no event is lost to the indices or found after its end.
CompleteMeansEveryone == EveryoneReached /\ EventsAccounted

=============================================================================
