----------------------------- MODULE Candidates -----------------------------
(***************************************************************************)
(* Submission of block candidates (crates/csd-pool-bridge/src/lib.rs).     *)
(*                                                                         *)
(* A session that finds a block sends it to the authority node A and, in   *)
(* the parallel modes, once more to node B, if both nodes are known to     *)
(* stand on the parent of the block and a claim that survives crashes was  *)
(* written first.  The two requests run side by side, each with a          *)
(* deadline; a node may still handle a request whose sender has given up.  *)
(* When both are over, the row of the block is written, and its first      *)
(* status is drawn from the two outcomes.                                  *)
(***************************************************************************)
EXTENDS Naturals, FiniteSets, FiniteSetsExt

CONSTANTS
  Subs,              \* submissions, numbered from 1, each made once
  Hashes,            \* candidates, numbered as they are first submitted
  Modes,             \* subset of {"single", "one_shot", "continuous_bounded"}
  MaxInFlight,       \* secondary_max_in_flight
  Threshold,         \* circuit_failure_threshold
  MaxCrashes         \* bound: restarts of the bridge

Nodes == {"A", "B"}
Parent == 0            \* the block all candidates build on
Rival == 99            \* somebody else's block on it
None == "none"
Latch == 0             \* the one claim key of one_shot
NoRow == [status |-> None, by |-> 0]

VARIABLES
  mode,      \* SecondaryCandidateControl, or "single" without a secondary
  tip,       \* tip of each node
  net,       \* requests on their way: <<node, submission>>
  took,      \* history: requests a node answered having the block
  health,    \* health_snapshot: it shows both nodes on that parent, and fit
  circuit,   \* SecondaryCircuitState
  spent,     \* claim keys that have a file
  posted,    \* history: submissions whose request went to the secondary
  sub,       \* the state of each submission
  row,       \* the row of each candidate, and who wrote it
  crashes

candidateVars == <<mode, tip, net, took, health, circuit, spent, posted, sub, row,
                   crashes>>
nodeVars == <<tip, took>>

Answers == {"accepted", "local_canonical_relay_failed", "rejected"}
NoAnswer == "no_answer"     \* "timeout" or "transport_error"

\* claim: what the claim task has returned; "running" until then.
Idle == [step |-> "idle", hash |-> 0, snap |-> FALSE, claim |-> None,
         primary |-> None, secondary |-> None]

-----------------------------------------------------------------------------
(* The nodes (external) *)

\* A node on the parent adopts a block of somebody else, or that of the other node.
NodeMoves(n) ==
  /\ tip[n] = Parent
  /\ \E b \in {Rival} \cup {tip[m] : m \in Nodes} :
       /\ b # Parent
       /\ tip' = [tip EXCEPT ![n] = b]
  /\ UNCHANGED <<mode, net, took, health, circuit, spent, posted, sub, row, crashes>>

\* The answer reaches a submission that still waits for it.
Deliver(n, p, answer) ==
  LET field == IF n = "A" THEN "primary" ELSE "secondary"
  IN  IF sub[p][field] = "waiting" THEN sub' = [sub EXCEPT ![p][field] = answer] ELSE UNCHANGED sub

\* A node handles a request, however late: a block it has is accepted again, one
\* on its tip is accepted or refused, any other is refused.
NodeHandles(n, p) ==
  /\ <<n, p>> \in net
  /\ net' = net \ {<<n, p>>}
  /\ \E answer \in Answers :
       LET h == sub[p].hash
           taken == answer # "rejected"
       IN  /\ taken => tip[n] \in {h, Parent}
           /\ tip[n] = h => answer = "accepted"
           /\ tip' = IF taken THEN [tip EXCEPT ![n] = h] ELSE tip
           /\ took' = IF taken THEN took \cup {<<n, p>>} ELSE took
           /\ Deliver(n, p, answer)
  /\ UNCHANGED <<mode, health, circuit, spent, posted, row, crashes>>

\* health_with_timeout: a node that does not answer in time is not fit.
NoHealth == FALSE

\* Heights, tips and chainwork are known and equal, the tip is the candidates'
\* parent, and B has peers.
secondary_submit_eligibility == \A n \in Nodes : tip[n] = Parent

\* refresh_health_once: both nodes are asked, concurrently and each with a deadline,
\* and what secondary_submit_eligibility will make of it is kept.  A node never
\* comes back to the parent, so reading both at once loses nothing.
refresh_health_once ==
  /\ mode # "single"
  /\ health' \in {NoHealth, secondary_submit_eligibility}
  /\ UNCHANGED <<mode, nodeVars, net, circuit, spent, posted, sub, row, crashes>>

-----------------------------------------------------------------------------
(* Submissions *)

\* The key of the claim: one latch for all candidates, or one file for each.
Key(h) == IF mode = "one_shot" THEN Latch ELSE h

\* submit_block_candidate and submit_candidate up to the first await: the health
\* is captured and the primary request sent.
Start(p, h) ==
  /\ sub[p] = Idle /\ h <= p /\ \A q \in Subs : q < p => sub[q] # Idle
  /\ sub' = [sub EXCEPT ![p] = [Idle EXCEPT !.step = IF mode = "single" THEN "done" ELSE "begin",
                                            !.hash = h, !.snap = health, !.primary = "waiting"]]
  /\ net' = net \cup {<<"A", p>>}
  /\ UNCHANGED <<mode, nodeVars, health, circuit, spent, posted, row, crashes>>

InFlight == {p \in Subs : sub[p].step \in {"claiming", "recheck", "posted"}}

Skip(p) ==
  sub' = [sub EXCEPT ![p].step = "done", ![p].secondary = "skipped", ![p].snap = FALSE]

\* The secondary branch up to the claim: it is skipped without the material of the
\* template, with the circuit open, without a permit (continuous mode), or with a
\* health that does not allow it, which one that is too old never does; else the
\* claim is given to a blocking thread.
SecondaryBegins(p) ==
  LET permit == mode = "continuous_bounded" => Cardinality(InFlight) < MaxInFlight
  IN  /\ sub[p].step = "begin"
      /\ \/ Skip(p)
         \/ /\ ~circuit.open /\ permit /\ sub[p].snap
            /\ sub' = [sub EXCEPT ![p].step = "claiming", ![p].claim = "running",
                                  ![p].snap = FALSE]
      /\ UNCHANGED <<mode, nodeVars, net, health, circuit, spent, posted, row, crashes>>

\* Mutant of Claim: the marker is looked for and written, but not created exclusively.
ClaimOverwrites(p) ==
  /\ sub[p].claim = "running"
  /\ spent' = spent \cup {Key(sub[p].hash)}
  /\ sub' = [sub EXCEPT ![p].claim = "claimed"]
  /\ UNCHANGED <<mode, nodeVars, net, health, circuit, posted, row, crashes>>

\* PersistentCandidateLatch::claim and PersistentCandidateJournal::claim, in their
\* own thread: it ends even if nobody waits for it any more.  A claim whose marker
\* cannot be written through is an error, but the file is there.
Claim(p) ==
  /\ sub[p].claim = "running"
  /\ \/ /\ Key(sub[p].hash) \in spent
        /\ sub' = [sub EXCEPT ![p].claim = "exists"]
        /\ UNCHANGED spent
     \/ /\ Key(sub[p].hash) \notin spent
        /\ spent' = spent \cup {Key(sub[p].hash)}
        /\ \E result \in {"claimed", "error"} : sub' = [sub EXCEPT ![p].claim = result]
     \/ /\ sub' = [sub EXCEPT ![p].claim = "error"]
        /\ UNCHANGED spent
  /\ UNCHANGED <<mode, nodeVars, net, health, circuit, posted, row, crashes>>

\* The claim is back, or its deadline has passed, which is a persistence failure.
ClaimReturns(p) ==
  /\ sub[p].step = "claiming"
  /\ \/ sub[p].claim = "claimed" /\ sub' = [sub EXCEPT ![p].step = "recheck"]
     \/ Skip(p)
  /\ UNCHANGED <<mode, nodeVars, net, health, circuit, spent, posted, row, crashes>>

\* The health of this moment decides again; then the full candidate is sent.
PostSecondary(p) ==
  /\ sub[p].step = "recheck"
  /\ \/ /\ health
        /\ sub' = [sub EXCEPT ![p].step = "posted", ![p].secondary = "waiting"]
        /\ net' = net \cup {<<"B", p>>}
        /\ posted' = posted \cup {p}
     \/ Skip(p) /\ UNCHANGED <<net, posted>>
  /\ UNCHANGED <<mode, nodeVars, health, circuit, spent, row, crashes>>

\* A deadline passes, or the connection fails; the request, if it is not lost, may
\* still be handled.
GiveUp(p, field) ==
  /\ sub[p][field] = "waiting"
  /\ sub' = [sub EXCEPT ![p][field] = NoAnswer]
  /\ UNCHANGED <<mode, nodeVars, net, health, circuit, spent, posted, row, crashes>>

\* SecondaryCircuitBreaker::record; the permit is released.  The count of failures is
\* compared with >= only, so it need not pass the threshold.
SecondaryEnds(p) ==
  /\ sub[p].step = "posted" /\ sub[p].secondary # "waiting"
  /\ circuit' = IF sub[p].secondary = "accepted" THEN [failures |-> 0, open |-> FALSE]
                ELSE LET failures == Min({circuit.failures + 1, Threshold})
                     IN  [failures |-> failures,
                          open |-> circuit.open \/ failures >= Threshold]
  /\ sub' = [sub EXCEPT ![p].step = "done"]
  /\ UNCHANGED <<mode, nodeVars, net, health, spent, posted, row, crashes>>

\* open_until passes; the failures still count.
CircuitCoolsDown ==
  /\ circuit.open
  /\ circuit' = [circuit EXCEPT !.open = FALSE]
  /\ UNCHANGED <<mode, nodeVars, net, health, spent, posted, sub, row, crashes>>

-----------------------------------------------------------------------------
(* The row *)

Outcomes(p) == {sub[p].primary, sub[p].secondary}

\* Mutant of initial_status: only the authority's outcome can be in doubt.
initial_status_of_authority(p) ==
  IF sub[p].primary = "accepted" THEN "submitted"
  ELSE IF sub[p].secondary = "accepted" THEN "submitted_secondary"
  ELSE IF "local_canonical_relay_failed" \in Outcomes(p) THEN "relay_failed"
  ELSE IF sub[p].primary = NoAnswer THEN "submitted"
  ELSE "orphaned"

\* The response submit_candidate makes of the two outcomes.
Response(p) ==
  [ok |-> "accepted" \in Outcomes(p), authority_ok |-> sub[p].primary = "accepted",
   relay_failed |-> "local_canonical_relay_failed" \in Outcomes(p),
   ambiguous |-> NoAnswer \in Outcomes(p)]

\* block_candidate_initial_status
initial_status(p) ==
  LET r == Response(p)
  IN  IF r.ok /\ ~ r.authority_ok THEN "submitted_secondary"
      ELSE IF r.ok /\ r.relay_failed THEN "submitted_degraded"
      ELSE IF r.relay_failed THEN "relay_failed"
      ELSE IF ~ r.ok /\ ~ r.ambiguous THEN "orphaned"
      ELSE "submitted"

\* The row is inserted unless the candidate has one.
record_block_candidate(p) ==
  row' = [row EXCEPT ![sub[p].hash] =
            IF @ = NoRow THEN [status |-> initial_status(p), by |-> p] ELSE @]

\* A claim nobody waits for may still be running.
Unheard(p) == IF sub[p].claim = "running" THEN "running" ELSE None

Over(p) == [Idle EXCEPT !.step = "over", !.hash = sub[p].hash, !.claim = Unheard(p)]

\* Both branches are over: the row is written.  If the database fails the session
\* ends and there is no row.
Record(p) ==
  /\ sub[p].step = "done" /\ sub[p].primary # "waiting"
  /\ sub' = [sub EXCEPT ![p] = Over(p)]
  /\ \/ record_block_candidate(p)
     \/ UNCHANGED row
  /\ UNCHANGED <<mode, nodeVars, net, health, circuit, spent, posted, crashes>>

\* The bridge dies and starts again: submissions, circuit and health are gone, the
\* files, the rows and the requests on their way are not.
Crash ==
  /\ crashes < MaxCrashes
  /\ crashes' = crashes + 1
  /\ sub' = [p \in Subs |-> IF sub[p] = Idle THEN Idle
                            ELSE [Over(p) EXCEPT !.claim = None]]
  /\ health' = NoHealth
  /\ circuit' = [failures |-> 0, open |-> FALSE]
  /\ UNCHANGED <<mode, nodeVars, net, spent, posted, row>>

-----------------------------------------------------------------------------

Init ==
  /\ mode \in Modes
  /\ tip = [n \in Nodes |-> Parent]
  /\ net = {}
  /\ took = {}
  /\ health = NoHealth
  /\ circuit = [failures |-> 0, open |-> FALSE]
  /\ spent = {}
  /\ posted = {}
  /\ sub = [p \in Subs |-> Idle]
  /\ row = [h \in Hashes |-> NoRow]
  /\ crashes = 0

Next ==
  \/ \E n \in Nodes : NodeMoves(n)
  \/ \E n \in Nodes, p \in Subs : NodeHandles(n, p)
  \/ refresh_health_once
  \/ \E p \in Subs, h \in Hashes : Start(p, h)
  \/ \E p \in Subs :
       \/ SecondaryBegins(p) \/ Claim(p) \/ ClaimReturns(p) \/ PostSecondary(p)
       \/ SecondaryEnds(p) \/ Record(p)
       \/ \E field \in {"primary", "secondary"} : GiveUp(p, field)
  \/ CircuitCoolsDown
  \/ Crash

Spec == Init /\ [][Next]_candidateVars

-----------------------------------------------------------------------------
(* Properties *)

Keys == Hashes \cup {Latch}

Control == INSTANCE ClaimOnce WITH
  posts <- [k \in Keys |-> Cardinality({p \in posted : Key(sub[p].hash) = k})]

\* Across restarts, claims that time out and files that are half written, node B
\* is sent at most one request per key, and only once the claim is on disk:
\* the submitter implements ClaimOnce.
ClaimsAreOnce == Control!Spec

\* A row that starts as orphaned is never looked at again, so it must mean that no
\* node has the block through this submission, nor will get it from a request
\* that is still on its way; submitted_secondary must mean that B has taken it.
RowTellsTruth ==
  \A h \in Hashes : row[h] # NoRow =>
    LET p == row[h].by
    IN  /\ row[h].status = "orphaned" =>
             \A n \in Nodes : <<n, p>> \notin took \cup net
        /\ row[h].status = "submitted_secondary" => <<"B", p>> \in took

=============================================================================
