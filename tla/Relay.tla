-------------------------------- MODULE Relay --------------------------------
(***************************************************************************)
(* Receipts of the external relays: protocol 15 of                         *)
(* ops/csd-node-adapter/v15/src/lib.rs, as one node runs it.               *)
(*                                                                         *)
(* A block that became canonical is announced to both relays.  A relay     *)
(* that fetched, validated and accepted it signs an acknowledgement, which *)
(* the node verifies once; a matrix counts what became of every delivery.  *)
(* Messages may be lost, delayed, reordered and delivered again.  Nonces   *)
(* and correlations are as unique as the pair of relay and block they are  *)
(* made for, so that pair stands for them, and a signature is the relay's  *)
(* own: the model has no forged ones.                                      *)
(***************************************************************************)
EXTENDS Naturals, Sequences, SequencesExt, FiniteSets, FiniteSetsExt

CONSTANTS
  RelayBlocks,     \* blocks, with the generation they are canonical in
  Lifetime,        \* time between the schedule and expires_unix_ms
  QueueCapacity,   \* capacity of the scheduler's queue
  MaxDeliveries,   \* MAX_TRACKED_DELIVERIES
  MaxTokens,       \* MAX_REPLAY_TOKENS
  Stages,          \* subset of {"request", "payload", "app_accept"}
  Failures,        \* subset of {"negative", "timeout", "transport", "drop", "abnormal"}
  MaxTime          \* bound: the clock

\* What the proofs need: numbers, finitely many blocks, room for a delivery, and the
\* names of LaneCounters.
ASSUME RelayAssumption ==
  /\ IsFiniteSet(RelayBlocks)
  /\ Lifetime \in Nat /\ QueueCapacity \in Nat /\ MaxTokens \in Nat /\ MaxTime \in Nat
  /\ MaxDeliveries \in Nat \ {0}
  /\ Stages \subseteq {"request", "payload", "app_accept"}
  /\ Failures \subseteq {"negative", "timeout", "transport", "drop", "abnormal"}

Relays == {"D", "E"}
Outcomes == {"ack_verified"} \cup Failures
Ends == Outcomes \cup {"drop"}
Keys == Relays \X RelayBlocks

Untracked == [terminal |-> "untracked", noted |-> {}]
NoCounts == [c \in {"scheduled", "outstanding"} \cup Stages \cup Ends |-> 0]

VARIABLES
  now,         \* now_unix_ms
  queue,       \* queue of announcements
  scheduled,   \* scheduled
  deliveries,  \* deliveries: what has been noted of each, and its end
  tracked,     \* order of the deliveries
  lanes,       \* LaneCounters of each relay
  wire,        \* announcements sent
  acks,        \* acknowledgements sent
  taken,       \* history: <<relay, block>> a relay has accepted
  guard,       \* ReplayGuard: tokens seen
  verified     \* history: how often each token was verified

relayVars == <<now, queue, scheduled, deliveries, tracked, lanes, wire, acks, taken, guard,
               verified>>
matrix == <<deliveries, tracked, lanes>>

KeyOf(a) == <<a.relay, a.block>>

-----------------------------------------------------------------------------
(* The node: BoundedRelayScheduler and ReceiptMatrix::schedule *)

Tick ==
  /\ now < MaxTime
  /\ now' = now + 1
  /\ UNCHANGED <<queue, scheduled, matrix, wire, acks, taken, guard, verified>>

\* try_schedule of a block that is canonical, persisted and at hand, with the
\* feature active: once per block, both relays or neither.  That a block found no
\* room is counted, and the block may be scheduled later.
try_schedule(b) ==
  LET announce(r) == [relay |-> r, block |-> b, expires |-> now + Lifetime]
  IN  /\ b \notin scheduled
      /\ \/ Len(queue) + 2 > QueueCapacity /\ UNCHANGED <<queue, scheduled>>
         \/ /\ Len(queue) + 2 <= QueueCapacity
            /\ queue' = queue \o <<announce("D"), announce("E")>>
            /\ scheduled' = scheduled \cup {b}
      /\ UNCHANGED <<now, matrix, wire, acks, taken, guard, verified>>

Tracks(k) == deliveries[k].terminal # "untracked"
Outstanding(k) == deliveries[k].terminal = "none"

Count(ls, r, c) == [ls EXCEPT ![r][c] = @ + 1]
CountOff(ls, r) == [ls EXCEPT ![r].outstanding = IF @ > 0 THEN @ - 1 ELSE 0]

\* Mutant of Evicted: a delivery that has ended is dropped a second time.
EvictedAgain(k) == Count(CountOff(lanes, k[1]), k[1], "drop")

\* The lanes once the oldest delivery has made room: if it was open, it is a drop.
Evicted(k) == IF Outstanding(k) THEN Count(CountOff(lanes, k[1]), k[1], "drop") ELSE lanes

\* pop, then schedule: a delivery is tracked, at the expense of the oldest one if
\* there are too many, and the announcement is sent.
Announce ==
  LET a == Head(queue)
      full == Len(tracked) >= MaxDeliveries
      kept == IF full THEN Tail(tracked) ELSE tracked
      after == IF full THEN Evicted(Head(tracked)) ELSE lanes
      opened == [terminal |-> "none", noted |-> {}]
  IN  /\ queue # <<>>
      /\ queue' = Tail(queue)
      /\ wire' = wire \cup {a}
      /\ \/ Tracks(KeyOf(a)) /\ UNCHANGED matrix
         \/ /\ ~ Tracks(KeyOf(a))
            /\ tracked' = Append(kept, KeyOf(a))
            /\ deliveries' = [k \in Keys |->
                                IF k = KeyOf(a) THEN opened
                                ELSE IF k \in Range(kept) THEN deliveries[k] ELSE Untracked]
            /\ lanes' = Count(Count(after, a.relay, "scheduled"), a.relay, "outstanding")
      /\ UNCHANGED <<now, scheduled, acks, taken, guard, verified>>

\* note_pull_request, note_payload_complete, note_application_accept: each once,
\* and nothing after the end.
note_stage(a, stage) ==
  /\ Outstanding(KeyOf(a)) /\ stage \notin deliveries[KeyOf(a)].noted
  /\ deliveries' = [deliveries EXCEPT ![KeyOf(a)].noted = @ \cup {stage}]
  /\ lanes' = Count(lanes, a.relay, stage)
  /\ UNCHANGED <<now, queue, scheduled, tracked, wire, acks, taken, guard, verified>>

\* finish: a delivery ends once.
finish(a, terminal) ==
  IF Outstanding(KeyOf(a))
  THEN /\ deliveries' = [deliveries EXCEPT ![KeyOf(a)].terminal = terminal]
       /\ lanes' = Count(CountOff(lanes, a.relay), a.relay, terminal)
       /\ UNCHANGED tracked
  ELSE UNCHANGED matrix

\* The node gives a delivery up.
Fail(a, terminal) ==
  /\ finish(a, terminal)
  /\ UNCHANGED <<now, queue, scheduled, wire, acks, taken, guard, verified>>

-----------------------------------------------------------------------------
(* The relay *)

\* Mutant of ContentMatches: the bytes are not compared with the announcement.
ContentUnchecked(a, bytes) == bytes \in RelayBlocks

ContentMatches(a, bytes) == bytes = a.block

\* receive_validate_accept_and_sign: the bytes it was given are the ones announced,
\* in time, and the application takes them; a signature never comes before that.
receive_validate_accept_and_sign(a, bytes) ==
  /\ now <= a.expires
  /\ ContentMatches(a, bytes)
  /\ taken' = taken \cup {<<a.relay, bytes>>}
  /\ acks' = acks \cup {a}
  /\ UNCHANGED <<now, queue, scheduled, matrix, wire, guard, verified>>

-----------------------------------------------------------------------------
(* The node: verify_application_ack *)

\* Tokens the guard keeps when it is next asked.
Unexpired(t) == t.expires >= now

\* Every field is that of the announcement; an acknowledgement that has come in
\* time and was not seen before ends its delivery.
verify_application_ack(expected, ack) ==
  LET kept == {t \in guard : Unexpired(t)}
      fresh == ack \notin kept /\ Cardinality(kept) < MaxTokens
  IN  /\ ack = expected /\ now <= ack.expires
      /\ guard' = IF fresh THEN kept \cup {ack} ELSE kept
      /\ verified' = IF fresh THEN [verified EXCEPT ![KeyOf(ack)] = Min({@ + 1, 2})] ELSE verified
      /\ IF fresh THEN finish(expected, "ack_verified") ELSE UNCHANGED matrix
      /\ UNCHANGED <<now, queue, scheduled, wire, acks, taken>>

-----------------------------------------------------------------------------

RelayInit ==
  /\ now = 0
  /\ queue = <<>>
  /\ scheduled = {}
  /\ deliveries = [k \in Keys |-> Untracked]
  /\ tracked = <<>>
  /\ lanes = [r \in Relays |-> NoCounts]
  /\ wire = {}
  /\ acks = {}
  /\ taken = {}
  /\ guard = {}
  /\ verified = [k \in Keys |-> 0]

RelayNext ==
  \/ Tick
  \/ \E b \in RelayBlocks : try_schedule(b)
  \/ Announce
  \/ \E a \in wire :
       \/ \E stage \in Stages : note_stage(a, stage)
       \/ \E terminal \in Failures : Fail(a, terminal)
       \/ \E bytes \in RelayBlocks : receive_validate_accept_and_sign(a, bytes)
       \/ \E ack \in acks : verify_application_ack(a, ack)

RelaySpec == RelayInit /\ [][RelayNext]_relayVars

-----------------------------------------------------------------------------
(* Properties *)

\* conservation_ok: nothing scheduled is lost or counted twice, however deliveries
\* are evicted, given up and acknowledged late; what is outstanding is open, and no
\* stage is counted more often than deliveries were scheduled.
LanesConserved ==
  \A r \in Relays :
    /\ lanes[r].scheduled = lanes[r].outstanding + SumFunctionOnSet(lanes[r], Ends)
    /\ lanes[r].outstanding = Cardinality({b \in RelayBlocks : Outstanding(<<r, b>>)})
    /\ \A s \in Stages : lanes[r][s] <= lanes[r].scheduled

\* A delivery counts as acknowledged only if that relay had accepted that block.
AcceptedIfAcked ==
  \A k \in Keys : deliveries[k].terminal = "ack_verified" => k \in taken

\* "Replay": no acknowledgement is verified twice, not at the moment it expires
\* and not when the guard is full.
NoReplay == \A k \in Keys : verified[k] <= 1

\* receive_validate_accept_and_sign and ReplayGuard: a receipt is for a block the
\* relay took, and is verified once.
AckMeansAccepted == AcceptedIfAcked /\ NoReplay

=============================================================================
