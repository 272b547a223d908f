------------------------------ MODULE MCParts ------------------------------
(***************************************************************************)
(* Parts of the pool that share no state, checked side by side: every      *)
(* behaviour chooses one part and takes its steps only, so that the states *)
(* of the run are the sum, not the product, of those of the parts.         *)
(***************************************************************************)
EXTENDS
  Integers, Sessions, Migrations, Vardiff, Latency, TemplateCache, Relay, Alerts, Signing, Startup,
  MCAccounting, PayoutPolicy

CONSTANTS
  Owners, MaxPayouts, MaxFinds, Coinbase, Depth, MaxCalls

\* Two malformed frames, or one of the others, bring a ban.
OffenseLimits == [malformed_frame |-> 2, auth_failure |-> 1, invalid_share |-> 1]

\* Three jobs, one of them with two texts.
NodeTemplates == {[job |-> 1, text |-> 2]} \cup {[job |-> j, text |-> 1] : j \in 1..3}

\* What alerts may be about: each way of handling a kind, and two of one kind.
AlertSubjects ==
  [service_health |-> {1}, no_accepted_shares |-> {1}, template_age |-> {},
   block_submission |-> {1, 2}, payout_stuck |-> {1}, worker_offline |-> {1},
   share_quality |-> {}]

\* Nodes a and b; one file lets the template node take blocks, one does not.
Url(host) == [host |-> host, slash |-> FALSE, https |-> FALSE]
Slashed(host) == [Url(host) EXCEPT !.slash = TRUE]
Secure(host) == [Url(host) EXCEPT !.https = TRUE]
Node(host, roles) == [url |-> Url(host), roles |-> roles]
StartFiles == {<<Node("a", {"template", "submit"}), Node("b", {"submit"})>>,
               <<Node("a", {"template"}), Node("b", {"submit"})>>}
StartNodeUrls == {NoUrl, Url(""), Url("a")}
StartSubmitUrls == {NoUrl, Slashed("a"), Url("b")}
StartSecondaryUrls == {NoUrl, Url("a"), Url("b")}
StartSentinelUrls == {NoUrl, Slashed("a"), Url("c"), Secure("d")}

\* Texts of amounts with two places: none, whole, with one place or two, and every way
\* a text is refused.  10 is the dot, 11 no digit, 12 alone no text.
PolicyMinimumTexts == {<<12>>, <<>>, <<11>>, <<1>>, <<0, 10, 5>>, <<0, 10, 0, 5>>, <<1, 10>>,
                       <<10, 5>>,
                       <<1, 10, 0, 0, 5>>, <<1, 10, 0, 10, 0>>, <<2, 0>>}
PolicyPreviewTexts == {<<12>>, <<0>>, <<1>>, <<3>>}
PolicyLimitTexts == {<<0, 10, 7>>, <<1, 10, 2, 5>>}

\* Balances below, at and above the limits, alone and together.
Owed(miner, confirmed) == [miner |-> miner, confirmed |-> confirmed]
PolicyBalances == {<<>>, <<Owed(1, 50)>>, <<Owed(1, 70)>>, <<Owed(1, 120)>>,
                   <<Owed(1, 60), Owed(2, 5), Owed(3, 61)>>, <<Owed(1, 100), Owed(2, 25)>>}

VARIABLES
  part,
  scene, pg_status, pg_amount, pg_today, pg_ledger, pg_balance, pg_block, pg, inner, refused,
  calls

M == INSTANCE MemoryRepository

ASSUME SessionsAssumption /\ MigrationsAssumption

doubleVars == <<scene, pg_status, pg_amount, pg_today, pg_ledger, pg_balance, pg_block, pg, inner,
                refused, calls>>
inputs == <<environment, request, response, setting, store>>

Parts == {"sessions", "vardiff", "latency", "templates", "relay", "alerts", "accounting", "startup",
          "double", "signing", "policy", "migrations"}

vars == <<part, sessionVars, vardiffVars, latencyVars, cacheVars, relayVars, alertVars,
          accountingVars, doubleVars, migrationVars, inputs>>

\* What a part may start with, or just one of it in the behaviours of another part.
StartOf(p, choices) == IF part = p THEN choices ELSE {CHOOSE x \in choices : TRUE}

\* An environment no bridge starts in, which stands in those of other parts.
NoMode == [Complete EXCEPT !.mode = "other", !.submit = FALSE]

\* A setting none of whose amounts can be read, which stands in those of other parts.
EmptyTexts ==
  [file |-> "unset", minimum |-> <<>>, batch |-> <<>>, daily |-> <<>>, manual |-> <<>>,
   preview |-> <<>>]

Init ==
  /\ part \in Parts
  /\ SessionsInit
  /\ VardiffInit /\ rate \in StartOf("vardiff", Rates)
  /\ LatencyInit
  /\ CacheInit
  /\ RelayInit
  /\ AlertsInit
  /\ AccountingInit
  /\ reward \in StartOf("accounting", Rewards) /\ fee_bps \in StartOf("accounting", Fees)
  /\ environment \in (IF part = "startup" THEN Environments ELSE {NoMode})
  /\ M!Init /\ scene \in StartOf("double", M!Scenes)
  /\ request \in StartOf("signing", Requests) /\ response \in StartOf("signing", Responses)
  /\ setting \in (IF part = "policy" THEN Settings ELSE {EmptyTexts})
  /\ store \in StartOf("policy", Stores)
  /\ MigrationsInit /\ known \in StartOf("migrations", [Processes -> MIGRATIONS])

Session ==
  /\ part = "sessions"
  /\ UNCHANGED <<part, vardiffVars, latencyVars, cacheVars, relayVars, alertVars, accountingVars,
                 doubleVars, migrationVars, inputs>>
  /\ SessionsNext

Difficulty ==
  /\ part = "vardiff"
  /\ UNCHANGED <<part, sessionVars, latencyVars, cacheVars, relayVars, alertVars, accountingVars,
                 doubleVars, migrationVars, inputs>>
  /\ VardiffNext

Telemetry ==
  /\ part = "latency"
  /\ UNCHANGED <<part, sessionVars, vardiffVars, cacheVars, relayVars, alertVars, accountingVars,
                 doubleVars, migrationVars, inputs>>
  /\ LatencyNext

Template ==
  /\ part = "templates"
  /\ UNCHANGED <<part, sessionVars, vardiffVars, latencyVars, relayVars, alertVars,
                 accountingVars, doubleVars, migrationVars, inputs>>
  /\ CacheNext

Receipt ==
  /\ part = "relay"
  /\ UNCHANGED <<part, sessionVars, vardiffVars, latencyVars, cacheVars, alertVars,
                 accountingVars, doubleVars, migrationVars, inputs>>
  /\ RelayNext

Alerting ==
  /\ part = "alerts"
  /\ UNCHANGED <<part, sessionVars, vardiffVars, latencyVars, cacheVars, relayVars,
                 accountingVars, doubleVars, migrationVars, inputs>>
  /\ AlertsNext

Division ==
  /\ part = "accounting"
  /\ UNCHANGED <<part, sessionVars, vardiffVars, latencyVars, cacheVars, relayVars, alertVars,
                 doubleVars, migrationVars, inputs>>
  /\ AccountingNext

Double ==
  /\ part = "double"
  /\ UNCHANGED <<part, sessionVars, vardiffVars, latencyVars, cacheVars, relayVars, alertVars,
                 accountingVars, migrationVars, inputs>>
  /\ M!Next

Migration ==
  /\ part = "migrations"
  /\ UNCHANGED <<part, sessionVars, vardiffVars, latencyVars, cacheVars, relayVars, alertVars,
                 accountingVars, doubleVars, inputs>>
  /\ MigrationsNext

Next ==
  Session \/ Difficulty \/ Telemetry \/ Template \/ Receipt \/ Alerting \/ Division \/ Double
    \/ Migration

Spec == Init /\ [][Next]_vars

-----------------------------------------------------------------------------
(* The properties of the parts this module extends are checked as they    *)
(* stand: in the behaviours of another part none leaves its initial state. *)
(* The others have here the names they have there.                         *)

\* A claim is asked of the behaviours of its own part; in the others nothing of it moves.
In(p, Claim) == part = p => Claim

\* InMemoryRepository: the double does what the database does, unless that refuses.
DoubleAgrees == In("double", M!DoubleAgrees)
=============================================================================
