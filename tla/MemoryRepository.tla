-------------------------- MODULE MemoryRepository --------------------------
(***************************************************************************)
(* InMemoryRepository of crates/csd-pool-db/src/lib.rs, the double of      *)
(* PgRepository that the repository's tests and its dry runs use.          *)
(*                                                                         *)
(* Every call is made to both: to the statements of PgRepository, those of *)
(* Payouts and Rewards for the money and those below for the rest, and to  *)
(* the double, whose data is one record, inner.  The callers are the       *)
(* workers, one run after the other, as in the tests.  What the double     *)
(* leaves out is not asked: times, limits and the order of lists.          *)
(*                                                                         *)
(* Three calls PostgreSQL refuses and the double carries out: a share or a *)
(* block of a job that is not in the database, a share of a session that   *)
(* is not, and the retry of a batch that the balances no longer cover.     *)
(***************************************************************************)
EXTENDS Naturals, FiniteSets, Bags, TLC, Ledger, Accounting

CONSTANTS
  Owners,       \* miners, numbered in their text order
  MaxPayouts,   \* bound: payout batches
  MaxFinds,     \* bound: blocks found
  Coinbase,     \* the reward of the first block, of which later ones have a fraction
  Depth,        \* confirm_depth
  MaxCalls      \* bound: calls about sessions, shares, samples and alerts

VARIABLES
  scene,        \* bound: which calls a behaviour makes, about money or about mining
  pg_status, pg_amount, pg_today, pg_ledger, pg_balance, pg_block,  \* as in Payouts and Rewards
  pg,           \* the other tables of the database
  inner,        \* InMemoryData
  refused,      \* whether the database has refused a call
  calls

pgMoney == <<pg_status, pg_amount, pg_today, pg_ledger, pg_balance, pg_block>>
vars == <<scene, pgMoney, pg, inner, refused, calls>>

D == INSTANCE Payouts WITH
       Miners <- Owners, MaxBatches <- MaxPayouts, Blocks <- {}, Reward <- <<>>, Procs <- {},
       MayRun <- <<>>, MaxCrashes <- 0, DayTurns <- FALSE, CancelPolicy <- "unseen", NoProc <- 0,
       MinPayout <- 2, MaxRecipients <- 2, MaxBatchTotal <- 100, MaxDaily <- 100,
       ManualApproval <- 5, status <- pg_status, amount <- pg_amount, today <- pg_today,
       ledger <- pg_ledger, balance <- pg_balance, enabled <- TRUE, audit <- <<>>, lock <- 0,
       tx <- <<>>, pc <- <<>>, cur <- <<>>, todo <- <<>>, used <- <<>>, draft <- <<>>, crashes <- 0

G == INSTANCE Rewards WITH
       Miners <- Owners, Pool <- 0, MaxBlocks <- MaxFinds, BlockReward <- <<>>, Window <- <<>>,
       FeeBps <- 1000, ConfirmDepth <- Depth, MaxConf <- 0, MaxReorgs <- 0, BodyMayLag <- TRUE,
       MaxLocks <- 0, Procs <- {}, MayRun <- <<>>, MaxCrashes <- 0, block <- pg_block,
       ledger <- pg_ledger, balance <- pg_balance, chain <- <<>>, deep <- {}, reorgs <- 0,
       crashes <- 0, pc <- <<>>, cur <- <<>>, todo <- <<>>, answer <- <<>>, listed <- <<>>,
       rows <- <<>>

\* BTreeMap::insert
Put(map, key, value) == (key :> value) @@ map
\* entry(key).or_insert
PutNew(map, key, value) == IF key \in DOMAIN map THEN map ELSE Put(map, key, value)
Lookup(map, key, default) == IF key \in DOMAIN map THEN map[key] ELSE default

\* The first job is in the database from the start, the other when it is published.
Jobs == {1, 2}
FirstJob == 1 :> 1
NoSession == 0  \* of a share that names none

InMemoryData ==
  [ledger_entries |-> EmptyBag, balances |-> <<>>, payout_batches |-> <<>>,
   payout_statuses |-> <<>>, block_statuses |-> <<>>, reward_blocks |-> <<>>,
   sessions |-> <<>>, jobs |-> FirstJob, shares |-> {}, share_events |-> EmptyBag,
   node_samples |-> <<>>, alerts |-> <<>>]

-----------------------------------------------------------------------------
(* The double: ledger and payouts.  Only confirmed balances are kept, and a *)
(* row has no key, so that the same row is added as often as it is given.   *)

\* The balances after one entry: rows that lower a balance stop at zero and are
\* without effect for a miner that has none.
AppliedEntry(balances, e) ==
  LET held == Lookup(balances, e.miner, 0)
  IN  CASE e.kind \in {"reward_mature", "payout_failed_unlock"} /\ e.amount > 0 ->
             Put(balances, e.miner, held + e.amount)
        [] /\ e.kind \in {"reward_orphan_reversal", "payout_lock"}
           /\ e.miner \in DOMAIN balances -> Put(balances, e.miner, Monus(held, e.amount))
        [] OTHER -> balances

append_ledger_entries(d, entries) ==
  [d EXCEPT !.balances = FoldSet(LAMBDA e, b : AppliedEntry(b, e), @, entries),
            !.ledger_entries = @ (+) SetToBag(entries)]

list_payable_balances(d, minimum) ==
  {m \in DOMAIN d.balances : d.balances[m] >= minimum}

StatusIn(d, b) == Lookup(d.payout_statuses, b, "none")

\* One row of this kind for each recipient.
RecipientEntries(b, amounts, kind) ==
  {Entry(m, kind, D!BatchRef(b), amounts[m]) : m \in {n \in Owners : amounts[n] > 0}}

create_locked_payout_batch_with_status(d, b, amounts, status) ==
  IF b \in DOMAIN d.payout_batches THEN d
  ELSE append_ledger_entries([d EXCEPT !.payout_statuses = Put(@, b, status),
                                       !.payout_batches = Put(@, b, amounts)],
                             RecipientEntries(b, amounts, "payout_lock"))

\* A status is changed where it is one of these, and Ok(false) else.
StatusChanged(d, b, from, to) ==
  IF StatusIn(d, b) \in from THEN [d EXCEPT !.payout_statuses = Put(@, b, to)] ELSE d

mark_payout_signed(d, b) == StatusChanged(d, b, {"created"}, "signed")
mark_payout_submitted(d, b) == StatusChanged(d, b, {"signed", "submitted"}, "submitted")
mark_payout_confirmed(d, b) == StatusChanged(d, b, {"submitted", "signed"}, "confirmed")
mark_payout_failed(d, b) ==
  StatusChanged(d, b, {"needs_approval", "created", "signed", "submitted"}, "failed")
mark_payout_approved(d, b) == StatusChanged(d, b, {"needs_approval"}, "created")

unlock_failed_payout(d, b) ==
  append_ledger_entries(d, RecipientEntries(b, d.payout_batches[b], "payout_failed_unlock"))

mark_payout_paid(d, b) ==
  append_ledger_entries(d, RecipientEntries(b, d.payout_batches[b], "payout_sent"))

\* Mutant of cancel_payout: the balances stay locked.
cancel_payout_keeps_lock(d, b) ==
  StatusChanged(d, b, {"needs_approval", "created", "signed"}, "cancelled")

cancel_payout(d, b) ==
  LET cancelled == StatusChanged(d, b, {"needs_approval", "created", "signed"}, "cancelled")
  IN  IF cancelled = d THEN d ELSE unlock_failed_payout(cancelled, b)

retry_failed_payout(d, b, new) ==
  IF StatusIn(d, b) \in {"failed", "cancelled"}
    THEN create_locked_payout_batch_with_status(d, new, d.payout_batches[b], "created") ELSE d

list_payout_batches_by_status(d, statuses) ==
  {b \in DOMAIN d.payout_batches : StatusIn(d, b) \in statuses}

\* Of every day, not of today.
active_payout_total_today(d) ==
  MapThenSumSet(LAMBDA b : SumFunction(d.payout_batches[b]),
    list_payout_batches_by_status(d, {"needs_approval", "created", "signed", "submitted", "confirmed"}))

-----------------------------------------------------------------------------
(* The double: blocks and rewards. *)

\* A known reward makes the block one to be settled at once, whatever its status.
record_block_candidate(d, k, row) ==
  IF k \in DOMAIN d.block_statuses THEN d
  ELSE [d EXCEPT !.block_statuses = Put(@, k, row),
                 !.reward_blocks = IF row.reward > 0 THEN Put(@, k, row.reward) ELSE @]

list_blocks_to_reconcile(d) ==
  {k \in DOMAIN d.block_statuses :
     d.block_statuses[k].status \in {"submitted", "submitted_secondary", "submitted_degraded",
                                     "relay_failed", "seen_on_chain", "immature"}}

update_block_status(d, k, row) ==
  IF k \notin DOMAIN d.block_statuses THEN d
  ELSE [d EXCEPT !.block_statuses = Put(@, k, row),
                 !.reward_blocks = IF row.status = "confirmed" /\ row.reward > 0
                                     THEN Put(@, k, row.reward) ELSE @]

\* Any row about the block settles it.
list_confirmed_unsettled_blocks(d) ==
  {k \in DOMAIN d.reward_blocks : \A e \in BagToSet(d.ledger_entries) : e.ref # G!BlockRef(k)}

share_weights_for_job(d, j) ==
  LET of(m) == {s \in d.shares : s.job = j /\ s.miner = m}
      miners == {s.miner : s \in {t \in d.shares : t.job = j}}
  IN  [m \in miners |-> MapThenSumSet(LAMBDA s : s.difficulty, of(m))]

\* The immature rewards of such blocks, as rows of the kind given, unless they have one.
PendingRewards(d, Of(_), kind) ==
  LET rows == BagToSet(d.ledger_entries)
      blocks == {k \in DOMAIN d.block_statuses : Of(d.block_statuses[k])}
  IN  {[e EXCEPT !.kind = kind] :
         e \in {r \in rows : /\ r.kind = "reward_immature"
                             /\ \E k \in blocks : r.ref = G!BlockRef(k)
                             /\ \A s \in rows : ~ (s.kind = kind /\ s.miner = r.miner /\ s.ref = r.ref)}}

list_mature_reward_entries(d) ==
  PendingRewards(d, LAMBDA row : row.status = "confirmed" /\ row.confirmations >= Depth,
                 "reward_mature")

list_orphan_reversal_entries(d) ==
  PendingRewards(d, LAMBDA row : row.status = "orphaned", "reward_orphan_reversal")

-----------------------------------------------------------------------------
(* The double: sessions, jobs, shares, samples and alerts. *)

open_session(d, s) == [d EXCEPT !.sessions = PutNew(@, s.id, [record |-> s, active |-> TRUE])]

close_session(d, id) ==
  IF id \in DOMAIN d.sessions THEN [d EXCEPT !.sessions[id].active = FALSE] ELSE d

close_stale_sessions(d, instance) ==
  [d EXCEPT !.sessions = [id \in DOMAIN @ |->
     IF @[id].record.instance = instance THEN [@[id] EXCEPT !.active = FALSE] ELSE @[id]]]

update_session_difficulty(d, id, difficulty) ==
  IF id \in DOMAIN d.sessions THEN [d EXCEPT !.sessions[id].record.difficulty = difficulty] ELSE d

upsert_job(d, j, text) == [d EXCEPT !.jobs = Put(@, j, text)]

SameShare(s, t) ==
  s.job = t.job /\ s.miner = t.miner /\ s.worker = t.worker /\ s.work = t.work

insert_share(d, s) ==
  IF \E t \in d.shares : SameShare(s, t) THEN d ELSE [d EXCEPT !.shares = @ \cup {s}]

insert_share_event(d, event) == [d EXCEPT !.share_events = @ (+) SetToBag({event})]

\* The workers with enough shares and events, and too many of one kind; rates are
\* compared without division.
TooMany(accepted, rejected, stale, limits) ==
  LET total == accepted + rejected + stale
  IN  /\ total >= limits.min_total /\ total > 0
      /\ \/ 100 * rejected > limits.max_reject_pct * total
         \/ 100 * stale > limits.max_stale_pct * total

list_share_quality_alerts(d, limits) ==
  LET seen == {<<s.miner, s.worker>> : s \in d.shares}
                \cup {<<e.miner, e.worker>> : e \in BagToSet(d.share_events)}
      accepted(w) == Cardinality({s \in d.shares : <<s.miner, s.worker>> = w})
      events(w, kind) ==
        CopiesIn([miner |-> w[1], worker |-> w[2], kind |-> kind], d.share_events)
  IN  {w \in seen : TooMany(accepted(w), events(w, "rejected"), events(w, "stale"), limits)}

\* Later samples of a node replace earlier ones in latest_node_samples.
insert_node_sample(d, node, ok) == [d EXCEPT !.node_samples = Append(@, [node |-> node, ok |-> ok])]

latest_node_samples(d) ==
  FoldLeft(LAMBDA samples, s : Put(samples, s.node, s.ok), <<>>, d.node_samples)

upsert_alert(d, fingerprint) == [d EXCEPT !.alerts = Put(@, fingerprint, "active")]

resolve_alert(d, fingerprint) ==
  IF Lookup(d.alerts, fingerprint, "none") = "active"
    THEN [d EXCEPT !.alerts = Put(@, fingerprint, "resolved")] ELSE d

-----------------------------------------------------------------------------
(* The same of PgRepository.  Shares and events are kept by the id of their *)
(* worker, which the statement makes where there is none.  A call that does *)
(* not fit the foreign keys of the tables is an error and changes nothing.  *)

EmptyTables ==
  [workers |-> <<>>, sessions |-> <<>>, jobs |-> FirstJob, shares |-> {}, share_events |-> EmptyBag,
   node_samples |-> <<>>, alerts |-> <<>>]

\* miner_id_in_tx and worker_id_in_tx: insert, or update and return the id.
WithWorker(t, miner, worker) ==
  [t EXCEPT !.workers = PutNew(@, <<miner, worker>>, Cardinality(DOMAIN @) + 1)]

pg_open_session(t, s) ==
  [WithWorker(t, s.miner, s.worker) EXCEPT
     !.sessions = PutNew(@, s.id, [instance |-> s.instance, difficulty |-> s.difficulty,
                                   ended |-> FALSE])]

\* update sessions .. where
pg_update_sessions(t, Where(_, _), Set(_)) ==
  [t EXCEPT !.sessions = [id \in DOMAIN @ |-> IF Where(id, @[id]) THEN Set(@[id]) ELSE @[id]]]

pg_close_session(t, id) ==
  pg_update_sessions(t, LAMBDA i, row : i = id, LAMBDA row : [row EXCEPT !.ended = TRUE])

pg_close_stale_sessions(t, instance) ==
  pg_update_sessions(t, LAMBDA i, row : row.instance = instance /\ ~ row.ended,
                     LAMBDA row : [row EXCEPT !.ended = TRUE])

pg_update_session_difficulty(t, id, difficulty) ==
  pg_update_sessions(t, LAMBDA i, row : i = id, LAMBDA row : [row EXCEPT !.difficulty = difficulty])

pg_upsert_job(t, j, text) == [t EXCEPT !.jobs = Put(@, j, text)]

\* The foreign keys of shares: a job, and a session if one is named.
ShareFits(t, s) == s.job \in DOMAIN t.jobs /\ s.session \in DOMAIN t.sessions \cup {NoSession}

pg_insert_share(t, s) ==
  LET u == WithWorker(t, s.miner, s.worker)
      row == [job |-> s.job, worker_id |-> u.workers[<<s.miner, s.worker>>], work |-> s.work,
              difficulty |-> s.difficulty]
      conflict == \E r \in u.shares :
                    r.job = row.job /\ r.worker_id = row.worker_id /\ r.work = row.work
  IN  IF conflict THEN u ELSE [u EXCEPT !.shares = @ \cup {row}]

pg_insert_share_event(t, e) ==
  LET u == WithWorker(t, e.miner, e.worker)
  IN  [u EXCEPT !.share_events =
         @ (+) SetToBag({[worker_id |-> u.workers[<<e.miner, e.worker>>], kind |-> e.kind]})]

pg_share_weights_for_job(t, j) ==
  LET of(m) == {s \in t.shares : s.job = j /\ \E w \in DOMAIN t.workers :
                                                w[1] = m /\ t.workers[w] = s.worker_id}
      miners == {m \in Owners : of(m) # {}}
  IN  [m \in miners |-> MapThenSumSet(LAMBDA s : s.difficulty, of(m))]

\* Every worker of the table with its counts, then share_quality_alert_from_counts.
pg_list_share_quality_alerts(t, limits) ==
  LET accepted(id) == Cardinality({s \in t.shares : s.worker_id = id})
      events(id, kind) == CopiesIn([worker_id |-> id, kind |-> kind], t.share_events)
  IN  {w \in DOMAIN t.workers :
         TooMany(accepted(t.workers[w]), events(t.workers[w], "rejected"),
                 events(t.workers[w], "stale"), limits)}

pg_insert_node_sample(t, node, ok) ==
  [t EXCEPT !.node_samples = Append(@, [node |-> node, ok |-> ok])]

\* distinct on (node_name) .. order by sampled_at desc
pg_latest_node_samples(t) ==
  LET newest(n) == Max({i \in DOMAIN t.node_samples : t.node_samples[i].node = n})
  IN  [n \in {t.node_samples[i].node : i \in DOMAIN t.node_samples} |-> t.node_samples[newest(n)].ok]

pg_upsert_alert(t, fingerprint) == [t EXCEPT !.alerts = Put(@, fingerprint, "active")]

pg_resolve_alert(t, fingerprint) ==
  [t EXCEPT !.alerts = [f \in DOMAIN @ |-> IF f = fingerprint THEN "resolved" ELSE @[f]]]

-----------------------------------------------------------------------------
(* The calls *)

Scenes == {"money", "mining"}

Init ==
  /\ scene \in Scenes
  /\ pg_status = [b \in D!Batches |-> "none"]
  /\ pg_amount = [b \in D!Batches |-> D!NoDraft]
  /\ pg_today = {}
  /\ pg_ledger = {}
  /\ pg_balance = [m \in Owners |-> EmptyBalance]
  /\ pg_block = [k \in G!Blocks |-> G!NoRow]
  /\ pg = EmptyTables
  /\ inner = InMemoryData
  /\ refused = FALSE
  /\ calls = 0

\* The database does what is asked, or answers with an error.
Accepted == UNCHANGED refused
Refused == refused' = TRUE /\ UNCHANGED <<pgMoney, pg>>

MoneyCall == scene = "money" /\ UNCHANGED <<scene, pg, calls>>
Money == MoneyCall /\ Accepted

RewardOf(k) == Coinbase \div k

Found == {k \in G!Blocks : pg_block[k].status # "none"}

\* Bound: what the node answered varies for the first block only.
Answered == [ok |-> TRUE, secondary |-> FALSE, relay_failed |-> FALSE, ambiguous |-> FALSE]

\* The bridge does not know the reward of the block yet and says 0; tests say one.
Find(k) ==
  /\ MoneyCall
  /\ k \notin DOMAIN inner.block_statuses /\ \A j \in G!Blocks : j < k => j \in Found
  /\ \E o \in G!SubmitOutcome, known \in {0, RewardOf(k)}, j \in Jobs :
       /\ k > 1 => o = Answered /\ j = 1
       /\ LET row == [status |-> G!block_candidate_initial_status(o), confirmations |-> 0,
                      reward |-> known]
          IN  /\ inner' = record_block_candidate(inner, k, row)
              /\ IF j \in DOMAIN pg.jobs
                   THEN pg_block' = [pg_block EXCEPT ![k] = row] /\ Accepted
                   ELSE Refused
  /\ UNCHANGED <<pg_status, pg_amount, pg_today, pg_ledger, pg_balance>>

\* What reconcile-blocks may write: the reward is known once the node has the block.
BlockRows(reward) ==
  {[status |-> "immature", confirmations |-> 1, reward |-> reward],
   [status |-> "orphaned", confirmations |-> 0, reward |-> reward]}
    \cup [status : {"confirmed"}, confirmations : {Depth}, reward : {0, reward}]

Reconcile(k) ==
  /\ Money
  /\ pg_block[k].status \in G!Reconcilable
  /\ \E row \in BlockRows(RewardOf(k)) :
       /\ pg_block' = [pg_block EXCEPT ![k] = row]
       /\ inner' = update_block_status(inner, k, row)
  /\ UNCHANGED <<pg_status, pg_amount, pg_today, pg_ledger, pg_balance>>

\* settle-rewards, with the shares of the block's job: the only one there is.
Settle(k) ==
  LET weights == pg_share_weights_for_job(pg, 1)
      window == SetToSeq({[miner |-> m, difficulty |-> weights[m]] : m \in DOMAIN weights})
      result == allocate_pplns(pg_block[k].reward, 1000, window)
  IN  /\ Money
      /\ k \in G!Unsettled /\ result.ok
      /\ G!AppendRows(G!reward_ledger_entries(k, result))
      /\ inner' = append_ledger_entries(inner, G!reward_ledger_entries(k, result))
      /\ UNCHANGED <<pg_status, pg_amount, pg_today, pg_block>>

\* mature-rewards
Mature ==
  /\ Money
  /\ G!list_mature_reward_entries # {}
  /\ G!AppendRows(G!list_mature_reward_entries)
  /\ inner' = append_ledger_entries(inner, G!list_mature_reward_entries)
  /\ UNCHANGED <<pg_status, pg_amount, pg_today, pg_block>>

\* Ids follow the clock: none is given twice, the refused ones included.
FreshBatch(b) == D!FreshBatch(b) /\ b \notin DOMAIN inner.payout_batches

\* create-payouts
CreatePayout(b) ==
  /\ Money
  /\ FreshBatch(b) /\ D!Selected # {}
  /\ D!create_locked_payout_batch(b, D!select_payouts, D!InitialStatus(D!select_payouts))
  /\ inner' = create_locked_payout_batch_with_status(inner, b, D!select_payouts,
                                                     D!InitialStatus(D!select_payouts))
  /\ UNCHANGED pg_block

Existing == {b \in D!Batches : pg_status[b] # "none"}

\* An update of the status, whatever the status is.
Mark(b) ==
  /\ Money
  /\ \/ D!mark_payout_signed(b) /\ inner' = mark_payout_signed(inner, b)
     \/ D!mark_payout_submitted(b) /\ inner' = mark_payout_submitted(inner, b)
     \/ D!mark_payout_approved(b) /\ inner' = mark_payout_approved(inner, b)
  /\ UNCHANGED <<pg_amount, pg_today, pg_ledger, pg_balance, pg_block>>

\* reconcile-payouts: a submitted batch is confirmed and paid.
Confirm(b) ==
  /\ Money
  /\ pg_status[b] = "submitted"
  /\ D!mark_payout_confirmed(b) /\ D!mark_payout_paid(b)
  /\ inner' = mark_payout_paid(mark_payout_confirmed(inner, b), b)
  /\ UNCHANGED <<pg_amount, pg_today, pg_block>>

\* sign-payouts and reconcile-payouts: a batch fails and is unlocked.
Fail(b) ==
  /\ Money
  /\ pg_status[b] \in {"created", "submitted"}
  /\ D!mark_payout_failed(b) /\ D!unlock_failed_payout(b)
  /\ inner' = unlock_failed_payout(mark_payout_failed(inner, b), b)
  /\ UNCHANGED <<pg_amount, pg_today, pg_block>>

Cancel(b) ==
  /\ Money
  /\ D!UpdateStatus(b, D!Cancellable, "cancelled")
  /\ IF pg_status[b] \in D!Cancellable THEN D!unlock_failed_payout(b)
                                       ELSE UNCHANGED <<pg_ledger, pg_balance>>
  /\ inner' = cancel_payout(inner, b)
  /\ UNCHANGED <<pg_amount, pg_today, pg_block>>

\* Where the balances do not cover the batch, PostgreSQL rolls back and the double
\* makes it all the same, and locks what there is.
Retry(b, new) ==
  /\ MoneyCall
  /\ pg_status[b] \in {"failed", "cancelled"} /\ FreshBatch(new)
  /\ inner' = retry_failed_payout(inner, b, new)
  /\ IF D!Covered(pg_amount[b])
       THEN D!create_locked_payout_batch(new, pg_amount[b], "created") /\ Accepted
       ELSE Refused
  /\ UNCHANGED pg_block

\* Its difficulty is 1, 2 or 3 as its miner and work are.
Share(j, session, miner, worker, work) ==
  [job |-> j, session |-> session, miner |-> miner, worker |-> worker, work |-> work,
   difficulty |-> 2 * miner - work]

\* The bridge counts a share; for the money, one of the first job, before
\* anything else.
InsertShare(s) ==
  /\ scene = "money" => /\ s.job = 1 /\ s.session = NoSession /\ s.worker = 1 /\ s.work = 0
                         /\ DOMAIN inner.block_statuses = {}
  /\ calls < MaxCalls
  /\ inner' = insert_share(inner, s)
  /\ IF ShareFits(pg, s)
       THEN pg' = pg_insert_share(pg, s) /\ Accepted /\ UNCHANGED pgMoney
       ELSE Refused
  /\ calls' = calls + 1
  /\ UNCHANGED scene

MiningCall ==
  /\ scene = "mining" /\ calls < MaxCalls
  /\ calls' = calls + 1
  /\ Accepted
  /\ UNCHANGED <<scene, pgMoney>>

OpenSession(s) ==
  MiningCall /\ pg' = pg_open_session(pg, s) /\ inner' = open_session(inner, s)

CloseSessions(id, instance) ==
  /\ MiningCall
  /\ \/ pg' = pg_close_session(pg, id) /\ inner' = close_session(inner, id)
     \/ pg' = pg_close_stale_sessions(pg, instance) /\ inner' = close_stale_sessions(inner, instance)
     \/ /\ pg' = pg_update_session_difficulty(pg, id, 4)
        /\ inner' = update_session_difficulty(inner, id, 4)

UpsertJob(j, text) ==
  MiningCall /\ pg' = pg_upsert_job(pg, j, text) /\ inner' = upsert_job(inner, j, text)

InsertEvent(e) ==
  MiningCall /\ pg' = pg_insert_share_event(pg, e) /\ inner' = insert_share_event(inner, e)

InsertSample(ok) ==
  MiningCall /\ pg' = pg_insert_node_sample(pg, 1, ok) /\ inner' = insert_node_sample(inner, 1, ok)

Alert ==
  /\ MiningCall
  /\ \/ pg' = pg_upsert_alert(pg, 1) /\ inner' = upsert_alert(inner, 1)
     \/ pg' = pg_resolve_alert(pg, 1) /\ inner' = resolve_alert(inner, 1)

Next ==
  \/ \E k \in G!Blocks : Find(k) \/ Reconcile(k) \/ Settle(k)
  \/ Mature
  \/ \E b \in D!Batches : CreatePayout(b)
  \/ \E b \in Existing : Mark(b) \/ Confirm(b) \/ Fail(b) \/ Cancel(b) \/ \E c \in D!Batches : Retry(b, c)
  \/ \E m \in Owners, w \in {1, 2}, x \in {0, 1}, j \in Jobs, s \in {NoSession, 1} :
       InsertShare(Share(j, s, m, w, x))
  \/ \E i \in {1, 2} :
       \/ OpenSession([id |-> i, miner |-> 1, worker |-> i, instance |-> i, difficulty |-> 1])
       \/ CloseSessions(i, i)
       \/ UpsertJob(i, 2)
  \/ \E m \in Owners, kind \in {"rejected", "stale"} :
       InsertEvent([miner |-> m, worker |-> 1, kind |-> kind])
  \/ \E ok \in BOOLEAN : InsertSample(ok)
  \/ Alert

-----------------------------------------------------------------------------
Limits == [min_total |-> 2, max_reject_pct |-> 50, max_stale_pct |-> 40]

\* Ledger, payouts and rewards: the same rows, statuses and confirmed balances, and
\* the same answers to what the workers ask before they act.  Of blocks to settle the
\* double also lists those recorded with a reward whose row does not say so.
SameMoney ==
  /\ inner.ledger_entries = SetToBag(pg_ledger)
  /\ \A m \in Owners : Lookup(inner.balances, m, 0) = pg_balance[m]["confirmed"]
  /\ \A b \in D!Batches : StatusIn(inner, b) = pg_status[b]
  /\ list_payable_balances(inner, 2) = D!Payable
  /\ active_payout_total_today(inner) = D!active_payout_total_today
  /\ list_blocks_to_reconcile(inner) = {k \in G!Blocks : pg_block[k].status \in G!Reconcilable}
  /\ G!Unsettled = {k \in list_confirmed_unsettled_blocks(inner) :
                      inner.block_statuses[k].status = "confirmed" /\ inner.block_statuses[k].reward > 0}
  /\ \A k \in G!Unsettled : inner.reward_blocks[k] = pg_block[k].reward
  /\ list_mature_reward_entries(inner) = G!list_mature_reward_entries
  /\ list_orphan_reversal_entries(inner) = G!list_orphan_reversal_entries

\* What no refused call is about.
SameTables ==
  /\ DOMAIN inner.sessions = DOMAIN pg.sessions
  /\ \A id \in DOMAIN pg.sessions :
       /\ inner.sessions[id].active = ~ pg.sessions[id].ended
       /\ inner.sessions[id].record.difficulty = pg.sessions[id].difficulty
  /\ inner.jobs = pg.jobs
  /\ latest_node_samples(inner) = pg_latest_node_samples(pg)
  /\ inner.alerts = pg.alerts

SameShares ==
  /\ \A j \in Jobs : share_weights_for_job(inner, j) = pg_share_weights_for_job(pg, j)
  /\ list_share_quality_alerts(inner, Limits) = pg_list_share_quality_alerts(pg, Limits)

\* After a refusal: whatever the database has, the double has too, and no miner has more
\* to be paid there.  The calls that follow are about what the database has: the batch of
\* a refused retry, cancelled in the double, could give back more than it took.
HoldsAll ==
  /\ SetToBag(pg_ledger) \sqsubseteq inner.ledger_entries
  /\ \A m \in Owners : Lookup(inner.balances, m, 0) <= pg_balance[m]["confirmed"]
  /\ \A b \in D!Batches : pg_status[b] # "none" => StatusIn(inner, b) = pg_status[b]
  /\ \A k \in Found : inner.block_statuses[k] = pg_block[k]
  /\ \A j \in Jobs : \A m \in DOMAIN pg_share_weights_for_job(pg, j) :
       share_weights_for_job(inner, j)[m] >= pg_share_weights_for_job(pg, j)[m]

\* However calls of one worker after the other are put together, the double holds what
\* the database holds and answers the same, until the database refuses a call that the
\* double carries out: a test that passes with the double says something of the pool if
\* its jobs and sessions exist and no retry lacks the balance.
DoubleAgrees ==
  /\ SameTables
  /\ IF refused THEN HoldsAll ELSE SameMoney /\ SameShares
=============================================================================
