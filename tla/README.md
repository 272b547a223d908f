# A TLA+ model of csd_pool

csd_pool is a mining pool: a Stratum bridge that hands out jobs and checks
shares, a PostgreSQL database, a set of worker commands that systemd timers
start, and an API with which operators control payouts. This directory models
the parts whose correctness depends on the order in which things happen, checks
them with TLC on small instances and proves the most important invariants with
TLAPS for every instance.

## 1. Inventory

| Part | State | Operations | Hard because | Correct if |
|---|---|---|---|---|
| Ledger (`csd-pool-db`, `append_ledger_entries`) | `ledger_entries`, `balance_cache` | append rows, idempotent by a unique index | clamped subtractions hide a wrong order | cached balances equal what the rows add up to |
| Accounting (`csd-pool-accounting`) | none | `allocate_pplns`, `select_payouts` | rounding, ties, truncation | sums are exact, the order is total |
| Payout workers (`csd-pool-workers`) | `payout_batches`, `payout_recipients`, ledger, advisory lock | create, sign, submit, reconcile | each command is a process of many statements; timers and operators overlap; nodes and signer may not answer | one batch in flight, settled once, nobody paid twice, every batch settles |
| Operator API (`csd-pool-api`) | `pool_settings`, `payout_audit_events` | pause, resume, approve, cancel, retry, preview | races every worker; the preview repeats the worker's rules | the same, the audit trail is true, the preview tells what a run would do |
| Signer client | the text stored with a batch | check an answer, store it, send it | the signer is another program | a `node_tx` that is sent pays the batch |
| Block and reward workers | `blocks`, ledger | reconcile-blocks, settle, mature, reverse | reorgs, late answers, overlapping runs, crashes | credited once, never too early, and in the end |
| Candidate submission (`csd-pool-bridge`) | latch file, journal, circuit breaker | submit to two nodes, classify, record | deadlines, lost answers, restarts | the second node is used once per claim, the row says what is known |
| Job watch (`csd-pool-bridge`) | retained jobs, invalidated parents, generations | refresh template, sentinel, publish, invalidate | two tasks and every session share it | no job on a dead parent is handed out or credited |
| Template provider (`csd-pool-node`) | cache of templates, slots, a fetch in flight | hand out a job, fetch its material, abort | a job id may be used again, an abort comes late | a candidate is built from its own template |
| Stratum sessions | per connection: authorised worker, seen shares, last jobs; `sessions`, `shares` | subscribe, authorize, submit | interleaved with job pushes, bans and failing calls | every piece of work counted once, rows of open sessions only |
| Abuse manager, connection counters | permits, offenses, bans | connect, authorize, offend, disconnect | many ways out of a session | every permit returned once, a ban cuts off |
| Variable difficulty | averages, ages, the difficulty before | record a share, retarget, suggest | rounding and lag at the bounds | shares for the difficulty before are honoured, steady miners are left alone |
| Replacement latency telemetry | events in flight, roster, atomic counters | observe, publish, notify, time out | counters outside the lock, locks that are only tried | "complete" means everybody |
| v15 relay of the node adapter | receipt matrix, replay guard | schedule, acknowledge, evict, give up | replays, limits, expiry to the millisecond | what is scheduled is counted once, acknowledged means accepted |
| Alerts and health | `alert_events`, samples | open, keep, resolve | separate calls, operator, cut runs | an undisturbed run repairs the alerts |
| Start-up and configuration | none | combine environment and file | a dozen variables, other rules for each use | a live bridge stores, and submits to the node of its jobs |
| Schema migrations | `schema_migrations` | check, execute, record under an advisory lock | releases start together and die | every migration takes effect once |
| In-memory repository | one record | the calls of PgRepository | the tests trust it | it answers as PostgreSQL would, where that does not refuse |
| Dashboard API, consensus helpers, daemon, mock node, scripts, other commands | none or none of their own | I/O, parsing, hashing | - | - |

How they meet: the template provider feeds the job watch, which feeds the
sessions; a session's share that is a block goes to candidate submission, and the
bridge records it in `blocks`; reconcile-blocks asks the watch node about it;
settle, mature and reverse write reward rows; create-payouts locks confirmed
balances; sign, submit and reconcile take a batch through signer and node; the
operator intervenes anywhere. Inside the bridge tasks share memory; everything
else communicates through the database only. Every process runs the migrations
first.

## 2. Modules

| Module | Models | Used by |
|---|---|---|
| `Ledger` | a ledger row, the unique index, what a row does to the balance buckets | `Payouts`, `Rewards` |
| `Payouts` | payout workers and operator API | `MCPayouts`, `PayoutsProofs` |
| `Accounting` | `allocate_pplns`, `select_payouts` | `MCAccounting`, `Rewards`, `PayoutPolicy`, `AccountingProofs` |
| `Rewards` | candidate rows, reconcile-blocks, settle, mature, reverse | `MCRewards`, `RewardsProofs` |
| `Jobs` | the bridge's job watch, its table of jobs, and the sessions that read both | `MCJobs`, `JobsProofs` |
| `Candidates` | block submission to two nodes, with the claim that limits the second | itself, checked directly; `CandidatesProofs` |
| `ClaimOnce` | what that claim promises, abstractly | `Candidates` (refinement) |
| `Sessions` | connections of an IP address: permits, bans, rows, duplicate shares | `MCParts`, `BridgeProofs` |
| `Vardiff` | the difficulty of a session and the miner it steers | `MCParts`, `BridgeProofs` |
| `TemplateCache` | the template provider of the parallel modes | `MCParts`, `BridgeProofs` |
| `Latency` | replacement latency telemetry | `MCParts`, `BridgeProofs` |
| `Relay` | receipts of the external relays, protocol 15 | `MCParts`, `ServicesProofs` |
| `Alerts` | check-alerts, the samples, the operator | `MCParts`, `ServicesProofs` |
| `Startup` | environment and file to a running bridge, or a refusal | `MCParts`, `BridgeProofs` |
| `Signing` | the signer's answer, stored and sent; check-signer | `MCParts`, `ServicesProofs` |
| `PayoutPolicy` | settings and amounts of payouts; both previews and create-payouts | `MCParts`, `ServicesProofs` |
| `MemoryRepository` | the in-memory repository beside PostgreSQL; instantiates `Payouts` and `Rewards` | `MCParts` |
| `Migrations` | run_migrations, migrate, check-database-runtime | `MCParts`, `ServicesProofs` |
| `LedgerProofs` | the laws of sums over finite sets, and of what ledger rows add up to | the other proof modules |
| `AccountingProofs` | theorems about `Accounting`: division and selection | `RewardsProofs`, `ServicesProofs` |
| `PayoutsProofs`, `RewardsProofs`, `JobsProofs`, `CandidatesProofs` | theorems about the module of that name | |
| `BridgeProofs` | theorems about `Sessions`, `Vardiff`, `TemplateCache`, `Latency` and `Startup` | |
| `ServicesProofs` | theorems about `Migrations`, `Alerts`, `Relay`, `Signing`, `MCAccounting` and `PayoutPolicy` | |
| `MCAccounting` | inputs for `Accounting`: windows and lists that grow, and what must hold of the results | `MCParts`, `ServicesProofs` |
| `MC...` | constants for TLC; `MCParts` puts parts that share no state side by side, and checks the properties the parts themselves state | |

### Payouts

A process `p` is one run of a command: a systemd oneshot unit, a command an
operator types, or an API request. `pc[p]` is the statement it is about to
execute; `cur`, `todo`, `used` and `draft` are its locals. Each statement or
transaction of the database, each call of the signer and each call of a node is
one step, since other processes may act between any two; what the code does in
one transaction (`create_locked_payout_batch_with_status`,
`append_ledger_entries`) is one step. `Crash` ends a run anywhere: a killed
process and a `?` that returns on a database or node error look the same to
everybody else. The advisory lock is released with the connection.

`tx[b]` says where the transaction signed for batch `b` is. A request that its
client gave up is `"underway"`: a node may handle it at any later time, also after
an operator has looked and cancelled, or never (`NodeReceives`). "confirmed" and
"failed" are taken as final, as reconcile-payouts takes them.

"Already present or mempool conflict" (`SubmitAmbiguous`) may be the answer whether
or not any node has our transaction: the conflict may be with another one that
spends the same coins. The batch becomes submitted either way.

Audit events: only the newest event of each batch is kept, which is what
`AuditTruthful` reads. After a submission, ambiguous or not, it asks that
reconcile-payouts watches the batch until the network has decided.

Not reachable, and left out: a signed batch without a payload or txid (every
statement that makes a batch signed stores both), and invalid JSON in a stored
payload. `minimum_payout_csd` is at least one base unit (a batch has no
recipient with amount zero).

### Rewards

As above, with `block` for the rows of `blocks` and `chain` for what the watch
node sees: a block is on the main chain with a number of confirmations, on a
fork, or not known. The answer of the node adapter
(`ops/csd-node-adapter/compute-substrate-pool-adapter.patch`, lines 943-1010)
is external. `deep` is a history variable: the blocks the chain has once given
`confirm_depth` confirmations. `BodyMayLag` lets the node know the header of a
block before its body, in which case the reward is missing from the answer.
The share window of a block's job is closed long before the block is confirmed,
so it is a constant. `LockPayout` stands for create-payouts, to let balances
move on before a reversal.

### Jobs

The watch task (`wpc`) reads a template, asks the sentinel, and publishes; each
session (`spc`) is a task of its own. A step is what happens between two points
where the other side can look: a health request or a template request, the
counter `current_clean_generation`, the locked part of `RetainedJobs::publish`,
`send_replace`, and in a session each read of the channel or of the table that
decides something. `get_for_submit` takes two locks one after the other, so
`Submit` and `CheckParent` are two steps; where a session only asks whether to
send a notification, the two reads and the write are one step (`Notify`), since
a publication between them has the effect of one before or after all three,
except for a job that passes the retention just then.

A job is the number of its publication. `prev`, `clean` and `genOf` are filled
in when it is published. `aged` holds the jobs published longer than the
retention ago: time passes when `JobAges` lets it, and only the next `publish`
removes them. `unseen` and `cleanUnseen` are the "changed" flags of a session's
two receivers: a watch channel keeps one value, and a receiver only knows
whether it has seen the newest. `dead` and `receipt` are history variables.

Live mode with the sentinel is modelled. A parent has a height and a chainwork,
which the sentinel compares. Nodes, miners, deadlines and the database may fail
at any point (`GiveUp`, `Disconnect`).

### Candidates and ClaimOnce

One submission is one block found by a session: eligibility, the claim, the two
requests, their deadlines, the outcome and the row. A request that was given up
may still be handled (`net`), and the bridge may die anywhere (`Crash`), after
which the claim files are what is left. `ClaimOnce` says what latch and journal
promise: a key (one for the latch, one per block hash for the journal) is spent
for ever, and at most one request is posted for it, only after it was spent.
`Candidates` implements it: `Control == INSTANCE ClaimOnce WITH posts <- ..`,
with `Control!Spec` as a property of the run.

### Sessions

Every connection is a task that gives up control at each await: reading a frame,
the database, the socket. A database call that fails may have been carried out.
`Restart` kills all tasks; numbers of sessions, and with them `extranonce1`,
start anew. Job freshness is `Jobs`, difficulty `Vardiff`. One IP address is
modelled, since addresses share nothing but the permits per payout address.

### Vardiff

The session and a miner that finds shares in proportion to its speed. Instants
are ages in milliseconds, so that a settled session returns to the same state.
The interval between shares is the expected one: the property is about the
controller, not about luck. `MinAdjust` and `Grace` are independent, as
`VardiffConfig::normalized` leaves them; the run has a grace longer than the least
time between two changes, so that several old difficulties are still in their grace
at once. The session remembers one of them, so `GraceHonoured` speaks of the last
for the whole grace and of the others (`Forgiven`) for `MinAdjust`; without that
restriction TLC refutes it. Target, factor and the average's weight are the defaults.

### TemplateCache, Latency, Relay, Alerts

These follow the code's own steps: in `TemplateCache` an abort only stops a task
at its next await; in `Latency` the atomics and the locked state are touched in
separate steps, a lock that is tried may be found taken, and a session takes a job
(`TakeJob`) and reports it (`record_fanout`) in two steps, so that it may report an
older job after a newer one was published, which takes it out of the newer event; in
`Relay` messages
are lost, delayed and delivered again around the expiry; in `Alerts` each call
is a transaction of its own and the pool changes in between.

### Startup, Signing, PayoutPolicy

Functions of an input, so their behaviours have one state for each input; the
property compares what two pieces of code, or two stages, make of it. Texts are
sequences of digits, dots and other characters; URLs and paths are records of
what the code looks at.

In `PayoutPolicy` workers and API each have their own copy of the parsing, as in the
two crates; the mutant of the run changes one of them. Both read the same file and
variables. The recipient limit is the exception: the workers' is a number in the
code, the API's comes from `CSD_POOL_PAYOUT_PREVIEW_LIMIT`. With equal limits the
preview says what the run does. With a larger one it adds up more than the run would
pay, so it may miss a batch but announces none that is not made; with a smaller one
it misses none but may announce a batch that the caps refuse.

### MemoryRepository

Each call is made to the double and to PostgreSQL, for which the model takes the
statements of `Payouts` and `Rewards` by INSTANCE and has its own for sessions,
jobs, shares, samples and alerts. Calls come one after the other, as in the
tests of the repository.

Three calls PostgreSQL refuses, and the double carries out: a share or a candidate of
a job that is not in `jobs`, a share of a session that is not in `sessions` (foreign
keys of migrations 0001), and a retry that the balances no longer cover (db 2287).
`refused` remembers that this has happened. Until then `DoubleAgrees` asks for the
same contents and answers; afterwards for no more than that the double has all that
the database has and no larger balances. A candidate recorded with a reward, which
only tests do, is listed by the double as one to settle before it is confirmed (db
4077, 4158; PostgreSQL looks at the status, 1451): of that list the property compares
the confirmed blocks.

### Migrations

A run is one transaction: what it did is its own until it commits. A release
knows a prefix of the migrations. Of the SQL only what touches `payouts_enabled`
is kept, since migration 7 is the one whose second execution does harm that no
schema shows.

## 3. Runs

| Run | Instance | Checks |
|---|---|---|
| `PayoutsWorkers` | 2 processes that run any worker, 1 crash, 2 batches, 1 miner, 2 blocks | safety, all workers overlapping, also with themselves |
| `PayoutsOperator` | 1 worker process, 1 operator process, 1 crash, late broadcasts, cancels after everything is drained | safety with operator requests |
| `PayoutsTimers` | 2 queues of timers, 3 miners, 2 recipients a batch, midnight | the daily cap, and every batch settles |
| `PayoutsCancelRace`, `PayoutsCrash` | as small as shows it | findings 1 and 2 |
| `Rewards` | any two commands overlap except two of reconcile-blocks; 2 blocks, 2 reorgs, 1 crash, lagging bodies | depth, conservation, caches |
| `RewardsCredited` | 1 block, no reorgs, 1 crash | every block is credited |
| `RewardsForkBack` | 1 block, 2 reorgs | finding 3 |
| `Jobs` | 1 session, a block and its successor, 3 jobs, 2 tip changes | the table, stale shares, the sentinel, catching up |
| `JobsLostPush` | the same with 1 tip change | finding 4 |
| `Candidates` | 2 submissions of the same or different blocks, all three modes, 1 crash | the refinement of `ClaimOnce`; rows that do not lie |
| `Parts` | 12 parts, one per behaviour: the states are the sum of theirs | one or two properties for each part, below |

Bounds. Two processes are enough for every race found in the code: no protocol
step waits for two others, and the locals of a run are what it read earlier.
Two batches are the smallest number at which "one in flight" can fail, and at
which a retry has a batch to make. One miner suffices for what is per miner;
`PayoutsTimers` has three, because selection and truncation need them. Two
reorgs let a block leave and return. `ConfirmDepth = 2` separates "seen",
"immature" and "confirmed". In `Jobs`, sessions do not act on each other, so one
shows what each of them may see of the watch; two tip changes let a node move
and return, or both nodes move; the third job can be a heartbeat after a tip
change or a second tip change. The reconnect threshold is 2 instead of the
code's 3, which only shortens the way to it.

In `Candidates` two submissions are enough for one to find the claim spent, the
breaker open or the place in flight taken by the other; with one crash either may
be cut off between claim and request. In `Parts`:

| Part | Instance |
|---|---|
| sessions | 3 places for connections, 2 per IP, 1 session per address, 2 addresses, 2 connections accepted, a restart |
| vardiff | five speeds from far below the minimum to far above it, one change of speed, three suggestions, 90 s between changes and a grace of 120 s |
| latency | 2 sessions, 2 events, 2 jobs |
| templates | 3 jobs, one of them with two texts, a cache of 2, 3 fetches |
| relay | 2 relays, 2 blocks, a matrix of 2 deliveries, a guard of 1 token, 2 moments of time |
| alerts | one kind of each treatment, two subjects of one, 3 changes, 2 runs, a list limit of 2 |
| accounting | windows of up to 3 shares of 3 miners, up to 3 balances in any order |
| startup | 2 files, every way to choose nodes, control, sentinel and database |
| double | 2 miners, 3 batches, 2 blocks; or 3 calls about mining |
| signing | up to 2 outputs in request and transaction, equal ones too |
| policy | texts for the minimum, the three limits and the preview's limit (below, at and above the run's 2), 6 lists of balances, 2 places behind the dot and 4 before |
| migrations | 2 processes of any releases, 3 migrations, 3 starts |

The limits (cache, matrix, guard, list, permits) are small so that they are
reached. Parts share no variable, so a behaviour that moves one of them says all
there is to say; what they share in the program is named in section 1. Deadlock
is not checked in `Parts` and `Candidates`, whose behaviours end at their bounds
or when every submission is made.

Fairness. A run that can take a step does (an operating system runs its
processes), and systemd starts each worker again and again, which is strong
fairness of its first step: a process may be busy with another command in
between. `SF(SubmitAccepted)` says that a node which is offered a transaction
again and again takes it once; the code cannot guarantee this, and a batch may
stay signed without it. The network decides every transaction it holds, and the
chain grows. Nothing is assumed of operators, crashes, reorgs, midnight or requests
that were given up.

Two states only an operator can end (`Stuck`): a batch is signed and the network has
decided on its transaction, because the answer to the broadcast was lost and the node
will not take it again; and a batch is submitted on an ambiguous answer although no
node has its transaction, the stuck alert of architecture.md 991-995. Either keeps
every other batch from being signed, so `EveryBatchSettles` speaks of the behaviours
in which no batch stays stuck for good.
In `Jobs` a task that can run does; a publication that has begun ends, as it
waits for nobody. The `select!` of a session is biased towards jobs, so a job
that waits is taken although frames keep coming (strong fairness of
`ReceiveJob`), and a miner that was told a job keeps sending shares of it.
Nothing is assumed of the nodes, the timers or the sentinel.

### What the runs show

They hold: at most one batch in flight, whoever runs sign-payouts; no batch
settled twice, although the workers ignore whether their status updates
changed a row; cached balances that equal the ledger; no double payment by the
workers alone, whatever answers are lost, and none by an operator who pauses
payouts and, before cancelling, waits for the runs under way and for every
broadcast that may still arrive; audit events that are never ahead of the change; rewards that add up, and are never credited early. The jobs on which shares are accepted have one parent at every moment; a
heartbeat does not undo the sentinel; stale shares are not blamed on a miner
that was not told; a miner that works ends up on the newest parent.

`Candidates`: the second node gets one request per claim over any crash
(`ClaimsAreOnce`, the refinement), and a row is called orphaned only if no node
has the block or will still get it (`RowTellsTruth`).

`Parts`: permits and counters are exact on every way out of a session
(`PermitsExact`); rows that look open are of open sessions, or of a call that
failed (`RowsAreLive`); work is counted once while the bridge runs
(`WorkCountedOnce`); a ban reaches the other connections of the address within
one request (`BanCutsOff`). A difficulty that was replaced is honoured for its
grace, or for `MinAdjust` if others have been replaced since (`GraceHonoured`), and
a steady miner sees at most six changes (`Settles`). A fanout called complete was (`CompleteMeansEveryone`).
A job gets the material of its own template, and an aborted fetch is made again
(`MaterialMatchesJob`). Relay receipts are conserved and true (`LanesConserved`,
`AckMeansAccepted`). An undisturbed run of check-alerts repairs what others left
(`QuietRunRepairs`). Rewards and payout selections are exact (`SumsToReward`,
`OwnShareNeverHurts`). No environment starts a live bridge without a database or
with candidates going to a foreign node (`StartIsSafe`). A `node_tx` that is sent to
a node pays the batch (`PaysTheRequest`); a raw answer is sent without a look at it.
The previews announce what a run would do, that of the API as far as its recipient
limit lets it (`PreviewTellsTruth`). The in-memory repository agrees with PostgreSQL
in serial use, until PostgreSQL refuses a call (`DoubleAgrees`). Every migration takes effect once (`MigratesOnce`).

Findings, each with a run that TLC shows violated:

1. `PayoutsCancelRace`: cancelling a signed batch can double-pay. Pausing payouts and
   waiting for the runs under way (`CancelPolicy = "quiesced"`) does not rule it out:
   a node may handle a request after its client gave it up and the operator looked,
   and TLC then finds the same violation of `NoDoublePay`. `PayoutsOperator` and the
   theorems therefore ask for more (`"drained"`): that no such request can reach a
   node any more.
2. `PayoutsCrash`: a crash between "confirmed" or "failed" and the ledger rows is
   never repaired; the funds stay locked.
3. `RewardsForkBack`: a block that comes back to the main chain is never credited.
4. `JobsLostPush`: a job sent between a session's read of the channel and the two
   marks after it is never notified to that session; the next job or the answer
   to a stale share repairs it.

Seen while modelling, without a run of their own:

- Two create-payouts runs that overlap can together pass the daily cap: it is
  read (workers 2028) before the insert.
- A retry needs no approval and passes no cap (db 2447; the repository's `README.md` 1080-1083).
- A retry that sign-payouts overtakes is not audited: the handler looks for the
  new batch by its status (db 2466; the repository's `README.md` 1084-1087).
- A reorg deeper than the confirmation depth is never reversed: confirmed blocks
  are not listed again (db 1408; architecture.md 939). With the timers alone
  reverse-orphans therefore has nothing to reverse.
- Overlapping reconcile-blocks runs write answers in any order (db 1418), and a
  balance may then be clamped at zero by a reversal. This is why `Rewards` lets
  any commands overlap but these two.
- A job that is past the retention and whose parent is invalid can be accepted
  if a publication drops both between the two reads of `get_for_submit` (bridge
  281-283 and 338-356), although architecture.md 685 says that old-parent shares
  are never counted. `CountedWasLive` excepts such jobs for this reason.
- Once the sentinel has invalidated the current parent, no template on it is
  published until node A's tip changes; if A was right there is no job on which
  shares count meanwhile. `MinersCatchUp` excepts this.
- A clean job that a heartbeat follows at once reaches a slow session as the
  heartbeat's job, not clean; the resync repairs it.
- `read_line` in the `select!` of a session is not cancellation safe (bridge
  1527): a job that arrives in the middle of a frame discards a part of it.
- A share is stored before its candidate is submitted (bridge 1789-1800). If the
  bridge dies in between, the candidate is lost: a second submit is a duplicate.
- `extranonce1` is the number of the connection since the start (bridge 1491).
  After a restart a miner may get one that was used before, and work of before
  would count again under another worker name. `WorkCountedOnce` therefore speaks
  of one life of the bridge.
- A second start of the bridge closes the rows of live sessions
  (`close_stale_sessions`, bridge 1078) before it fails to bind its port. With a
  config file that cannot be read, in static mode, it does so in the default
  database before it refuses to start; the API refuses at once.
- An empty `CSD_POOL_NODE_URL` counts as given for templates and as absent for
  submission; the bridge then refuses to start. The mode `" live"` needs a
  database and submission but is no mode of the template provider. Nodes are told
  apart by the text of their URLs only.
- Alerts of stuck payouts are never resolved by check-alerts, nor are alerts
  beyond the 1000 that `list_alerts` returns; the last failing sample of a node
  that was removed keeps its alert.
- The preview says `would_create_batch: false` for a batch that a run would make
  as needing approval. Preview and API take default limits when the file cannot
  be read.
- The check of a signed transaction allows more outputs than requested and does
  not look at the sum.
- The in-memory repository has no idempotency key for ledger rows, takes orphan
  reversals from the confirmed bucket, and ignores the day in the total of active
  payouts: none of this shows when workers run one after the other. What does show
  is named in section 2: no foreign keys, retries without cover, and blocks with a
  reward listed before they are confirmed. The batch of a retry without cover gives
  back its full amount when it is cancelled in the double, more than it took.
- With `CSD_POOL_PAYOUT_PREVIEW_LIMIT` below 100 the API's preview may announce a
  batch that the caps refuse, and with `0` it announces none.
- A file without `minimum_payout_csd` cannot be read (config 89), so the three
  limits it gives are not used either.
- check-database-runtime fails for an older release on a newer schema.
- The replay guard of the relay drops tokens by the wall clock: a clock that
  steps back would let an old acknowledgement in again.

## 4. Proofs

Assumptions. Each module names what its theorems assume of the constants, and TLC
evaluates it in the runs: `PayoutsAssumption`, `RewardsAssumption` and
`JobsAssumption` type the constants and say that the minimum payout, the depth, the
number of jobs and the reconnect threshold are positive; `VardiffAssumption` says what
`VardiffConfig::normalized` makes of a configuration, with any two times; `CacheAssumption`,
`LatencyAssumption`, `RelayAssumption`, `AlertsAssumption` and `AccountingAssumption`
type the bounds and say that there are finitely many clients and blocks;
`PolicyAssumption` says that texts are texts, that a list has one balance of each miner,
and that a balance has no more digits than fit. `SessionsAssumption` (finitely many
places for connections, limits that are numbers) and `MigrationsAssumption` are
hypotheses of the theorems, and `MCParts` asserts them of its instance. The theorems
about functions of an input (`StartsAreSafe`, `SignedPaysRequest`, `PreviewIsTrue`)
have the type of the input as a hypothesis. Some theorems have a further hypothesis,
which is about how the pool is operated and is spelled out below: `CancelPolicy =
"drained"`, `OneCreator` and `OneReconciler`.

Invariants that were hard to find were run with TLC before they were proved.
Each step lemma has one step per action; helper lemmas say what a class of steps
leaves alone.

**`PayoutsProofs`.** `AtMostOneInflight` is not inductive: a run that has passed the
in-flight check must know that nothing was signed since. `SigningInv` adds that
whoever is inside the locked part of sign-payouts holds the lock (`LockHeld`),
that between the check and the update no batch is in flight (`ClearToSign`,
true because only `SignMark` puts a batch in flight and only the lock's holder
can be there), and that a run works on a batch that exists (`BatchInHand`).

Settling: the workers write `payout_sent` and `payout_failed_unlock`
without looking whether the status update before them changed a row, so
`SettledOnce` rests on what a run knows of a batch it read some steps ago.
`SettlingInv` follows each run from the list it read to the rows it writes
(`RunInv`): statuses only move forward, a batch that is not signed was never sent
and is on nobody's list (`Untouched`), and a node's verdict does not change. It
gives `PaidOrRefunded` and `AuditIsTrue` for whatever commands the processes run.

`WalletIsQuiet` needs that a cancelled batch was not sent and never will be. That
holds only if operators pause, wait for the runs under way and let every broadcast
that was given up run out before they cancel (`CancelPolicy = "drained"`; run
`PayoutsCancelRace` is the counterexample otherwise): `QuietInv` says that a cancel
under way is alone (`CancelAlone`), that no submit run has a cancelled batch on
its list (`ListedNotCancelled`), and that of a cancelled batch no request is under way.

The balances: that `greatest(.., 0)` never cuts an amount short cannot be seen from
the sums over rows, which is all that `CacheRecomputable` states. `MoneyInv` adds
which batches the locked funds of a miner are for (`Open`), and which have taken
from what the miner earned (`Spent`), each with its sum. Every statement then adds
or removes one batch of one sum. `BalancesAreSums` holds for any operator;
`NobodyIsPaidTwice` compares `Spent` with the confirmed transactions and needs
`QuietInv`; `OperatorsAreSafe` is all four together.

`CapHolds`: `OneCreator` says that at most one process may run create-payouts and
none may retry a batch, which is how the timers run them. Both are needed: the
total of the day is read (`CreateReadDaily`) two statements before the insert, and
a retry compares with no cap. The invariant (`DraftFits`) is that what the creator
has read is not below the real total, since all that happens meanwhile, midnight
included, lowers it.

**`LedgerProofs`.** The laws of sums over finite sets that the above rests on. The
library's induction rules take an operator as a parameter and cannot be used, so
the induction is by a smallest counterexample: the strict subset order on the
finite subsets of a set is well-founded, hence a set of counterexamples has a
minimal member (`SmallestSet`). From there: the recursion inside the community
modules' `SumFunctionOnSet` has one solution, any member may be taken first
(`SumRemove`), and a part is no more than the whole (`SumPart`). The same argument,
for the fold in `append_ledger_entries`, says what several `reward_mature` rows of
one miner do to a balance (`AfterUnfolds`, `AfterMature`).

**`AccountingProofs`.** `PplnsIsWhole`: the quotas, rounded down, never add up to more
than there is to divide, so the `saturating_sub` of the last miner's part hides nothing,
and parts and fee are the whole reward. `PplnsIsFair` counts what rounding leaves: less
than one unit a miner, all of it to the last of the loop (`SumOneMore`, `AllocateFair`).
`OwnShareHelps` compares the divisions of two windows. If the miner is not the last, its
quota grows with its weight (`QuotaGrows`); if it is, everybody else's shrinks
(`QuotaShrinks`) and it gets what they leave. `SelectionRanks`: amount and then miner are
a total order on the balances (`PaidBeforeIsTotal`), so there is one way to sort them
(`OrderExists`, `LaterHasMoreAhead`), and the place of a balance is one more than the
number of those paid before it (`PlaceInOrder`). This is why `select_payouts` needs no
stable sort.

**`RewardsProofs`.** `CreditedOnlyWhenDeep` needs to follow the fact "was deep" from
the chain through the node's answer (`AnswerWasDeep`), the row
(`ConfirmedWasDeep`) and the list a settle run holds (`SettlingWasDeep`) to the
ledger, and that the other two commands append no new reward (`RowsAreLater`).

`RewardsConserved` brings `PplnsIsWhole` to the ledger: whichever run divides a block, and however old its list is, it
divides the coinbase (`RewardKnown`, `ListedKnown`), so that the rows of two runs
that overlap are those of one division (`DividedOnce`).

`BalancesAreRewards` (`CacheRecomputable`) has the hypothesis `OneReconciler`: the
timers start reconcile-blocks as a oneshot unit, which systemd does not start twice
at a time. With two of them TLC refutes the property: an old answer turns a
confirmed block into an orphan, and reverse-orphans takes its reward from a
confirmed balance that a payout has locked in the meantime, where `greatest(.., 0)`
cuts it short. `CacheInv` says that with one of them a block on the list of a run is
neither confirmed nor orphaned (`ReconcilesOpen`), hence a credited block stays
confirmed and nothing is ever reversed (`CreditIsFinal`); that a `reward_mature` row
has its `reward_immature` row (`MatureWasCredited`), hence what matures is no more
than what is immature; and, bucket by bucket, what a balance is (`CacheOf`).

**`JobsProofs`.** `OneLiveParent` is not inductive, because a publication takes three
steps and the table is changed in the second of them. `OnlyNewestParent` names
the parent, that of the job inserted last (`Newest`: the job in hand until it is
sent, the current one otherwise). To keep it, `UpdateTable` needs to know that a
job which is not clean has the parent of the current job (`TemplateInHand`), and
`BumpGeneration` that the number it writes to is not in the table
(`JobsAreMade`). The same invariant gives `InvalidatedIsRetained`: the sentinel
invalidates the parent of the current job, which is in the table whenever the
watch is not between its insertion and `send_replace`.
`CountedWasLive` is about a submit that looks into the table and at the
invalidated parents in two steps: `LiveInv` says what the first look proves at the
second (`SubmitsKnown`), and that the table knows a dead parent for as long as it
holds a job on it (`DeadIsInvalid`). The action properties follow from invariants of the state before
the step: a heartbeat in the hands of the watch has a parent that is not dead
(`HeartbeatLive`), and what a session counts as delivered is the generation of the
job it was told last (`DeliveredIsTold`).

**`CandidatesProofs`.** `CandidatesInv`: the outcomes a submission has in hand fit the
step it is at (`AllCoherent`), a claim on disk entitles one submission
(`OneClaimant`), and every request on the network and every row is of a submission
that made it (`RequestsKnown`, `RowsKnown`). It gives `RowTellsTruth`, and with the refinement mapping
of `Candidates` (a key's requests counted from `posted`) that every step is a step
of `ClaimOnce` or leaves it alone.

**`BridgeProofs`.** Sessions: the counters are compared with the number of connections
in certain states, so each step is a fact about cardinalities of sets that differ by
one member (`SetUpdate`). `SessionsInv` adds to the four properties that numbers of
connections are not used twice (`Numbered`), that what a connection
holds follows from where its task is (`Shape`), that work in hand is marked as seen
(`WorkMarked`), and that a ban has its cause in the counters (`BanKnown`).

`GraceIsHonoured`: a session remembers one difficulty. `OnlyPrevious` ties the ages
together: whatever was replaced less than the grace and less than `MinAdjust` ago is
the difficulty before the current one, its grace runs from its replacement, and the
next change is as far away; the one replaced last is remembered for the grace however
the two times compare.

`CacheIsSafe`: a slot is handed out for one template and never for another, so an entry
and a task that hold the same slot are about the same template, however late an abort
reaches the task (`EntriesOwn`, `TasksOwn`); hence what a task leaves in a slot is the
material of whoever finds it there.

`FanoutsAreComplete`: `CountersExact` says what the atomics are worth between their
updates and those of the roster. `EventOK` is the argument: an event that has lost
nobody still counts or waits for its whole audience, or it waits for a session that has
left and will never be complete. `Indexed` keeps the two indices and the events
together, with the events that are about to leave excepted while the lock is held. A
session that reports an older job leaves every newer event for good, as one that is
lost; `HeldOK` gives the job it holds its type.

`StartsAreSafe` is about functions of the environment: each stage that lets a start go
on proves a part of the claim, and `run_stratum_server` goes through all of them.

**`ServicesProofs`.** Migrations: whoever applies them holds the lock and has seen every
version that is applied (`OneTransaction`, `RunInOrder`), and the applied versions
are a prefix of the list.

`QuietRunsRepair`: `QuietInv` says what an undisturbed run has done at each point:
the kinds before the current one are `Repaired`, and of the current one what is not on
its list any more (`Opening`, `Resolving`).

`ReceiptsAreConserved`: the counters of a lane are compared with the deliveries that are
open (`LaneOK`); an eviction ends one delivery and opens another in one step.
`AcknowledgementsAreReal`: a token is in the guard until it has expired (`GuardKnows`),
and afterwards the check of the expiry refuses it: the two comparisons meet at the same
millisecond.

`SignedPaysRequest`: `node_tx_outputs_match_request` takes away one output for each that
was found, and `swap_remove` disturbs nothing but the order, so what is still available
is what the transaction has beyond the outputs matched so far (`MatchedLeavesRest`).

`DivisionsAreExact` and `OwnShareIsNoLoss` bring the theorems of `AccountingProofs` to
the windows and lists of `MCAccounting`.

`PreviewIsTrue`: the two copies of the parser check the same things in another order
(`ParsesAlike`, `AmountsAlike`). A smaller recipient limit selects the beginning of
what a larger one selects (`SmallerSelection`), so its total is no larger, which gives
the two implications about the API's preview. The rest of the work is in the amounts:
reading digits from the left multiplies by ten
(`ValueStepwise`); the digits `format_csd` prints are read back as the number
(`PlacesValue`), zeros behind a fraction are a power of ten (`PaddedValue`), and a text
is split at the dot it was put together with (`SplitAtDot`).

Recursive functions and the folds of the community modules appear in these proofs as
functions that satisfy an equation. Their existence, and what they compute, are shown
for numbers up to a bound by the smallest counterexample (`Climb`, `SmallestNat`).

Only model-checked:

- liveness (`EveryBatchSettles`, `CanonicalIsCredited`, `MinersCatchUp`), which is
  out of the prover's reach;
- `Settles`: how many changes a steady miner sees is a number that TLC computes for
  given speeds and limits, and no formula for it is known;
- `DoubleAgrees`: the double keeps its ledger as a bag and its balances as a fold of
  `CASE` over sets of rows, which the provers do not handle; the property speaks of the
  repository's tests, whose call sequences are short.

## 5. Not modelled

JSON, authorization, wording, metrics and the dashboard's queries; hashing and
256-bit arithmetic of the consensus helpers; the bytes of a frame; the signer's
cryptography and coin selection; forged relay signatures and the relay's wire
format; the scripts and the node adapter patch except for the answers the workers
read; backup, export and smoke commands; monitoring queries of the repositories;
the mock node, a double with fixed answers; `manual_adjustment` rows, which no
code writes. Of the shared state only the connection guard: the other counters are
written by one side and shown by the other.

## 6. Plan

Done: all modules of section 2 with their runs; the theorems of section 4.

Next:
1. Proofs: what remains of `CacheRecomputable` in `Rewards` when runs of
   reconcile-blocks overlap (a reversal that finds its reward in the bucket it looks
   in is exact), and the mining half of `DoubleAgrees`.
2. An abstract wallet account (earned, payable, reserved, paid) that `Payouts`
   with quiet cancels implements.
3. `Candidates` composed with `Rewards`, so that the status of a row is drawn from
   the submission instead of from the set of outcomes that `RowTellsTruth`
   justifies.
