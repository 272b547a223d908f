------------------------------ MODULE Rewards -------------------------------
(***************************************************************************)
(* From a found block to confirmed balances: the candidate the bridge      *)
(* records, and the workers reconcile-blocks, settle-rewards,              *)
(* mature-rewards and reverse-orphans                                      *)
(* (crates/csd-pool-workers/src/main.rs) with their queries                *)
(* (BlockRepository and RewardRepository of crates/csd-pool-db/src/lib.rs).*)
(*                                                                         *)
(* As in Payouts, a process is one run of a command, each statement,       *)
(* transaction or node call is a step, and the database is all that        *)
(* survives a run.                                                         *)
(***************************************************************************)
EXTENDS Accounting, Ledger

CONSTANTS
  Miners,        \* miner addresses, numbered in their text order
  Pool,          \* the account of rows without a miner: coalesce(miner_id, 'pool')
  MaxBlocks,     \* bound: candidates that are ever found
  BlockReward,   \* BlockReward[k]: the coinbase value of block k
  Window,        \* Window[k]: the accepted shares of block k's job, a sequence
  FeeBps,        \* pool_fee_bps()
  ConfirmDepth,  \* [pool].confirm_depth
  MaxConf,       \* bound: confirmations the chain gives a block
  MaxReorgs,     \* bound: how often a block leaves or rejoins the main chain
  BodyMayLag,    \* bound: whether a node may know a header before the block
  MaxLocks,      \* bound: payouts that lock a miner's confirmed balance
  Procs, MayRun, \* processes, and the commands each may run
  MaxCrashes     \* bound: how many runs die half way

Commands == {"reconcile", "settle", "mature", "reverse"}

Blocks  == 1 .. MaxBlocks    \* in the order of submitted_at
NoBlock == 0

ASSUME RewardsAssumption ==
  /\ Miners \subseteq Nat /\ Pool \notin Miners
  /\ {MaxBlocks, MaxConf, MaxReorgs, MaxLocks, MaxCrashes, FeeBps} \subseteq Nat
  /\ BlockReward \in [Blocks -> Nat]
  /\ Window \in [Blocks -> Seq([miner : Miners, difficulty : Nat])]
  /\ ConfirmDepth \in Nat \ {0}
  /\ BodyMayLag \in BOOLEAN
  /\ MayRun \in [Procs -> SUBSET Commands]

VARIABLES
  block,      \* blocks: status, confirmations and reward of each row
  ledger,     \* ledger_entries
  balance,    \* balance_cache
  chain,      \* where the watch node sees each block, and how deep
  deep,       \* history: the blocks that have been ConfirmDepth deep
  reorgs, crashes,
  pc, cur, todo, answer, listed, rows   \* the locals of each run

storeVars == <<block, ledger, balance>>
chainVars == <<chain, deep, reorgs>>
runVars   == <<pc, cur, todo, answer, listed, rows>>
vars      == <<storeVars, chainVars, runVars, crashes>>

Submitted == {"submitted", "submitted_secondary", "submitted_degraded", "relay_failed"}
BlockStatus == Submitted \cup {"none", "seen_on_chain", "immature", "confirmed", "orphaned"}

BlockRow == [status : BlockStatus, confirmations : Nat, reward : Nat]

\* "nowhere": refused; "away": not known to the watch node (yet).
Position == [at : {"nowhere", "away", "main", "fork"}, conf : Nat]

TypeOK ==
  /\ block \in [Blocks -> BlockRow]
  /\ \A e \in ledger : e.kind \in LedgerKind /\ e.miner \in Miners \cup {Pool} /\ e.amount \in Nat
  /\ balance \in [Miners -> Balance]
  /\ chain \in [Blocks -> Position]
  /\ deep \subseteq Blocks
  /\ reorgs \in Nat /\ crashes \in Nat
  /\ pc \in [Procs -> {"idle", "rb_query", "rb_update", "st_block", "mt_append", "ro_append"}]
  /\ cur \in [Procs -> Blocks \cup {NoBlock}]
  /\ todo \in [Procs -> SUBSET Blocks]
  /\ answer \in [Procs -> BlockRow]
  /\ listed \in [Procs -> [Blocks -> Nat]]
  /\ \A p \in Procs : \A e \in rows[p] : e.kind \in LedgerKind /\ e.miner \in Miners /\ e.amount \in Nat

NoRow    == [status |-> "none", confirmations |-> 0, reward |-> 0]
NoReward == [k \in Blocks |-> 0]

Init ==
  /\ block = [k \in Blocks |-> NoRow]
  /\ ledger = {}
  /\ balance = [m \in Miners |-> EmptyBalance]
  /\ chain = [k \in Blocks |-> [at |-> "nowhere", conf |-> 0]]
  /\ deep = {}
  /\ reorgs = 0
  /\ crashes = 0
  /\ pc = [p \in Procs |-> "idle"]
  /\ cur = [p \in Procs |-> NoBlock]
  /\ todo = [p \in Procs |-> {}]
  /\ answer = [p \in Procs |-> NoRow]
  /\ listed = [p \in Procs |-> NoReward]
  /\ rows = [p \in Procs |-> {}]

-----------------------------------------------------------------------------
(***************************************************************************)
(* Steps of a run.                                                         *)
(***************************************************************************)
At(p, label) == pc[p] = label
Goto(p, label) == pc' = [pc EXCEPT ![p] = label]
MayStart(p, command) == At(p, "idle") /\ command \in MayRun[p]

Finish(p) ==
  /\ Goto(p, "idle")
  /\ cur' = [cur EXCEPT ![p] = NoBlock]
  /\ todo' = [todo EXCEPT ![p] = {}]
  /\ answer' = [answer EXCEPT ![p] = NoRow]
  /\ listed' = [listed EXCEPT ![p] = NoReward]
  /\ rows' = [rows EXCEPT ![p] = {}]

BlockRef(k) == <<"block", k>>

\* append_ledger_entries; the pool's own row has no cached balance.
AppendRows(new) ==
  /\ ledger' = ledger \cup NewRows(ledger, new)
  /\ balance' = [m \in Miners |-> BalanceAfter(ledger, balance[m], {e \in new : e.miner = m})]

-----------------------------------------------------------------------------
(***************************************************************************)
(* The candidate.  What the node, or the two nodes, answered decides the   *)
(* status the row starts with; a refusal that leaves no doubt makes the    *)
(* block orphaned at once.  insert ... on conflict(hash) do nothing.       *)
(***************************************************************************)
SubmitOutcome ==
  {o \in [ok : BOOLEAN, secondary : BOOLEAN, relay_failed : BOOLEAN, ambiguous : BOOLEAN] :
     o.secondary => o.ok}

\* Mutant: a submission whose answer was lost counts as refused.
InitialStatusHasty(o) ==
  IF o.ok /\ o.secondary THEN "submitted_secondary"
  ELSE IF o.ok /\ o.relay_failed THEN "submitted_degraded"
  ELSE IF o.relay_failed THEN "relay_failed"
  ELSE IF ~o.ok THEN "orphaned"
  ELSE "submitted"

block_candidate_initial_status(o) ==
  IF o.ok /\ o.secondary THEN "submitted_secondary"
  ELSE IF o.ok /\ o.relay_failed THEN "submitted_degraded"
  ELSE IF o.relay_failed THEN "relay_failed"
  ELSE IF ~o.ok /\ ~o.ambiguous THEN "orphaned"
  ELSE "submitted"

\* Only a clear refusal means that no node has the block.
MayBeAt(o) == IF o.ok \/ o.relay_failed \/ o.ambiguous THEN {"main", "away"} ELSE {"nowhere"}

\* The watch node sees block k somewhere else, or deeper.
MoveTo(k, where, conf) ==
  /\ chain' = [chain EXCEPT ![k] = [at |-> where, conf |-> conf]]
  /\ deep' = IF where = "main" /\ conf >= ConfirmDepth THEN deep \cup {k} ELSE deep

record_block_candidate(k, o) ==
  block' = [block EXCEPT ![k].status = block_candidate_initial_status(o)]

FindBlock(k) ==
  /\ block[k].status = "none" /\ \A j \in Blocks : j < k => block[j].status # "none"
  /\ \E o \in SubmitOutcome :
       /\ record_block_candidate(k, o)
       /\ \E where \in MayBeAt(o) : MoveTo(k, where, IF where = "main" THEN 1 ELSE 0)
  /\ UNCHANGED <<ledger, balance, reorgs, runVars, crashes>>

-----------------------------------------------------------------------------
(***************************************************************************)
(* reconcile-blocks: list, then ask the node and write the answer down,    *)
(* block by block, oldest first.                                           *)
(***************************************************************************)
Reconcilable == Submitted \cup {"seen_on_chain", "immature"}

\* Mutant: a block one confirmation short counts as confirmed.
normalize_early(status, confirmations) ==
  IF status = "orphaned" THEN "orphaned"
  ELSE IF confirmations + 1 >= ConfirmDepth THEN "confirmed"
  ELSE IF status = "seen_on_chain" THEN "seen_on_chain"
  ELSE "submitted"

\* normalize_block_status: an orphan, whatever its depth; then by depth.
normalize_block_status(status, confirmations) ==
  IF status = "orphaned" THEN "orphaned"
  ELSE IF confirmations >= ConfirmDepth THEN "confirmed"
  ELSE IF confirmations > 0 THEN "immature"
  ELSE IF status = "seen_on_chain" THEN "seen_on_chain"
  ELSE "submitted"

\* pool_block_status of the node adapter.  A block that is not on the main
\* chain now is "orphaned" now; the reward is missing without the block's body.
BlockStatusAnswer(k, body) ==
  LET pos == chain[k]
  IN  [status        |-> CASE pos.at = "main" -> "seen_on_chain"
                           [] pos.at = "fork" -> "orphaned"
                           [] OTHER           -> "submitted",
       confirmations |-> IF pos.at = "main" THEN pos.conf ELSE 0,
       reward        |-> IF pos.at \in {"main", "fork"} /\ body THEN BlockReward[k] ELSE 0]

\* block_update_from_status
BlockUpdate(a) ==
  [status |-> normalize_block_status(a.status, a.confirmations),
   confirmations |-> a.confirmations, reward |-> a.reward]

\* Mutant: confirmed blocks are listed too, so that a later answer replaces them.
ReconcileListAll(p) ==
  /\ MayStart(p, "reconcile")
  /\ Goto(p, "rb_query")
  /\ todo' = [todo EXCEPT ![p] = {k \in Blocks : block[k].status \in Reconcilable \cup {"confirmed"}}]
  /\ UNCHANGED <<storeVars, chainVars, cur, answer, listed, rows, crashes>>

ReconcileList(p) ==
  /\ MayStart(p, "reconcile")
  /\ Goto(p, "rb_query")
  /\ todo' = [todo EXCEPT ![p] = {k \in Blocks : block[k].status \in Reconcilable}]
  /\ UNCHANGED <<storeVars, chainVars, cur, answer, listed, rows, crashes>>

ReconcileQuery(p) ==
  /\ At(p, "rb_query")
  /\ \E k \in todo[p] :
       /\ \A j \in todo[p] : k <= j
       /\ cur' = [cur EXCEPT ![p] = k]
       /\ todo' = [todo EXCEPT ![p] = @ \ {k}]
       /\ \E body \in {TRUE, ~BodyMayLag} : answer' = [answer EXCEPT ![p] = BlockUpdate(BlockStatusAnswer(k, body))]
  /\ Goto(p, "rb_update")
  /\ UNCHANGED <<storeVars, chainVars, listed, rows, crashes>>

\* update_block_status: where hash = .., whatever the status is by now.
ReconcileUpdate(p) ==
  /\ At(p, "rb_update")
  /\ block' = [block EXCEPT ![cur[p]] = answer[p]]
  /\ Goto(p, "rb_query")
  /\ UNCHANGED <<ledger, balance, chainVars, cur, todo, answer, listed, rows, crashes>>

ReconcileEnd(p) ==
  /\ At(p, "rb_query")
  /\ todo[p] = {}
  /\ Finish(p)
  /\ UNCHANGED <<storeVars, chainVars, crashes>>

Reconcile(p) == ReconcileList(p) \/ ReconcileQuery(p) \/ ReconcileUpdate(p) \/ ReconcileEnd(p)

-----------------------------------------------------------------------------
(***************************************************************************)
(* settle-rewards: confirmed blocks with a reward and no reward rows yet.  *)
(* The share window of a job is closed long before its block is confirmed. *)
(***************************************************************************)
Rows(k, kinds) == {e \in ledger : e.ref = BlockRef(k) /\ e.kind \in kinds}

Unsettled ==
  {k \in Blocks : block[k].status = "confirmed" /\ block[k].reward > 0
                  /\ Rows(k, {"reward_immature", "pool_fee"}) = {}}

SettleList(p) ==
  /\ MayStart(p, "settle")
  /\ Goto(p, "st_block")
  /\ todo' = [todo EXCEPT ![p] = Unsettled]
  /\ listed' = [listed EXCEPT ![p] = [k \in Blocks |-> IF k \in Unsettled THEN block[k].reward ELSE 0]]
  /\ UNCHANGED <<storeVars, chainVars, cur, answer, rows, crashes>>

\* Mutant: the pool's fee is booked on top of the whole reward.
reward_rows_fee_on_top(k, result) ==
  LET whole == allocate_pplns(BlockReward[k], 0, Window[k]).allocations
  IN  {Entry(m, "reward_immature", BlockRef(k), whole[m]) : m \in DOMAIN whole}
        \cup {Entry(Pool, "pool_fee", BlockRef(k), result.fee)}

reward_ledger_entries(k, result) ==
  {Entry(m, "reward_immature", BlockRef(k), result.allocations[m]) : m \in DOMAIN result.allocations}
    \cup IF result.fee > 0 THEN {Entry(Pool, "pool_fee", BlockRef(k), result.fee)} ELSE {}

\* A window that cannot be divided is skipped, and tried again by the next run.
SettleBlock(p) ==
  /\ At(p, "st_block")
  /\ \E k \in todo[p] :
       LET result == allocate_pplns(listed[p][k], FeeBps, Window[k])
       IN  /\ todo' = [todo EXCEPT ![p] = @ \ {k}]
           /\ IF result.ok THEN AppendRows(reward_ledger_entries(k, result))
                           ELSE UNCHANGED <<ledger, balance>>
  /\ UNCHANGED <<block, chainVars, pc, cur, answer, listed, rows, crashes>>

SettleEnd(p) ==
  /\ At(p, "st_block")
  /\ todo[p] = {}
  /\ Finish(p)
  /\ UNCHANGED <<storeVars, chainVars, crashes>>

Settle(p) == SettleList(p) \/ SettleBlock(p) \/ SettleEnd(p)

-----------------------------------------------------------------------------
(***************************************************************************)
(* mature-rewards and reverse-orphans: one query that makes rows out of    *)
(* the reward_immature rows, one transaction that appends them.            *)
(***************************************************************************)
\* The reward_immature rows of these blocks that have no row of this kind yet.
Pending(blocks, kind) ==
  {e \in ledger : /\ e.kind = "reward_immature"
                  /\ \E k \in blocks : e.ref = BlockRef(k)
                  /\ Inserts(ledger, [e EXCEPT !.kind = kind])}

\* Rows of another kind with the same miner, block and amount.
As(entries, kind) == {Entry(e.miner, kind, e.ref, e.amount) : e \in entries}

list_mature_reward_entries ==
  As(Pending({k \in Blocks : block[k].status = "confirmed" /\ block[k].confirmations >= ConfirmDepth},
             "reward_mature"), "reward_mature")

list_orphan_reversal_entries ==
  As(Pending({k \in Blocks : block[k].status = "orphaned"}, "reward_orphan_reversal"),
     "reward_orphan_reversal")

ListRows(p, command, new, next) ==
  /\ MayStart(p, command)
  /\ Goto(p, next)
  /\ rows' = [rows EXCEPT ![p] = new]
  /\ UNCHANGED <<storeVars, chainVars, cur, todo, answer, listed, crashes>>

AppendListed(p, here) ==
  /\ At(p, here)
  /\ AppendRows(rows[p])
  /\ Finish(p)
  /\ UNCHANGED <<block, chainVars, crashes>>

MatureList(p)    == ListRows(p, "mature", list_mature_reward_entries, "mt_append")
MatureAppend(p)  == AppendListed(p, "mt_append")
ReverseList(p)   == ListRows(p, "reverse", list_orphan_reversal_entries, "ro_append")
ReverseAppend(p) == AppendListed(p, "ro_append")

-----------------------------------------------------------------------------
(***************************************************************************)
(* The world around the workers.                                           *)
(***************************************************************************)
\* create-payouts locks all of a miner's confirmed balance (module Payouts).
Locks(m) == {e \in ledger : e.miner = m /\ e.kind = "payout_lock"}

LockPayout(m) ==
  /\ balance[m]["confirmed"] > 0
  /\ Cardinality(Locks(m)) < MaxLocks
  /\ AppendRows({Entry(m, "payout_lock", <<"payout_batch", Cardinality(Locks(m))>>,
                       balance[m]["confirmed"])})
  /\ UNCHANGED <<block, chainVars, runVars, crashes>>

\* A block reaches the watch node late.
Arrive(k) ==
  /\ chain[k].at = "away"
  /\ MoveTo(k, "main", 1)
  /\ UNCHANGED <<storeVars, reorgs, runVars, crashes>>

Extend(k) ==
  /\ chain[k].at = "main" /\ chain[k].conf < MaxConf
  /\ MoveTo(k, "main", chain[k].conf + 1)
  /\ UNCHANGED <<storeVars, reorgs, runVars, crashes>>

\* The main chain moves to a branch without the block, or back to its branch.
Reorg(k) ==
  /\ reorgs < MaxReorgs
  /\ reorgs' = reorgs + 1
  /\ \/ chain[k].at = "main" /\ MoveTo(k, "fork", 0)
     \/ chain[k].at = "fork" /\ MoveTo(k, "main", 1)
  /\ UNCHANGED <<storeVars, runVars, crashes>>

\* A run dies, or returns early on a database or node error.
Crash(p) ==
  /\ ~At(p, "idle")
  /\ crashes < MaxCrashes
  /\ crashes' = crashes + 1
  /\ Finish(p)
  /\ UNCHANGED <<storeVars, chainVars>>

Run(p) ==
  \/ Reconcile(p) \/ Settle(p)
  \/ MatureList(p) \/ MatureAppend(p) \/ ReverseList(p) \/ ReverseAppend(p)

Next ==
  \/ \E p \in Procs : Run(p) \/ Crash(p)
  \/ \E k \in Blocks : FindBlock(k) \/ Arrive(k) \/ Extend(k) \/ Reorg(k)
  \/ \E m \in Miners : LockPayout(m)

Spec == Init /\ [][Next]_vars

\* A run that can go on does, timers start each command again and again, and
\* the chain grows.
Fairness ==
  /\ \A p \in Procs : WF_vars(~At(p, "idle") /\ Run(p))
  /\ \A p \in Procs :
       SF_vars(ReconcileList(p)) /\ SF_vars(SettleList(p)) /\ SF_vars(MatureList(p)) /\ SF_vars(ReverseList(p))
  /\ \A k \in Blocks : WF_vars(Extend(k))

FairSpec == Spec /\ Fairness

-----------------------------------------------------------------------------
(***************************************************************************)
(* What must hold.                                                         *)
(***************************************************************************)
RewardRows(k) == Rows(k, {"reward_immature", "pool_fee"})

\* "Blocks must not be credited as final too early" (docs/architecture.md): a
\* block has rewards only if the chain once gave it confirm_depth
\* confirmations, also when runs overlap and answers arrive late.
CreditedOnlyWhenDeep == \A k \in Blocks : RewardRows(k) # {} => k \in deep

\* The rows of a block, the pool's fee included, add up to its coinbase, even
\* if two runs of settle-rewards divide the same block.
RewardConserved == \A k \in Blocks : RewardRows(k) # {} => TotalOf(RewardRows(k)) = BlockReward[k]

OfMiner(m, kind) == TotalOf({e \in ledger : e.miner = m /\ e.kind = kind})

\* "cached balances that can be fully recomputed" (docs/architecture.md): what
\* a miner has, over all buckets, is what its rewards minus reversals add up
\* to.  A greatest(.., 0) that cuts an amount short would break it.
CacheRecomputable ==
  \A m \in Miners :
    SumFunction(balance[m]) + OfMiner(m, "reward_orphan_reversal") = OfMiner(m, "reward_immature")

Matured(k) ==
  /\ Rows(k, {"reward_immature"}) # {}
  /\ Pending({k}, "reward_mature") = {}

\* A block that ends up deep on the main chain is paid for: its rewards mature.
CanonicalIsCredited ==
  \A k \in Blocks :
    <>[](chain[k].at = "main" /\ chain[k].conf >= ConfirmDepth) => <>Matured(k)

-----------------------------------------------------------------------------
(***************************************************************************)
(* Why no block is credited too early, as an inductive invariant.          *)
(***************************************************************************)
ChainType ==
  /\ block \in [Blocks -> BlockRow]
  /\ chain \in [Blocks -> Position]
  /\ deep \subseteq Blocks
  /\ pc \in [Procs -> {"idle", "rb_query", "rb_update", "st_block", "mt_append", "ro_append"}]
  /\ cur \in [Procs -> Blocks \cup {NoBlock}]
  /\ todo \in [Procs -> SUBSET Blocks]
  /\ answer \in [Procs -> BlockRow]
  /\ rows = [p \in Procs |-> rows[p]]

\* deep remembers what the chain has shown.
DeepRecorded ==
  \A k \in Blocks : chain[k].at = "main" /\ chain[k].conf >= ConfirmDepth => k \in deep

\* An answer that is being written down was true when the node gave it.
AnswerWasDeep ==
  \A p \in Procs : At(p, "rb_update") => /\ cur[p] \in Blocks
                                         /\ answer[p].status = "confirmed" => cur[p] \in deep

ConfirmedWasDeep == \A k \in Blocks : block[k].status = "confirmed" => k \in deep

\* The blocks a run of settle-rewards works on, on a list that may be old.
SettlingWasDeep == \A p \in Procs : At(p, "st_block") => todo[p] \subseteq deep

\* What mature-rewards and reverse-orphans append is no new reward.
LaterKinds == {"reward_mature", "reward_orphan_reversal"}
RowsAreLater == \A p \in Procs : \A e \in rows[p] : e.kind \in LaterKinds

CreditInv ==
  /\ ChainType /\ RowsAreLater /\ DeepRecorded /\ AnswerWasDeep /\ ConfirmedWasDeep
  /\ SettlingWasDeep /\ CreditedOnlyWhenDeep

-----------------------------------------------------------------------------
(***************************************************************************)
(* Why the rows of a block are its whole reward, as an inductive           *)
(* invariant.                                                              *)
(***************************************************************************)
\* What settle-rewards finds for block k, whichever run divides it.
Division(k) == allocate_pplns(BlockReward[k], FeeBps, Window[k])

\* A reward the database has, or a run is about to write, is the coinbase.
RewardKnown ==
  /\ \A k \in Blocks : block[k].reward \in {0, BlockReward[k]}
  /\ \A p \in Procs : At(p, "rb_update") => answer[p].reward \in {0, BlockReward[cur[p]]}

\* So is one on the list of a run, though the list may be old.
ListedKnown ==
  /\ listed = [p \in Procs |-> listed[p]]
  /\ \A p \in Procs : At(p, "st_block") => \A k \in todo[p] : listed[p][k] = BlockReward[k]

\* A block has no reward rows, or those of its one division.
DividedOnce ==
  \A k \in Blocks :
    RewardRows(k) # {} => /\ Division(k).ok
                          /\ RewardRows(k) = reward_ledger_entries(k, Division(k))

DivisionInv == RewardKnown /\ ListedKnown /\ DividedOnce

-----------------------------------------------------------------------------
(***************************************************************************)
(* Why the balances are what the rows add up to, as an inductive           *)
(* invariant.  It needs that one run of reconcile-blocks at a time writes  *)
(* down what a node answered: a second one may turn a block that has been  *)
(* paid for into an orphan, and its reversal takes from a balance which    *)
(* is no longer there.                                                     *)
(***************************************************************************)
OneReconciler ==
  \A p, q \in Procs : "reconcile" \in MayRun[p] /\ "reconcile" \in MayRun[q] => p = q

\* The blocks a run of reconcile-blocks still has to ask for, or to write, are
\* neither confirmed nor orphaned.
ReconcilesOpen ==
  \A p \in Procs :
    pc[p] \in {"rb_query", "rb_update"} =>
      /\ "reconcile" \in MayRun[p]
      /\ \A k \in todo[p] : block[k].status \in Reconcilable
      /\ At(p, "rb_update") => block[cur[p]].status \in Reconcilable /\ cur[p] \notin todo[p]

\* So a block that is credited stays confirmed, and nothing is ever reversed.
CreditIsFinal ==
  /\ \A k \in Blocks : RewardRows(k) # {} => block[k].status = "confirmed"
  /\ \A p \in Procs : At(p, "st_block") => \A k \in todo[p] : block[k].status = "confirmed"
  /\ \A p \in Procs : At(p, "ro_append") => rows[p] = {}
  /\ \A e \in ledger : e.kind # "reward_orphan_reversal"

\* The reward_immature row that a reward_mature row was made of.
RewardOf(e) == Entry(e.miner, "reward_immature", e.ref, e.amount)

IsRow(e) == e = Entry(e.miner, e.kind, e.ref, e.amount) /\ e.amount \in Nat

LedgerKeyed ==
  /\ IsFiniteSet(ledger)
  /\ \A e \in ledger : IsRow(e) /\ (e.kind = "reward_immature" => \E k \in Blocks : e.ref = BlockRef(k))
  /\ \A e, f \in ledger : SameKey(e, f) => e = f

\* Nothing matures that was not credited.
MatureWasCredited ==
  /\ \A e \in ledger : e.kind = "reward_mature" => RewardOf(e) \in ledger
  /\ \A p \in Procs : At(p, "mt_append") =>
       /\ IsFiniteSet(rows[p])
       /\ \A e \in rows[p] : IsRow(e) /\ e.kind = "reward_mature" /\ RewardOf(e) \in ledger

\* What is immature is what has not matured; the rest of a balance is what has.
CacheOf(m) ==
  /\ balance[m] \in Balance
  /\ balance[m]["immature"] + OfMiner(m, "reward_mature") = OfMiner(m, "reward_immature")
  /\ balance[m]["confirmed"] + balance[m]["locked"] + balance[m]["paid"] = OfMiner(m, "reward_mature")

CacheInv ==
  /\ ReconcilesOpen /\ CreditIsFinal /\ LedgerKeyed /\ MatureWasCredited
  /\ balance = [m \in Miners |-> balance[m]]
  /\ \A m \in Miners : CacheOf(m)
=============================================================================
