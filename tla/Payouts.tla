------------------------------ MODULE Payouts -------------------------------
(***************************************************************************)
(* Payout batches: the workers create-payouts, sign-payouts, submit-       *)
(* payouts and reconcile-payouts (crates/csd-pool-workers/src/main.rs) and *)
(* the operator's pause, resume, approve, cancel and retry                 *)
(* (crates/csd-pool-api/src/lib.rs), all working on one PostgreSQL         *)
(* database (PayoutRepository of crates/csd-pool-db/src/lib.rs).           *)
(*                                                                         *)
(* Each database statement or transaction, each call of the signer and     *)
(* each call of a node is one step; a process may be suspended, or die,    *)
(* between any two.  A process is one run of a command: a systemd oneshot  *)
(* unit, a command typed by an operator, or an API request.  The database  *)
(* is all that survives it.                                                *)
(***************************************************************************)
EXTENDS Integers, FiniteSets, FiniteSetsExt, Functions, Ledger

CONSTANTS
  Miners,           \* miner addresses, numbered in their text order
  MaxBatches,       \* bound: batches that are ever created
  Blocks,           \* bound: matured blocks that credit confirmed balances
  Reward,           \* Reward[k][m]: what block k credits to miner m
  Procs,            \* processes
  MayRun,           \* MayRun[p]: the commands process p may run
  MaxCrashes,       \* bound: how many runs die half way
  DayTurns,         \* bound: whether midnight passes
  CancelPolicy,     \* what the operator checks before cancelling a batch
  NoProc,           \* the advisory lock is free
  MinPayout,        \* [pool].minimum_payout_csd
  MaxRecipients,    \* 100 in create_payouts
  MaxBatchTotal,    \* [pool].max_payout_batch_csd
  MaxDaily,         \* [pool].max_daily_payout_csd
  ManualApproval    \* [pool].manual_payout_approval_csd

Commands == {"create", "sign", "submit", "reconcile",
             "approve", "cancel", "retry", "pause", "resume"}

ASSUME PayoutsAssumption ==
  /\ Miners \subseteq Nat
  /\ MaxBatches \in Nat
  /\ Reward \in [Blocks -> [Miners -> Nat]]
  /\ MayRun \in [Procs -> SUBSET Commands]
  /\ MaxCrashes \in Nat
  /\ DayTurns \in BOOLEAN
  /\ CancelPolicy \in {"unseen", "quiesced", "drained"}
  /\ NoProc \notin Procs
  /\ MinPayout \in Nat \ {0}
  /\ {MaxRecipients, MaxBatchTotal, MaxDaily, ManualApproval} \subseteq Nat

Batches == 1 .. MaxBatches       \* in the order of created_at
NoBatch == 0

BatchStatus == {"none", "needs_approval", "created", "signed",
                "submitted", "confirmed", "failed", "cancelled"}
Inflight == {"signed", "submitted"}
Terminal == {"confirmed", "failed", "cancelled"}

\* What became of a batch's transaction.  "underway": no node has it, but one may
\* still handle a broadcast that the client gave up.
TxState == {"none", "underway", "mempool", "confirmed", "failed"}
Unknown == {"none", "underway"}

VARIABLES
  status,     \* payout_batches.status, "none" before the row exists
  amount,     \* payout_recipients: what the batch pays each miner, 0 = not a recipient
  today,      \* batches with created_at >= current_date
  ledger,     \* ledger_entries
  balance,    \* balance_cache
  enabled,    \* pool_settings.payouts_enabled
  audit,      \* payout_audit_events: the newest event of each batch, and of the pool
  lock,       \* holder of the advisory lock 0x4353_4450_4159
  tx,         \* where the transaction of each batch is
  pc, cur, todo, used, draft,  \* the locals of each run
  crashes     \* runs that died so far

dbVars   == <<status, amount, today, ledger, balance, enabled, audit>>
runVars  == <<pc, cur, todo, used, draft>>
vars     == <<dbVars, lock, tx, runVars, crashes>>

Pcs == {"idle",
        "cr_daily", "cr_select", "cr_insert", "cr_audit",
        "sg_lock", "sg_inflight", "sg_list", "sg_call", "sg_mark", "sg_audit",
        "sg_fail", "sg_unlock", "sg_failaudit", "sg_commit",
        "sb_list", "sb_call", "sb_mark", "sb_prior", "sb_audit",
        "sb_prioraudit", "sb_defer",
        "rc_list", "rc_query", "rc_confirm", "rc_pay", "rc_audit",
        "rc_fail", "rc_unlock", "rc_failaudit",
        "cn_update", "cn_unlock", "cn_audit",
        "rt_insert", "rt_readback", "rt_audit",
        "ap_audit", "ps_audit", "rs_audit"}

AuditActions == {"none", "create", "needs_approval", "sign", "submit", "submit_ambiguous",
                 "submit_deferred", "confirm", "fail", "approve", "cancel", "retry",
                 "pause_payouts", "resume_payouts"}

\* used holds a sum of amounts and is only compared with a cap.
RunType ==
  /\ pc \in [Procs -> Pcs]
  /\ cur \in [Procs -> Batches \cup {NoBatch}]
  /\ todo \in [Procs -> SUBSET Batches]
  /\ draft \in [Procs -> [Miners -> Nat]]

StoreType ==
  /\ status \in [Batches -> BatchStatus]
  /\ amount \in [Batches -> [Miners -> Nat]]
  /\ today \subseteq Batches
  /\ \A e \in ledger : e.kind \in LedgerKind /\ e.miner \in Miners /\ e.amount \in Nat
  /\ balance \in [Miners -> Balance]
  /\ audit \in [Batches \cup {NoBatch} -> AuditActions]
  /\ enabled \in BOOLEAN
  /\ lock \in Procs \cup {NoProc}
  /\ tx \in [Batches -> TxState]
  /\ crashes \in Nat

TypeOK == StoreType /\ RunType

NoDraft == [m \in Miners |-> 0]

Init ==
  /\ status = [b \in Batches |-> "none"]
  /\ amount = [b \in Batches |-> NoDraft]
  /\ today = {}
  /\ ledger = {}
  /\ balance = [m \in Miners |-> EmptyBalance]
  /\ enabled \in BOOLEAN          \* as the operator left it
  /\ audit = [b \in Batches \cup {NoBatch} |-> "none"]
  /\ lock = NoProc
  /\ tx = [b \in Batches |-> "none"]
  /\ pc = [p \in Procs |-> "idle"]
  /\ cur = [p \in Procs |-> NoBatch]
  /\ todo = [p \in Procs |-> {}]
  /\ used = [p \in Procs |-> 0]
  /\ draft = [p \in Procs |-> NoDraft]
  /\ crashes = 0

-----------------------------------------------------------------------------
(***************************************************************************)
(* Steps of a run.                                                         *)
(***************************************************************************)
At(p, label) == pc[p] = label
Goto(p, label) == pc' = [pc EXCEPT ![p] = label]

\* The run returns, with a result or an error; its locals are gone.
Finish(p) ==
  /\ pc' = [pc EXCEPT ![p] = "idle"]
  /\ cur' = [cur EXCEPT ![p] = NoBatch]
  /\ todo' = [todo EXCEPT ![p] = {}]
  /\ used' = [used EXCEPT ![p] = 0]
  /\ draft' = [draft EXCEPT ![p] = NoDraft]

\* Step to label; no other local changes.
Continue(p, label) == Goto(p, label) /\ UNCHANGED <<cur, todo, used, draft>>

\* Step to label with batch b in hand.
Take(p, b, label) ==
  /\ Goto(p, label)
  /\ cur' = [cur EXCEPT ![p] = b]
  /\ UNCHANGED <<todo, used, draft>>

\* A process starts one of its commands.
Start(p, command, label) ==
  /\ At(p, "idle")
  /\ command \in MayRun[p]
  /\ Continue(p, label)

\* append_payout_audit: a statement of its own, after the change it records.
AuditStep(p, here, action) ==
  /\ At(p, here)
  /\ audit' = [audit EXCEPT ![cur[p]] = action]
  /\ UNCHANGED <<status, amount, today, ledger, balance, enabled, lock, tx, crashes>>

AuditAndContinue(p, here, action, next) == AuditStep(p, here, action) /\ Continue(p, next)
AuditAndFinish(p, here, action) == AuditStep(p, here, action) /\ Finish(p)

-----------------------------------------------------------------------------
(***************************************************************************)
(* The statements of PayoutRepository.                                     *)
(***************************************************************************)
Recipients(b) == {m \in Miners : amount[b][m] > 0}

WithStatus(statuses) == {b \in Batches : status[b] \in statuses}

\* update payout_batches set status = new where id = b and status in (from)
UpdateStatus(b, from, new) ==
  status' = [status EXCEPT ![b] = IF @ \in from THEN new ELSE @]

mark_payout_signed(b)    == UpdateStatus(b, {"created"}, "signed")
mark_payout_submitted(b) == UpdateStatus(b, Inflight, "submitted")
mark_payout_confirmed(b) == UpdateStatus(b, Inflight, "confirmed")
mark_payout_failed(b)    == UpdateStatus(b, {"needs_approval", "created"} \cup Inflight, "failed")
mark_payout_approved(b)  == UpdateStatus(b, {"needs_approval"}, "created")

\* append_ledger_entries of one row of this kind for each recipient of b.
BatchRef(b) == <<"payout_batch", b>>
BatchEntry(b, kind, m) == Entry(m, kind, BatchRef(b), amount[b][m])

AppendForBatch(b, kind) ==
  /\ ledger' = ledger \cup {e \in {BatchEntry(b, kind, m) : m \in Recipients(b)} : Inserts(ledger, e)}
  /\ balance' = [m \in Miners |->
                   IF m \in Recipients(b)
                     THEN ApplyEntry(ledger, balance[m], BatchEntry(b, kind, m))
                     ELSE balance[m]]

unlock_failed_payout(b) == AppendForBatch(b, "payout_failed_unlock")
mark_payout_paid(b)     == AppendForBatch(b, "payout_sent")

(***************************************************************************)
(* create_locked_payout_batch_with_status is one transaction: the batch,   *)
(* its recipients, their payout_lock rows and the balance updates, or an   *)
(* error and nothing.  The update of a balance repeats the check that the  *)
(* confirmed balance covers the amount, which the caller read earlier.     *)
(***************************************************************************)
Covered(amounts) == \A m \in Miners : amounts[m] <= balance[m]["confirmed"]

create_locked_payout_batch(b, amounts, initial) ==
  /\ Covered(amounts)
  /\ status' = [status EXCEPT ![b] = initial]
  /\ amount' = [amount EXCEPT ![b] = amounts]
  /\ today' = today \cup {b}
  /\ ledger' = ledger \cup {Entry(m, "payout_lock", BatchRef(b), amounts[m]) : m \in {n \in Miners : amounts[n] > 0}}
  /\ balance' = [m \in Miners |-> Move(balance[m], "confirmed", "locked", amounts[m])]

\* A fresh id: ids are made from the clock, so they follow creation order.
FreshBatch(b) == status[b] = "none" /\ \A c \in Batches : c < b => status[c] # "none"

\* The id of a batch made in the same millisecond exists already: on conflict
\* do nothing, and Ok(false).
IdCollides == WithStatus(BatchStatus \ {"none"}) # {}

active_payout_total_today ==
  LET active == today \cap WithStatus({"needs_approval", "created", "signed", "submitted", "confirmed"})
  IN  SumFunctionOnSet([b \in Batches |-> SumFunction(amount[b])], active)

\* list_payable_balances, then select_payouts: by amount, then by address.
Payable == {m \in Miners : balance[m]["confirmed"] >= MinPayout}

RanksBefore(m, n) ==
  \/ balance[m]["confirmed"] > balance[n]["confirmed"]
  \/ balance[m]["confirmed"] = balance[n]["confirmed"] /\ m < n

Selected == {m \in Payable : Cardinality({n \in Payable : RanksBefore(n, m)}) < MaxRecipients}

select_payouts == [m \in Miners |-> IF m \in Selected THEN balance[m]["confirmed"] ELSE 0]

-----------------------------------------------------------------------------
(***************************************************************************)
(* create-payouts.  A run that finds payouts paused changes nothing.       *)
(***************************************************************************)
CreateStart(p) ==
  /\ enabled
  /\ Start(p, "create", "cr_daily")
  /\ UNCHANGED <<dbVars, lock, tx, crashes>>

CreateReadDaily(p) ==
  /\ At(p, "cr_daily")
  /\ Goto(p, "cr_select")
  /\ used' = [used EXCEPT ![p] = active_payout_total_today]
  /\ UNCHANGED <<dbVars, lock, tx, cur, todo, draft, crashes>>

\* Mutant: the day's cap is compared with this batch alone.
WithinBatchCap(p) ==
  LET total == SumFunction(select_payouts)
  IN  total <= MaxBatchTotal /\ total <= MaxDaily

\* The selection is within the caps of one batch and of the day.
WithinCaps(p) ==
  LET total == SumFunction(select_payouts)
  IN  total <= MaxBatchTotal /\ used[p] + total <= MaxDaily

CreateSelect(p) ==
  /\ At(p, "cr_select")
  /\ Selected # {} /\ WithinCaps(p)
  /\ Goto(p, "cr_insert")
  /\ draft' = [draft EXCEPT ![p] = select_payouts]
  /\ UNCHANGED <<dbVars, lock, tx, cur, todo, used, crashes>>

CreateSkip(p) ==
  /\ At(p, "cr_select")
  /\ Selected = {} \/ ~WithinCaps(p)
  /\ Finish(p)
  /\ UNCHANGED <<dbVars, lock, tx, crashes>>

\* Mutant: a status the schema does not know.
InitialStatusPending(amounts) ==
  IF SumFunction(amounts) > ManualApproval THEN "pending_approval" ELSE "created"

InitialStatus(amounts) ==
  IF SumFunction(amounts) > ManualApproval THEN "needs_approval" ELSE "created"

CreateInsert(p) ==
  /\ At(p, "cr_insert")
  /\ \E b \in Batches :
       /\ FreshBatch(b)
       /\ create_locked_payout_batch(b, draft[p], InitialStatus(draft[p]))
       /\ Take(p, b, "cr_audit")
  /\ UNCHANGED <<enabled, audit, lock, tx, crashes>>

\* InsufficientPayoutBalance, or the id exists: the transaction is rolled back.
CreateRollback(p) ==
  /\ At(p, "cr_insert")
  /\ ~Covered(draft[p]) \/ IdCollides
  /\ Finish(p)
  /\ UNCHANGED <<dbVars, lock, tx, crashes>>

CreateAudit(p) ==
  AuditAndFinish(p, "cr_audit",
                 IF InitialStatus(draft[p]) = "created" THEN "create" ELSE "needs_approval")

Create(p) ==
  \/ CreateStart(p) \/ CreateReadDaily(p) \/ CreateSelect(p) \/ CreateSkip(p)
  \/ CreateInsert(p) \/ CreateRollback(p) \/ CreateAudit(p)

-----------------------------------------------------------------------------
(***************************************************************************)
(* sign-payouts.  Everything from sg_inflight to sg_commit happens in the  *)
(* transaction that holds the advisory lock; the statements themselves go  *)
(* through other connections and commit at once.                           *)
(***************************************************************************)
SignStart(p) ==
  /\ enabled
  /\ Start(p, "sign", "sg_lock")
  /\ UNCHANGED <<dbVars, lock, tx, crashes>>

\* Mutant: pg_try_advisory_lock with its result ignored.
SignLockTried(p) ==
  /\ At(p, "sg_lock")
  /\ lock' = IF lock = NoProc THEN p ELSE lock
  /\ Continue(p, "sg_inflight")
  /\ UNCHANGED <<dbVars, tx, crashes>>

SignLock(p) ==
  /\ At(p, "sg_lock")
  /\ lock = NoProc
  /\ lock' = p
  /\ Continue(p, "sg_inflight")
  /\ UNCHANGED <<dbVars, tx, crashes>>

\* Mutant: only submitted batches count as in flight.
SignCheckSubmitted(p) ==
  /\ At(p, "sg_inflight")
  /\ Continue(p, IF WithStatus({"submitted"}) = {} THEN "sg_list" ELSE "sg_commit")
  /\ UNCHANGED <<dbVars, lock, tx, crashes>>

\* Mutant: only signed batches count as in flight.
SignCheckSigned(p) ==
  /\ At(p, "sg_inflight")
  /\ Continue(p, IF WithStatus({"signed"}) = {} THEN "sg_list" ELSE "sg_commit")
  /\ UNCHANGED <<dbVars, lock, tx, crashes>>

SignCheckInflight(p) ==
  /\ At(p, "sg_inflight")
  /\ Continue(p, IF WithStatus(Inflight) = {} THEN "sg_list" ELSE "sg_commit")
  /\ UNCHANGED <<dbVars, lock, tx, crashes>>

\* The oldest created batch: limit 1.
SignList(p) ==
  /\ At(p, "sg_list")
  /\ \/ \E b \in WithStatus({"created"}) :
          /\ \A c \in WithStatus({"created"}) : b <= c
          /\ Take(p, b, "sg_call")
     \/ /\ WithStatus({"created"}) = {}
        /\ Continue(p, "sg_commit")
  /\ UNCHANGED <<dbVars, lock, tx, crashes>>

\* The signer answers with a transaction that validates, or it does not.
SignCall(p) ==
  /\ At(p, "sg_call")
  /\ \E answer \in {"sg_mark", "sg_fail"} : Continue(p, answer)
  /\ UNCHANGED <<dbVars, lock, tx, crashes>>

SignMark(p) ==
  /\ At(p, "sg_mark")
  /\ mark_payout_signed(cur[p])
  /\ Continue(p, IF status[cur[p]] = "created" THEN "sg_audit" ELSE "sg_commit")
  /\ UNCHANGED <<amount, today, ledger, balance, enabled, audit, lock, tx, crashes>>

SignAudit(p) == AuditAndContinue(p, "sg_audit", "sign", "sg_commit")

\* The result of mark_payout_failed is ignored: the unlock follows anyway.
FailMark(p, here, next) ==
  /\ At(p, here)
  /\ mark_payout_failed(cur[p])
  /\ Continue(p, next)
  /\ UNCHANGED <<amount, today, ledger, balance, enabled, audit, lock, tx, crashes>>

FailUnlock(p, here, next) ==
  /\ At(p, here)
  /\ unlock_failed_payout(cur[p])
  /\ Continue(p, next)
  /\ UNCHANGED <<status, amount, today, enabled, audit, lock, tx, crashes>>

SignFail(p)   == FailMark(p, "sg_fail", "sg_unlock")
SignUnlock(p) == FailUnlock(p, "sg_unlock", "sg_failaudit")

SignFailAudit(p) == AuditAndContinue(p, "sg_failaudit", "fail", "sg_commit")

\* Mutant: the lock is taken for the session and the pooled connection lives on.
SignCommitKeepsLock(p) ==
  /\ At(p, "sg_commit")
  /\ Finish(p)
  /\ UNCHANGED <<dbVars, lock, tx, crashes>>

SignCommit(p) ==
  /\ At(p, "sg_commit")
  /\ lock' = NoProc
  /\ Finish(p)
  /\ UNCHANGED <<dbVars, tx, crashes>>

Sign(p) ==
  \/ SignStart(p) \/ SignLock(p) \/ SignCheckInflight(p) \/ SignList(p)
  \/ SignCall(p) \/ SignMark(p) \/ SignAudit(p) \/ SignFail(p)
  \/ SignUnlock(p) \/ SignFailAudit(p) \/ SignCommit(p)

-----------------------------------------------------------------------------
(***************************************************************************)
(* submit-payouts and reconcile-payouts list batches once and go through   *)
(* the list: a batch may have changed by the time its turn comes.  The     *)
(* limits of the two queries (10 and 100) are never reached, since at most *)
(* one batch is in flight (AtMostOneInflight).                             *)
(***************************************************************************)
ListBatches(p, here, s, next) ==
  /\ At(p, here)
  /\ Goto(p, next)
  /\ todo' = [todo EXCEPT ![p] = WithStatus({s})]
  /\ UNCHANGED <<dbVars, lock, tx, cur, used, draft, crashes>>

\* The oldest batch still on p's list.
NextInList(p, b) == b \in todo[p] /\ \A c \in todo[p] : b <= c

TakeNext(p, b, label) ==
  /\ Goto(p, label)
  /\ cur' = [cur EXCEPT ![p] = b]
  /\ todo' = [todo EXCEPT ![p] = @ \ {b}]
  /\ UNCHANGED <<used, draft>>

EndOfList(p, here) ==
  /\ At(p, here)
  /\ todo[p] = {}
  /\ Finish(p)
  /\ UNCHANGED <<dbVars, lock, tx, crashes>>

\* Mutant: submit-payouts does not look whether payouts are paused.
SubmitStartPaused(p) ==
  /\ Start(p, "submit", "sb_list")
  /\ UNCHANGED <<dbVars, lock, tx, crashes>>

SubmitStart(p) ==
  /\ enabled
  /\ Start(p, "submit", "sb_list")
  /\ UNCHANGED <<dbVars, lock, tx, crashes>>

SubmitList(p) == ListBatches(p, "sb_list", "signed", "sb_call")
SubmitEnd(p)  == EndOfList(p, "sb_call")

\* The node takes the transaction and says so.
SubmitAccepted(p) ==
  /\ At(p, "sb_call")
  /\ \E b \in Batches :
       /\ NextInList(p, b) /\ tx[b] \in Unknown
       /\ tx' = [tx EXCEPT ![b] = "mempool"]
       /\ TakeNext(p, b, "sb_mark")
  /\ UNCHANGED <<dbVars, lock, crashes>>

\* possible_prior_submit: not ok, "already present or mempool conflict", and the
\* txid is ours.  The node has the transaction, or one that spends the same coins.
SubmitAmbiguous(p) ==
  /\ At(p, "sb_call")
  /\ \E b \in Batches : NextInList(p, b) /\ TakeNext(p, b, "sb_prior")
  /\ UNCHANGED <<dbVars, lock, tx, crashes>>

\* A request the client gave up, which a node may handle at any later time.
GivenUp(b) == tx[b] = "none" /\ tx' = [tx EXCEPT ![b] = "underway"]

\* Mutant: a rejection is taken for a failed payment.
SubmitRejected(p) ==
  /\ At(p, "sb_call")
  /\ \E b \in Batches :
       /\ NextInList(p, b)
       /\ UNCHANGED tx \/ GivenUp(b)
       /\ TakeNext(p, b, "rc_fail")
  /\ UNCHANGED <<dbVars, lock, crashes>>

\* Another rejection, or a transport error.
SubmitUncertain(p) ==
  /\ At(p, "sb_call")
  /\ \E b \in Batches :
       /\ NextInList(p, b)
       /\ UNCHANGED tx \/ GivenUp(b)
       /\ TakeNext(p, b, "sb_defer")
  /\ UNCHANGED <<dbVars, lock, crashes>>

SubmitMarkAs(p, here, next) ==
  /\ At(p, here)
  /\ mark_payout_submitted(cur[p])
  /\ Continue(p, IF status[cur[p]] \in Inflight THEN next ELSE "sb_call")
  /\ UNCHANGED <<amount, today, ledger, balance, enabled, audit, lock, tx, crashes>>

SubmitMark(p)      == SubmitMarkAs(p, "sb_mark", "sb_audit")
SubmitMarkPrior(p) == SubmitMarkAs(p, "sb_prior", "sb_prioraudit")

SubmitAudit(p)      == AuditAndContinue(p, "sb_audit", "submit", "sb_call")
SubmitPriorAudit(p) == AuditAndContinue(p, "sb_prioraudit", "submit_ambiguous", "sb_call")
SubmitDefer(p)      == AuditAndContinue(p, "sb_defer", "submit_deferred", "sb_call")

Submit(p) ==
  \/ SubmitStart(p) \/ SubmitList(p) \/ SubmitEnd(p) \/ SubmitAccepted(p)
  \/ SubmitAmbiguous(p) \/ SubmitUncertain(p) \/ SubmitMark(p)
  \/ SubmitMarkPrior(p) \/ SubmitAudit(p) \/ SubmitPriorAudit(p) \/ SubmitDefer(p)

-----------------------------------------------------------------------------
(***************************************************************************)
(* reconcile-payouts, which runs whether payouts are paused or not.        *)
(***************************************************************************)
ReconcileStart(p) ==
  /\ Start(p, "reconcile", "rc_list")
  /\ UNCHANGED <<dbVars, lock, tx, crashes>>

ReconcileList(p) == ListBatches(p, "rc_list", "submitted", "rc_query")
ReconcileEnd(p)  == EndOfList(p, "rc_query")

\* Mutant: a transaction the node has only seen counts as confirmed.
ReconcileQuerySeen(p) ==
  /\ At(p, "rc_query")
  /\ \E b \in Batches :
       /\ NextInList(p, b)
       /\ TakeNext(p, b, IF tx[b] = "failed" THEN "rc_fail" ELSE "rc_confirm")
  /\ UNCHANGED <<dbVars, lock, tx, crashes>>

\* The watch node's answer; a transaction it cannot decide on is left alone.
ReconcileQuery(p) ==
  /\ At(p, "rc_query")
  /\ \E b \in Batches :
       /\ NextInList(p, b)
       /\ TakeNext(p, b, CASE tx[b] = "confirmed" -> "rc_confirm"
                           [] tx[b] = "failed"    -> "rc_fail"
                           [] OTHER               -> "rc_query")
  /\ UNCHANGED <<dbVars, lock, tx, crashes>>

\* The result of mark_payout_confirmed is ignored: the payment follows anyway.
ReconcileConfirm(p) ==
  /\ At(p, "rc_confirm")
  /\ mark_payout_confirmed(cur[p])
  /\ Continue(p, "rc_pay")
  /\ UNCHANGED <<amount, today, ledger, balance, enabled, audit, lock, tx, crashes>>

\* Audited only if rows were new: another run may have paid the batch.
ReconcilePay(p) ==
  /\ At(p, "rc_pay")
  /\ mark_payout_paid(cur[p])
  /\ Continue(p, IF ledger' # ledger THEN "rc_audit" ELSE "rc_query")
  /\ UNCHANGED <<status, amount, today, enabled, audit, lock, tx, crashes>>

ReconcileAudit(p)     == AuditAndContinue(p, "rc_audit", "confirm", "rc_query")
ReconcileFail(p)      == FailMark(p, "rc_fail", "rc_unlock")
ReconcileUnlock(p)    == FailUnlock(p, "rc_unlock", "rc_failaudit")
ReconcileFailAudit(p) == AuditAndContinue(p, "rc_failaudit", "fail", "rc_query")

Reconcile(p) ==
  \/ ReconcileStart(p) \/ ReconcileList(p) \/ ReconcileEnd(p) \/ ReconcileQuery(p)
  \/ ReconcileConfirm(p) \/ ReconcilePay(p) \/ ReconcileAudit(p)
  \/ ReconcileFail(p) \/ ReconcileUnlock(p) \/ ReconcileFailAudit(p)

-----------------------------------------------------------------------------
(***************************************************************************)
(* The operator's requests.                                                *)
(*                                                                         *)
(* ops/README.md asks operators to "investigate before cancelling an       *)
(* unresolved signed payout"; CancelPolicy is how far they go.  "unseen":  *)
(* the node does not know the transaction when they look.  "quiesced":     *)
(* payouts are also paused, no sign-payouts or submit-payouts run is under *)
(* way, and payouts are not resumed before the cancel has returned.        *)
(* "drained": they also wait until no broadcast of the batch that a client *)
(* gave up can reach a node any more.                                      *)
(***************************************************************************)
SubmitPcs == {"sb_list", "sb_call", "sb_mark", "sb_prior", "sb_audit", "sb_prioraudit", "sb_defer"}
SignPcs   == {"sg_lock", "sg_inflight", "sg_list", "sg_call", "sg_mark", "sg_audit",
              "sg_fail", "sg_unlock", "sg_failaudit", "sg_commit"}

Investigated(b) ==
  /\ tx[b] \in Unknown
  /\ CancelPolicy # "unseen" =>
       ~enabled /\ \A q \in Procs : pc[q] \notin SubmitPcs \cup SignPcs
  /\ CancelPolicy = "drained" => tx[b] # "underway"

Cancellable == {"needs_approval", "created", "signed"}

CancelRead(p) ==
  /\ At(p, "idle") /\ "cancel" \in MayRun[p]
  /\ \E b \in WithStatus(Cancellable) : Investigated(b) /\ Take(p, b, "cn_update")
  /\ UNCHANGED <<dbVars, lock, tx, crashes>>

CancelUpdate(p) ==
  /\ At(p, "cn_update")
  /\ UpdateStatus(cur[p], Cancellable, "cancelled")
  /\ IF status[cur[p]] \in Cancellable THEN Continue(p, "cn_unlock") ELSE Finish(p)
  /\ UNCHANGED <<amount, today, ledger, balance, enabled, audit, lock, tx, crashes>>

CancelUnlock(p) == FailUnlock(p, "cn_unlock", "cn_audit")
CancelAudit(p)  == AuditAndFinish(p, "cn_audit", "cancel")

RetryRead(p) ==
  /\ At(p, "idle") /\ "retry" \in MayRun[p]
  /\ \E b \in WithStatus({"failed", "cancelled"}) : Take(p, b, "rt_insert")
  /\ UNCHANGED <<dbVars, lock, tx, crashes>>

\* The same recipients and amounts again, as a batch that may be signed.
RetryInsert(p) ==
  /\ At(p, "rt_insert")
  /\ \E b \in Batches :
       /\ FreshBatch(b)
       /\ create_locked_payout_batch(b, amount[cur[p]], "created")
       /\ Take(p, b, "rt_readback")
  /\ UNCHANGED <<enabled, audit, lock, tx, crashes>>

RetryRollback(p) ==
  /\ At(p, "rt_insert")
  /\ ~Covered(amount[cur[p]]) \/ IdCollides
  /\ Finish(p)
  /\ UNCHANGED <<dbVars, lock, tx, crashes>>

\* The answer reads the new batch back, and only if it is still created.
RetryReadback(p) ==
  /\ At(p, "rt_readback")
  /\ IF status[cur[p]] = "created" THEN Continue(p, "rt_audit") ELSE Finish(p)
  /\ UNCHANGED <<dbVars, lock, tx, crashes>>

RetryAudit(p) == AuditAndFinish(p, "rt_audit", "retry")

Approve(p) ==
  /\ At(p, "idle") /\ "approve" \in MayRun[p]
  /\ \E b \in WithStatus({"needs_approval"}) :
       mark_payout_approved(b) /\ Take(p, b, "ap_audit")
  /\ UNCHANGED <<amount, today, ledger, balance, enabled, audit, lock, tx, crashes>>

ApproveAudit(p) == AuditAndFinish(p, "ap_audit", "approve")

\* set_payouts_enabled
PausePayouts(p) ==
  /\ Start(p, "pause", "ps_audit")
  /\ enabled' = FALSE
  /\ UNCHANGED <<status, amount, today, ledger, balance, audit, lock, tx, crashes>>

CancelUnderWay == \E q \in Procs : pc[q] \in {"cn_update", "cn_unlock"}

ResumePayouts(p) ==
  /\ Start(p, "resume", "rs_audit")
  /\ CancelPolicy # "unseen" => ~CancelUnderWay
  /\ enabled' = TRUE
  /\ UNCHANGED <<status, amount, today, ledger, balance, audit, lock, tx, crashes>>

PauseAudit(p)  == AuditAndFinish(p, "ps_audit", "pause_payouts")
ResumeAudit(p) == AuditAndFinish(p, "rs_audit", "resume_payouts")

Operator(p) ==
  \/ CancelRead(p) \/ CancelUpdate(p) \/ CancelUnlock(p) \/ CancelAudit(p)
  \/ RetryRead(p) \/ RetryInsert(p) \/ RetryRollback(p) \/ RetryReadback(p) \/ RetryAudit(p)
  \/ Approve(p) \/ ApproveAudit(p) \/ PausePayouts(p) \/ PauseAudit(p)
  \/ ResumePayouts(p) \/ ResumeAudit(p)

-----------------------------------------------------------------------------
(***************************************************************************)
(* The world around the workers.                                           *)
(***************************************************************************)
\* A run dies, or returns early on a database or node error.  Its connection
\* closes, and the advisory lock with it.
Crash(p) ==
  /\ ~At(p, "idle")
  /\ crashes < MaxCrashes
  /\ crashes' = crashes + 1
  /\ lock' = IF lock = p THEN NoProc ELSE lock
  /\ Finish(p)
  /\ UNCHANGED <<dbVars, tx>>

\* The transaction is mined, or it can never be: both for good.
NodeDecides(b) ==
  /\ tx[b] = "mempool"
  /\ \E verdict \in {"confirmed", "failed"} : tx' = [tx EXCEPT ![b] = verdict]
  /\ UNCHANGED <<dbVars, lock, runVars, crashes>>

\* A node handles a request its client gave up, or the request is lost.
NodeReceives(b) ==
  /\ tx[b] = "underway"
  /\ \E outcome \in {"none", "mempool"} : tx' = [tx EXCEPT ![b] = outcome]
  /\ UNCHANGED <<dbVars, lock, runVars, crashes>>

\* A block's rewards are settled and mature (module Rewards): confirmed grows.
BlockRef(k) == <<"block", k>>

CreditBlock(k) ==
  /\ \A e \in ledger : e.ref # BlockRef(k)
  /\ ledger' = ledger \cup {Entry(m, "reward_mature", BlockRef(k), Reward[k][m]) : m \in Miners}
  /\ balance' = [m \in Miners |-> [balance[m] EXCEPT !["confirmed"] = @ + Reward[k][m]]]
  /\ UNCHANGED <<status, amount, today, enabled, audit, lock, tx, runVars, crashes>>

\* Midnight: current_date moves past every created_at.
NewDay ==
  /\ DayTurns /\ today # {}
  /\ today' = {}
  /\ UNCHANGED <<status, amount, ledger, balance, enabled, audit, lock, tx, runVars, crashes>>

Run(p) == Create(p) \/ Sign(p) \/ Submit(p) \/ Reconcile(p) \/ Operator(p)

Next ==
  \/ \E p \in Procs : Run(p) \/ Crash(p)
  \/ \E b \in Batches : NodeReceives(b) \/ NodeDecides(b)
  \/ \E k \in Blocks : CreditBlock(k)
  \/ NewDay

Spec == Init /\ [][Next]_vars

(***************************************************************************)
(* A run that can go on does, and timers start each worker again and       *)
(* again.  The network decides every transaction it holds.  A node that is *)
(* asked often enough to take a transaction it does not know takes it: the *)
(* code cannot guarantee that, and without it a batch may stay signed.     *)
(* Nothing is assumed of operators, blocks, crashes, midnight or requests  *)
(* that were given up.                                                     *)
(***************************************************************************)
Runners(command) == {p \in Procs : command \in MayRun[p]}

Fairness ==
  /\ \A p \in Procs : WF_vars(~At(p, "idle") /\ Run(p))
  /\ \A p \in Runners("sign") : SF_vars(SignStart(p))
  /\ \A p \in Runners("submit") : SF_vars(SubmitStart(p)) /\ SF_vars(SubmitAccepted(p))
  /\ \A p \in Runners("reconcile") : SF_vars(ReconcileStart(p))
  /\ \A b \in Batches : WF_vars(NodeDecides(b))

FairSpec == Spec /\ Fairness

-----------------------------------------------------------------------------
(***************************************************************************)
(* What must hold.                                                         *)
(***************************************************************************)
\* "only one signed or submitted payout batch may be in flight" (ops/README.md):
\* the wallet's coins are chosen for one transaction at a time, whoever runs
\* sign-payouts and wherever a run is suspended or dies.
AtMostOneInflight == \A b, c \in WithStatus(Inflight) : b = c

HasRow(b, kind) == \E e \in ledger : e.kind = kind /\ e.ref = BatchRef(b)

\* A batch is paid out of the locked funds or gives them back, never both,
\* although the workers ignore whether mark_payout_failed and
\* mark_payout_confirmed changed anything before they write the rows.
SettledOnce == \A b \in Batches : ~(HasRow(b, "payout_sent") /\ HasRow(b, "payout_failed_unlock"))

\* When the signer chooses coins, no earlier payout transaction is waiting to
\* be mined: "prevents concurrent requests from reusing the same wallet UTXO
\* view" (README.md).
QuietWallet == \A p \in Procs : At(p, "sg_call") => \A b \in Batches : tx[b] # "mempool"

RowsOf(m, kind) == {e \in ledger : e.miner = m /\ e.kind = kind}

LedgerTotal(m, kind) == TotalOf(RowsOf(m, kind))

\* "cached balances that can be fully recomputed" (docs/architecture.md): the
\* buckets equal what the ledger rows add up to, so no greatest(.., 0) in
\* append_ledger_entries ever cuts an amount short.
CacheRecomputable ==
  \A m \in Miners :
    LET bal == balance[m]
    IN  /\ bal["confirmed"] + LedgerTotal(m, "payout_lock")
             = LedgerTotal(m, "reward_mature") + LedgerTotal(m, "payout_failed_unlock")
        /\ bal["locked"] + LedgerTotal(m, "payout_sent") + LedgerTotal(m, "payout_failed_unlock")
             = LedgerTotal(m, "payout_lock")
        /\ bal["paid"] = LedgerTotal(m, "payout_sent")

\* However runs of append_ledger_entries overlap and die, no batch is both paid and
\* refunded, or settled twice, and every cached balance is what its ledger rows add
\* up to.
LedgerSound == SettledOnce /\ CacheRecomputable

PaidOnChain(m) ==
  SumFunctionOnSet([b \in Batches |-> amount[b][m]], {b \in Batches : tx[b] = "confirmed"})

\* "payout retry does not double-pay" (docs/architecture.md): what the chain
\* paid a miner and what the pool would still pay it never exceed what the
\* miner earned.
NoDoublePay ==
  \A m \in Miners : balance[m]["confirmed"] + PaidOnChain(m) <= LedgerTotal(m, "reward_mature")

\* Nor can an operator's pause, approve, cancel or retry, at any point of a run, make
\* the pool settle a batch twice, lose track of a balance, pay a miner twice or have
\* the wallet choose coins while a transaction is open.
MoneySound == LedgerSound /\ NoDoublePay /\ QuietWallet

\* Reconciliation watches the batch, or ended it on the network's word.
Reconciled(b) ==
  status[b] \in {"submitted", "confirmed"} \/ (status[b] = "failed" /\ tx[b] = "failed")

\* An audit event is never ahead of what it reports: "confirm" only of a batch
\* whose payout_sent rows exist, "fail" and "cancel" only of one whose funds
\* are back, "submit" only of one that a node took.  After "submit_ambiguous" no
\* node need have the transaction, yet the funds stay locked until the network
\* fails it: "a stuck alert over a possible duplicate payout" (docs/architecture.md).
AuditTruthful ==
  \A b \in Batches :
    /\ audit[b] = "confirm" => HasRow(b, "payout_sent") /\ tx[b] = "confirmed"
    /\ audit[b] \in {"fail", "cancel"} => HasRow(b, "payout_failed_unlock")
    /\ audit[b] = "submit" => tx[b] \notin Unknown
    /\ audit[b] \in {"submit", "submit_ambiguous"} => Reconciled(b)

\* create-payouts "refuses to create a batch above ... the remaining daily
\* payout cap" (README.md): what today's live batches pay stays under the cap.
DailyCap == active_payout_total_today <= MaxDaily

Settled(b) == HasRow(b, "payout_sent") \/ HasRow(b, "payout_failed_unlock")

\* What only an operator can end: the network decided on a transaction whose
\* broadcast was never acknowledged, or the batch is submitted on an ambiguous
\* answer and no node has its transaction.
Stuck(b) ==
  \/ status[b] = "signed" /\ tx[b] \in {"confirmed", "failed"}
  \/ status[b] = "submitted" /\ tx[b] \in Unknown

\* Unless some batch stays stuck for good, which keeps all others from being
\* signed, every batch that may be signed is in the end paid or refunded: no batch
\* waits forever behind one in flight, no run forever for the advisory lock.
EveryBatchSettles ==
  (\A c \in Batches : []<>~Stuck(c)) => \A b \in Batches : status[b] = "created" ~> Settled(b)

\* reconcile-payouts "writes payout_sent when confirmed" and "failure paths
\* write payout_failed_unlock so locked funds return to confirmed balances"
\* (docs/architecture.md): a batch that is over has its rows in the end, also
\* if the run that ended it died.
TerminalIsSettled == \A b \in Batches : status[b] \in Terminal ~> Settled(b)

-----------------------------------------------------------------------------
(***************************************************************************)
(* Why at most one batch is in flight, as an inductive invariant.          *)
(***************************************************************************)
\* The labels at which a run works on the batch in cur.
WithBatch == {"cr_audit", "sg_call", "sg_mark", "sg_audit", "sg_fail", "sg_unlock",
              "sg_failaudit", "sb_mark", "sb_prior", "sb_audit", "sb_prioraudit",
              "sb_defer", "rc_confirm", "rc_pay", "rc_audit", "rc_fail", "rc_unlock",
              "rc_failaudit", "cn_update", "cn_unlock", "cn_audit", "rt_insert",
              "rt_readback", "rt_audit", "ap_audit"}

BatchInHand == \A p \in Procs : pc[p] \in WithBatch => cur[p] \in Batches

LockedPcs == SignPcs \ {"sg_lock"}

\* A run is inside the locked part of sign-payouts only while it holds the lock.
LockHeld == \A p \in Procs : pc[p] \in LockedPcs => lock = p

\* Between the check for a batch in flight and the signing, there is none.
ClearToSign ==
  \A p \in Procs : pc[p] \in {"sg_list", "sg_call", "sg_mark"} => WithStatus(Inflight) = {}

SigningInv == TypeOK /\ BatchInHand /\ LockHeld /\ ClearToSign /\ AtMostOneInflight
=============================================================================
