------------------------------- MODULE Ledger -------------------------------
(***************************************************************************)
(* The accounting ledger of PgRepository (crates/csd-pool-db/src/lib.rs)   *)
(* and what a row does to the cached balances of a miner.                  *)
(*                                                                         *)
(* A row carries the magnitude of its amount.  The sign stored in          *)
(* ledger_entries is a function of the kind (locks, sent payouts and       *)
(* orphan reversals are negative, the others positive), so it is not kept. *)
(* A ref is the block or the payout batch the row is about; ref_type and   *)
(* ref_id are one value here, since the two never share a name.            *)
(***************************************************************************)
EXTENDS Naturals, FiniteSetsExt, Functions

RewardKinds == {"reward_immature", "reward_mature", "reward_orphan_reversal", "pool_fee"}
PayoutKinds == {"payout_lock", "payout_sent", "payout_failed_unlock"}
LedgerKind  == RewardKinds \cup PayoutKinds

\* The columns of balance_cache.
Buckets == {"immature", "confirmed", "locked", "paid"}
Balance == [Buckets -> Nat]

EmptyBalance == [k \in Buckets |-> 0]

Entry(miner, kind, ref, amount) ==
  [miner |-> miner, kind |-> kind, ref |-> ref, amount |-> amount]

-----------------------------------------------------------------------------
(***************************************************************************)
(* The unique index ledger_entries_idempotency_idx is on (miner, kind,     *)
(* ref_type, ref_id): the amount is not part of it.                        *)
(***************************************************************************)
SameKey(e, f) == e.miner = f.miner /\ e.kind = f.kind /\ e.ref = f.ref

\* insert ... on conflict do nothing: rows_affected() = 1
Inserts(ledger, e) == \A f \in ledger : ~SameKey(e, f)

\* greatest(x - y, 0)
Monus(x, y) == IF y <= x THEN x - y ELSE 0

(***************************************************************************)
(* Each row that is really inserted takes its amount from one bucket,      *)
(* stopping at zero, and adds it to another.  An orphan reversal takes it  *)
(* from wherever the reward is, which the database finds by looking for    *)
(* the reward_mature row of the same miner and block.                      *)
(***************************************************************************)
TakesFrom(ledger, e) ==
  CASE e.kind = "reward_mature"          -> "immature"
    [] e.kind = "reward_orphan_reversal" ->
         IF Inserts(ledger, [e EXCEPT !.kind = "reward_mature"])
           THEN "immature" ELSE "confirmed"
    [] e.kind = "payout_lock"            -> "confirmed"
    [] e.kind = "payout_sent"            -> "locked"
    [] e.kind = "payout_failed_unlock"   -> "locked"
    [] OTHER                             -> "none"

AddsTo(e) ==
  CASE e.kind = "reward_immature"      -> "immature"
    [] e.kind = "reward_mature"        -> "confirmed"
    [] e.kind = "payout_lock"          -> "locked"
    [] e.kind = "payout_sent"          -> "paid"
    [] e.kind = "payout_failed_unlock" -> "confirmed"
    [] OTHER                           -> "none"

Move(bal, from, to, amount) ==
  [k \in Buckets |-> IF k = from THEN Monus(bal[k], amount)
                     ELSE IF k = to THEN bal[k] + amount
                     ELSE bal[k]]

\* The balance of e's miner after append_ledger_entries has processed e.
ApplyEntry(ledger, bal, e) ==
  IF Inserts(ledger, e)
    THEN Move(bal, TakesFrom(ledger, e), AddsTo(e), e.amount)
    ELSE bal

(***************************************************************************)
(* append_ledger_entries is one transaction.  The rows of one call have    *)
(* different keys and are of kinds that do not touch the same bucket from  *)
(* both sides, so their order does not matter.                             *)
(***************************************************************************)
NewRows(ledger, rows) == {e \in rows : Inserts(ledger, e)}

BalanceAfter(ledger, bal, rows) ==
  FoldSet(LAMBDA e, b : ApplyEntry(ledger, b, e), bal, rows)

\* What rows add up to.
TotalOf(rows) == SumFunctionOnSet([e \in rows |-> e.amount], rows)
=============================================================================
