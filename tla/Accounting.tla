----------------------------- MODULE Accounting -----------------------------
(***************************************************************************)
(* The pure functions of crates/csd-pool-accounting/src/lib.rs: how the    *)
(* reward of a block is divided among the miners of a share window, and    *)
(* which balances a payout batch pays.                                     *)
(*                                                                         *)
(* Miners are numbers in the order of their addresses, the order of the    *)
(* BTreeMap and of the sort.  All amounts are u128 in base units; they     *)
(* are natural numbers here, since the largest product, a reward and a     *)
(* difficulty of 64 bits each, stays under 2^128.                          *)
(***************************************************************************)
EXTENDS Integers, Sequences, SequencesExt, FiniteSetsExt, Functions

Bps == 10000    \* basis points in the whole reward

ShareWeight(miner, difficulty) == [miner |-> miner, difficulty |-> difficulty]

MinersOf(shares) == {shares[i].miner : i \in DOMAIN shares}

\* Mutant: a miner's next share replaces its weight instead of adding to it.
WeightsReplaced(shares) ==
  [m \in MinersOf(shares) |->
     shares[Max({i \in DOMAIN shares : shares[i].miner = m})].difficulty]

\* weights: the window's difficulty per miner.
Weights(shares) ==
  [m \in MinersOf(shares) |->
     SumFunctionOnSet([i \in DOMAIN shares |-> shares[i].difficulty],
                      {i \in DOMAIN shares : shares[i].miner = m})]

\* saturating_sub
SaturatingSub(x, y) == IF y <= x THEN x - y ELSE 0

PoolFee(reward, fee_bps) == (reward * fee_bps) \div Bps

MinerTotal(reward, fee_bps) == SaturatingSub(reward, PoolFee(reward, fee_bps))

\* What the loop gives a miner: its part of the total, rounded down.
Quota(total, weights, m) == (total * weights[m]) \div SumFunction(weights)

\* Mutant: no miner gets what the divisions left over.
AllocateFloor(total, weights) == [m \in DOMAIN weights |-> Quota(total, weights, m)]

\* The last miner of the loop gets what the others, by then allocated, have left.
Allocate(total, weights) ==
  LET quotas    == [m \in DOMAIN weights |-> Quota(total, weights, m)]
      last      == Max(DOMAIN weights)
      allocated == SumFunctionOnSet(quotas, DOMAIN weights \ {last})
  IN  [quotas EXCEPT ![last] = SaturatingSub(total, allocated)]

PplnsError(reason) == [ok |-> FALSE, reason |-> reason]

allocate_pplns(reward, fee_bps, shares) ==
  IF fee_bps > Bps THEN PplnsError("InvalidFeeBps")
  ELSE IF shares = <<>> THEN PplnsError("EmptyShareWindow")
  ELSE IF SumFunction(Weights(shares)) = 0 THEN PplnsError("ZeroShareDifficulty")
  ELSE [ok          |-> TRUE,
        fee         |-> PoolFee(reward, fee_bps),
        allocations |-> Allocate(MinerTotal(reward, fee_bps), Weights(shares))]

-----------------------------------------------------------------------------
(***************************************************************************)
(* select_payouts: filter, sort, truncate.  balances is the answer of      *)
(* list_payable_balances, a sequence of miners with their confirmed        *)
(* balances.                                                               *)
(***************************************************************************)
MinerBalance(miner, confirmed) == [miner |-> miner, confirmed |-> confirmed]

\* Larger amounts first, then by miner.
PaidBefore(a, b) ==
  a.confirmed > b.confirmed \/ (a.confirmed = b.confirmed /\ a.miner < b.miner)

\* sort_by: an order of these positions in which none comes after one it is paid before.
SortBy(balances, positions) ==
  CHOOSE order \in Bijection(1 .. Cardinality(positions), positions) :
    \A i, j \in DOMAIN order : i < j => ~PaidBefore(balances[order[j]], balances[order[i]])

select_payouts(balances, minimum, max_recipients) ==
  LET eligible == {i \in DOMAIN balances : balances[i].confirmed >= minimum}
      sorted   == SortBy(balances, eligible)
  IN  [k \in 1 .. Min({max_recipients, Cardinality(eligible)}) |-> balances[sorted[k]]]
=============================================================================
