---------------------------- MODULE MCAccounting ----------------------------
(***************************************************************************)
(* The functions of Accounting over bounded inputs: share windows that     *)
(* grow by one share at a time, or balances listed in any order.           *)
(***************************************************************************)
EXTENDS Accounting

CONSTANTS
  Miners, Difficulties, Rewards, Fees, MaxShares,          \* bounds on the share windows
  BalanceAmounts, MaxBalances, Minimum, MaxRecipients      \* bounds on the balances

ASSUME AccountingAssumption ==
  /\ Miners \subseteq Nat /\ Difficulties \subseteq Nat /\ Rewards \subseteq Nat /\ Fees \subseteq Nat
  /\ BalanceAmounts \subseteq Nat /\ {MaxShares, MaxBalances, Minimum, MaxRecipients} \subseteq Nat

VARIABLES reward, fee_bps, window, balances

accountingVars == <<reward, fee_bps, window, balances>>

AccountingInit ==
  /\ reward \in Rewards
  /\ fee_bps \in Fees
  /\ window = <<>>
  /\ balances = <<>>

AddShare ==
  /\ balances = <<>> /\ Len(window) < MaxShares
  /\ \E m \in Miners, d \in Difficulties : window' = Append(window, ShareWeight(m, d))
  /\ UNCHANGED <<reward, fee_bps, balances>>

AddBalance ==
  /\ window = <<>> /\ Len(balances) < MaxBalances
  /\ \E m \in Miners \ {balances[i].miner : i \in DOMAIN balances}, c \in BalanceAmounts :
       balances' = Append(balances, MinerBalance(m, c))
  /\ UNCHANGED <<reward, fee_bps, window>>

AccountingNext == AddShare \/ AddBalance

AccountingSpec == AccountingInit /\ [][AccountingNext]_accountingVars

Result == allocate_pplns(reward, fee_bps, window)

\* "PPLNS allocation sums to reward minus fee" (docs/architecture.md): the
\* divisions lose no unit and make none, whatever the window.
SumIsReward == Result.ok => SumFunction(Result.allocations) + Result.fee = reward

\* Nobody gets less than the whole units of its exact share, and only the last
\* miner of the loop gets more, by less than one unit per miner.
WithinRounding ==
  Result.ok =>
    LET weights == Weights(window)
        total   == reward - Result.fee
        exact   == [m \in DOMAIN weights |-> (total * weights[m]) \div SumFunction(weights)]
        surplus == [m \in DOMAIN weights |-> Result.allocations[m] - exact[m]]
    IN  \A m \in DOMAIN weights :
          /\ surplus[m] >= 0
          /\ surplus[m] > 0 => m = Max(DOMAIN weights) /\ surplus[m] < Cardinality(DOMAIN weights)

Got(result, m) ==
  IF result.ok /\ m \in DOMAIN result.allocations THEN result.allocations[m] ELSE 0

\* allocate_pplns: one more share never lowers the reward of the miner who found it,
\* although it raises the weight everyone's reward is divided by.
OwnShareNeverHurts ==
  [][\A m \in Miners :
       window' # window /\ Last(window').miner = m => Got(Result', m) >= Got(Result, m)]_accountingVars

Eligible == {i \in DOMAIN balances : balances[i].confirmed >= Minimum}

Rank(i) == Cardinality({j \in Eligible : PaidBefore(balances[j], balances[i])})

\* select_payouts picks the same recipients as ranking the balances does (the
\* form Payouts uses), in the same order, however the database lists them.
SelectionIsTop ==
  LET selection == select_payouts(balances, Minimum, MaxRecipients)
  IN  /\ Len(selection) = Min({MaxRecipients, Cardinality(Eligible)})
      /\ \A i \in Eligible :
           Rank(i) < MaxRecipients => selection[Rank(i) + 1] = balances[i]

\* allocate_pplns: the whole reward, and nobody short of a unit; select_payouts: the
\* largest balances are paid.
SumsToReward == SumIsReward /\ WithinRounding /\ SelectionIsTop
=============================================================================
