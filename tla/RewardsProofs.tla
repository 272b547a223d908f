--------------------------- MODULE RewardsProofs ----------------------------
(***************************************************************************)
(* No block is credited before the chain has confirmed it, and a block     *)
(* that is credited is credited with its whole reward: for any number of   *)
(* miners, blocks and processes, however runs overlap or die and however   *)
(* the chain reorganises.  With one reconciler at a time, the balances are *)
(* what the rewards add up to.                                             *)
(***************************************************************************)
EXTENDS Rewards, AccountingProofs

-----------------------------------------------------------------------------
(***************************************************************************)
(* The answer of a node.                                                   *)
(***************************************************************************)
\* What reconcile-blocks makes of an answer is a row of the table.
LEMMA UpdateType ==
  ASSUME CreditInv, NEW k \in Blocks, NEW body \in BOOLEAN
  PROVE  BlockUpdate(BlockStatusAnswer(k, body)) \in BlockRow
<1>1. chain[k] \in Position
  BY DEF CreditInv, ChainType
<1>2. BlockReward[k] \in Nat
  BY RewardsAssumption
<1>3. BlockStatusAnswer(k, body).confirmations \in Nat /\ BlockStatusAnswer(k, body).reward \in Nat
  BY <1>1, <1>2 DEF BlockStatusAnswer, Position
<1>4. QED
  BY <1>3 DEF BlockUpdate, normalize_block_status, BlockRow, BlockStatus, Submitted

\* A block is called confirmed only if it is confirm_depth deep at that moment.
LEMMA ConfirmedIsDeep ==
  ASSUME CreditInv, NEW k \in Blocks, NEW body \in BOOLEAN,
         BlockUpdate(BlockStatusAnswer(k, body)).status = "confirmed"
  PROVE  k \in deep
<1>1. chain[k] \in Position
  BY DEF CreditInv, ChainType
<1>2. BlockStatusAnswer(k, body).confirmations >= ConfirmDepth
  BY DEF BlockUpdate, normalize_block_status
<1>3. chain[k].at = "main" /\ chain[k].conf >= ConfirmDepth
  BY <1>1, <1>2, RewardsAssumption DEF BlockStatusAnswer, Position
<1>4. QED
  BY <1>3 DEF CreditInv, DeepRecorded

-----------------------------------------------------------------------------
(***************************************************************************)
(* The pieces of a step.                                                   *)
(***************************************************************************)
\* A run that ends, or dies, keeps what concerns the runs.
LEMMA FinishKeeps ==
  ASSUME CreditInv, NEW p \in Procs, Finish(p), deep' = deep
  PROVE  /\ pc' \in [Procs -> {"idle", "rb_query", "rb_update", "st_block", "mt_append", "ro_append"}]
         /\ cur' \in [Procs -> Blocks \cup {NoBlock}]
         /\ todo' \in [Procs -> SUBSET Blocks]
         /\ answer' \in [Procs -> BlockRow]
         /\ rows' = [q \in Procs |-> rows'[q]]
         /\ AnswerWasDeep' /\ SettlingWasDeep' /\ RowsAreLater'
<1>1. NoRow \in BlockRow
  BY DEF NoRow, BlockRow, BlockStatus, Submitted
<1>2. QED
  BY <1>1 DEF CreditInv, ChainType, Finish, Goto, At, AnswerWasDeep, SettlingWasDeep, RowsAreLater

\* Rows that are no new rewards credit no block.
LEMMA AppendKeeps ==
  ASSUME CreditInv, NEW new, AppendRows(new), deep' = deep,
         \A e \in new : e.kind \notin {"reward_immature", "pool_fee"}
  PROVE  CreditedOnlyWhenDeep'
BY DEF CreditInv, AppendRows, NewRows, CreditedOnlyWhenDeep, RewardRows, Rows

\* The chain only ever adds to deep.
LEMMA MoveKeeps ==
  ASSUME CreditInv, NEW k \in Blocks, NEW where \in {"nowhere", "away", "main", "fork"},
         NEW conf \in Nat, MoveTo(k, where, conf)
  PROVE  /\ chain' \in [Blocks -> Position] /\ deep' \subseteq Blocks
         /\ deep \subseteq deep' /\ DeepRecorded'
BY DEF CreditInv, ChainType, DeepRecorded, MoveTo, Position

\* A step of the chain: the runs and the ledger stay as they are.
LEMMA ChainStep ==
  ASSUME CreditInv, chain' \in [Blocks -> Position], deep' \subseteq Blocks,
         deep \subseteq deep', DeepRecorded', block' \in [Blocks -> BlockRow],
         \A k \in Blocks : block'[k].status = "confirmed" => block[k].status = "confirmed",
         UNCHANGED <<ledger, runVars>>
  PROVE  CreditInv'
<1>1. ChainType'
  BY DEF CreditInv, ChainType, runVars
<1>2. AnswerWasDeep' /\ SettlingWasDeep' /\ RowsAreLater'
  BY DEF CreditInv, AnswerWasDeep, SettlingWasDeep, RowsAreLater, At, runVars
<1>3. ConfirmedWasDeep'
  BY DEF CreditInv, ConfirmedWasDeep
<1>4. CreditedOnlyWhenDeep'
  BY DEF CreditInv, CreditedOnlyWhenDeep, RewardRows, Rows
<1>5. QED
  BY <1>1, <1>2, <1>3, <1>4 DEF CreditInv

-----------------------------------------------------------------------------
\* Nothing is credited at the start.
LEMMA InitCredit == Init => CreditInv
<1> SUFFICES ASSUME Init PROVE CreditInv
  OBVIOUS
<1>1. NoRow \in BlockRow
  BY DEF NoRow, BlockRow, BlockStatus, Submitted
<1>2. ChainType
  BY <1>1 DEF Init, ChainType, Position
<1>3. DeepRecorded /\ AnswerWasDeep /\ ConfirmedWasDeep /\ SettlingWasDeep /\ RowsAreLater
  BY RewardsAssumption DEF Init, DeepRecorded, AnswerWasDeep, ConfirmedWasDeep, SettlingWasDeep,
                           RowsAreLater, At, NoRow
<1>4. CreditedOnlyWhenDeep
  BY DEF Init, CreditedOnlyWhenDeep, RewardRows, Rows
<1>5. QED
  BY <1>2, <1>3, <1>4 DEF CreditInv

\* reconcile-blocks asks, and later writes down what it was told.
LEMMA ReconcileCredit ==
  ASSUME CreditInv, NEW p \in Procs, Reconcile(p)
  PROVE  CreditInv'
<1> USE DEF storeVars, chainVars
<1>1. CASE ReconcileList(p)
  <2>1. ChainType'
    BY <1>1 DEF ReconcileList, Goto, CreditInv, ChainType
  <2>2. AnswerWasDeep' /\ SettlingWasDeep' /\ RowsAreLater'
    BY <1>1 DEF ReconcileList, Goto, At, CreditInv, ChainType, AnswerWasDeep, SettlingWasDeep, RowsAreLater
  <2>3. DeepRecorded' /\ ConfirmedWasDeep' /\ CreditedOnlyWhenDeep'
    BY <1>1 DEF ReconcileList, CreditInv, DeepRecorded, ConfirmedWasDeep, CreditedOnlyWhenDeep, RewardRows, Rows
  <2>4. QED
    BY <2>1, <2>2, <2>3 DEF CreditInv
<1>2. CASE ReconcileQuery(p)
  <2>1. PICK k \in todo[p], body \in BOOLEAN :
          /\ cur' = [cur EXCEPT ![p] = k]
          /\ todo' = [todo EXCEPT ![p] = @ \ {k}]
          /\ answer' = [answer EXCEPT ![p] = BlockUpdate(BlockStatusAnswer(k, body))]
    BY <1>2, RewardsAssumption DEF ReconcileQuery
  <2>2. k \in Blocks
    BY <2>1 DEF CreditInv, ChainType
  <2>3. BlockUpdate(BlockStatusAnswer(k, body)) \in BlockRow
    BY <2>2, UpdateType
  <2>4. BlockUpdate(BlockStatusAnswer(k, body)).status = "confirmed" => k \in deep
    BY <2>2, ConfirmedIsDeep
  <2>5. ChainType'
    BY <1>2, <2>1, <2>2, <2>3 DEF ReconcileQuery, Goto, CreditInv, ChainType
  <2>6. AnswerWasDeep' /\ SettlingWasDeep' /\ RowsAreLater'
    BY <1>2, <2>1, <2>2, <2>4
       DEF ReconcileQuery, Goto, At, CreditInv, ChainType, AnswerWasDeep, SettlingWasDeep, RowsAreLater
  <2>7. DeepRecorded' /\ ConfirmedWasDeep' /\ CreditedOnlyWhenDeep'
    BY <1>2 DEF ReconcileQuery, CreditInv, DeepRecorded, ConfirmedWasDeep, CreditedOnlyWhenDeep, RewardRows, Rows
  <2>8. QED
    BY <2>5, <2>6, <2>7 DEF CreditInv
<1>3. CASE ReconcileUpdate(p)
  <2>1. cur[p] \in Blocks /\ (answer[p].status = "confirmed" => cur[p] \in deep)
    BY <1>3 DEF ReconcileUpdate, CreditInv, AnswerWasDeep
  <2>2. ChainType'
    BY <1>3, <2>1 DEF ReconcileUpdate, Goto, CreditInv, ChainType
  <2>3. ConfirmedWasDeep'
    BY <1>3, <2>1 DEF ReconcileUpdate, CreditInv, ChainType, ConfirmedWasDeep
  <2>4. AnswerWasDeep' /\ SettlingWasDeep' /\ RowsAreLater'
    BY <1>3 DEF ReconcileUpdate, Goto, At, CreditInv, ChainType, AnswerWasDeep, SettlingWasDeep, RowsAreLater
  <2>5. DeepRecorded' /\ CreditedOnlyWhenDeep'
    BY <1>3 DEF ReconcileUpdate, CreditInv, DeepRecorded, CreditedOnlyWhenDeep, RewardRows, Rows
  <2>6. QED
    BY <2>2, <2>3, <2>4, <2>5 DEF CreditInv
<1>4. CASE ReconcileEnd(p)
  <2>1. Finish(p) /\ deep' = deep
    BY <1>4 DEF ReconcileEnd
  <2>2. DeepRecorded' /\ ConfirmedWasDeep' /\ CreditedOnlyWhenDeep'
    BY <1>4 DEF ReconcileEnd, CreditInv, DeepRecorded, ConfirmedWasDeep, CreditedOnlyWhenDeep, RewardRows, Rows
  <2>3. QED
    BY <1>4, <2>1, <2>2, FinishKeeps DEF ReconcileEnd, CreditInv, ChainType
<1>5. QED
  BY <1>1, <1>2, <1>3, <1>4 DEF Reconcile

\* settle-rewards divides the blocks of its list, confirmed when it was made.
LEMMA SettleCredit ==
  ASSUME CreditInv, NEW p \in Procs, Settle(p)
  PROVE  CreditInv'
<1> USE DEF storeVars, chainVars
<1>1. CASE SettleList(p)
  <2>1. Unsettled \subseteq deep /\ Unsettled \subseteq Blocks
    BY DEF Unsettled, CreditInv, ConfirmedWasDeep
  <2>2. ChainType'
    BY <1>1, <2>1 DEF SettleList, Goto, CreditInv, ChainType
  <2>3. AnswerWasDeep' /\ SettlingWasDeep' /\ RowsAreLater'
    BY <1>1, <2>1 DEF SettleList, Goto, At, CreditInv, ChainType, AnswerWasDeep, SettlingWasDeep, RowsAreLater
  <2>4. DeepRecorded' /\ ConfirmedWasDeep' /\ CreditedOnlyWhenDeep'
    BY <1>1 DEF SettleList, CreditInv, DeepRecorded, ConfirmedWasDeep, CreditedOnlyWhenDeep, RewardRows, Rows
  <2>5. QED
    BY <2>2, <2>3, <2>4 DEF CreditInv
<1>2. CASE SettleBlock(p)
  <2>1. PICK k \in todo[p] :
          /\ todo' = [todo EXCEPT ![p] = @ \ {k}]
          /\ \/ \E result : AppendRows(reward_ledger_entries(k, result))
             \/ UNCHANGED <<ledger, balance>>
    BY <1>2 DEF SettleBlock
  <2>2. k \in deep
    BY <1>2, <2>1 DEF SettleBlock, CreditInv, SettlingWasDeep
  <2>3. \A result : \A e \in reward_ledger_entries(k, result) : e.ref = BlockRef(k)
    BY DEF reward_ledger_entries, Entry
  <2>4. \A e \in ledger' \ ledger : e.ref = BlockRef(k)
    BY <2>1, <2>3 DEF AppendRows, NewRows
  <2>5. \A j \in Blocks : BlockRef(j) = BlockRef(k) => j = k
    BY DEF BlockRef
  <2>6. CreditedOnlyWhenDeep'
    BY <1>2, <2>2, <2>4, <2>5 DEF SettleBlock, CreditInv, CreditedOnlyWhenDeep, RewardRows, Rows
  <2>7. ChainType'
    BY <1>2, <2>1 DEF SettleBlock, CreditInv, ChainType
  <2>8. AnswerWasDeep' /\ SettlingWasDeep' /\ RowsAreLater'
    BY <1>2, <2>1 DEF SettleBlock, At, CreditInv, ChainType, AnswerWasDeep, SettlingWasDeep, RowsAreLater
  <2>9. DeepRecorded' /\ ConfirmedWasDeep'
    BY <1>2 DEF SettleBlock, CreditInv, DeepRecorded, ConfirmedWasDeep
  <2>10. QED
    BY <2>6, <2>7, <2>8, <2>9 DEF CreditInv
<1>3. CASE SettleEnd(p)
  <2>1. Finish(p) /\ deep' = deep
    BY <1>3 DEF SettleEnd
  <2>2. DeepRecorded' /\ ConfirmedWasDeep' /\ CreditedOnlyWhenDeep'
    BY <1>3 DEF SettleEnd, CreditInv, DeepRecorded, ConfirmedWasDeep, CreditedOnlyWhenDeep, RewardRows, Rows
  <2>3. QED
    BY <1>3, <2>1, <2>2, FinishKeeps DEF SettleEnd, CreditInv, ChainType
<1>4. QED
  BY <1>1, <1>2, <1>3 DEF Settle

\* The query of mature-rewards, or of reverse-orphans.
LEMMA ListCredit ==
  ASSUME CreditInv, NEW p \in Procs, NEW command, NEW new, NEW next \in {"mt_append", "ro_append"},
         ListRows(p, command, new, next), \A e \in new : e.kind \in LaterKinds
  PROVE  CreditInv'
<1> USE DEF storeVars, chainVars
<1>1. ChainType'
  BY DEF ListRows, Goto, CreditInv, ChainType
<1>2. AnswerWasDeep' /\ SettlingWasDeep' /\ RowsAreLater'
  BY DEF ListRows, Goto, At, CreditInv, ChainType, AnswerWasDeep, SettlingWasDeep, RowsAreLater
<1>3. DeepRecorded' /\ ConfirmedWasDeep' /\ CreditedOnlyWhenDeep'
  BY DEF ListRows, CreditInv, DeepRecorded, ConfirmedWasDeep, CreditedOnlyWhenDeep, RewardRows, Rows
<1>4. QED
  BY <1>1, <1>2, <1>3 DEF CreditInv

\* Their transaction.
LEMMA ListedCredit ==
  ASSUME CreditInv, NEW p \in Procs, NEW here, AppendListed(p, here)
  PROVE  CreditInv'
<1> USE DEF storeVars, chainVars
<1>1. AppendRows(rows[p]) /\ Finish(p) /\ deep' = deep
  BY DEF AppendListed
<1>2. \A e \in rows[p] : e.kind \notin {"reward_immature", "pool_fee"}
  BY DEF CreditInv, RowsAreLater, LaterKinds
<1>3. CreditedOnlyWhenDeep'
  BY <1>1, <1>2, AppendKeeps
<1>4. DeepRecorded' /\ ConfirmedWasDeep'
  BY DEF AppendListed, CreditInv, DeepRecorded, ConfirmedWasDeep
<1>5. QED
  BY <1>1, <1>3, <1>4, FinishKeeps DEF AppendListed, CreditInv, ChainType

\* Rows made out of others have the kind asked for.
LEMMA AsKind ==
  ASSUME NEW entries, NEW kind
  PROVE  \A e \in As(entries, kind) : e.kind = kind
BY DEF As, Entry

\* Every step of a run keeps the invariant.
LEMMA RunCredit ==
  ASSUME CreditInv, NEW p \in Procs, Run(p)
  PROVE  CreditInv'
<1>1. \A e \in list_mature_reward_entries : e.kind \in LaterKinds
  BY AsKind DEF list_mature_reward_entries, LaterKinds
<1>2. \A e \in list_orphan_reversal_entries : e.kind \in LaterKinds
  BY AsKind DEF list_orphan_reversal_entries, LaterKinds
<1>3. CASE Reconcile(p)
  BY <1>3, ReconcileCredit
<1>4. CASE Settle(p)
  BY <1>4, SettleCredit
<1>5. CASE MatureList(p)
  BY <1>1, <1>5, ListCredit DEF MatureList
<1>6. CASE ReverseList(p)
  BY <1>2, <1>6, ListCredit DEF ReverseList
<1>7. CASE MatureAppend(p) \/ ReverseAppend(p)
  BY <1>7, ListedCredit DEF MatureAppend, ReverseAppend
<1>8. QED
  BY <1>3, <1>4, <1>5, <1>6, <1>7 DEF Run

\* A block is found, arrives late, gets deeper, or is caught in a reorg.
LEMMA ChainCredit ==
  ASSUME CreditInv, NEW k \in Blocks, FindBlock(k) \/ Arrive(k) \/ Extend(k) \/ Reorg(k)
  PROVE  CreditInv'
<1> USE DEF storeVars
<1>0. chain[k] \in Position
  BY DEF CreditInv, ChainType
<1>1. CASE FindBlock(k)
  <2>1. PICK o \in SubmitOutcome :
          /\ record_block_candidate(k, o)
          /\ \E where \in MayBeAt(o) : MoveTo(k, where, IF where = "main" THEN 1 ELSE 0)
    BY <1>1 DEF FindBlock
  <2>2. block_candidate_initial_status(o) \in Submitted \cup {"orphaned"}
    BY DEF block_candidate_initial_status, Submitted
  <2>3. /\ block' \in [Blocks -> BlockRow]
        /\ \A j \in Blocks : block'[j].status = "confirmed" => block[j].status = "confirmed"
    BY <2>1, <2>2 DEF record_block_candidate, CreditInv, ChainType, BlockRow, BlockStatus, Submitted
  <2>4. PICK where \in {"nowhere", "away", "main", "fork"}, conf \in Nat : MoveTo(k, where, conf)
    BY <2>1 DEF MayBeAt
  <2>5. UNCHANGED <<ledger, runVars>>
    BY <1>1 DEF FindBlock
  <2>6. QED
    BY <2>3, <2>4, <2>5, MoveKeeps, ChainStep
<1>2. CASE Arrive(k) \/ Extend(k) \/ Reorg(k)
  <2>1. PICK where \in {"nowhere", "away", "main", "fork"}, conf \in Nat : MoveTo(k, where, conf)
    BY <1>0, <1>2 DEF Arrive, Extend, Reorg, Position
  <2>2. UNCHANGED <<block, ledger, runVars>>
    BY <1>2 DEF Arrive, Extend, Reorg
  <2>3. block' \in [Blocks -> BlockRow]
    BY <2>2 DEF CreditInv, ChainType
  <2>4. QED
    BY <2>1, <2>2, <2>3, MoveKeeps, ChainStep
<1>3. QED
  BY <1>1, <1>2

\* A run that dies forgets what it was about to do.
LEMMA CrashCredit ==
  ASSUME CreditInv, NEW p \in Procs, Crash(p)
  PROVE  CreditInv'
<1> USE DEF storeVars, chainVars
<1>1. Finish(p) /\ deep' = deep
  BY DEF Crash
<1>2. DeepRecorded' /\ ConfirmedWasDeep' /\ CreditedOnlyWhenDeep'
  BY DEF Crash, CreditInv, DeepRecorded, ConfirmedWasDeep, CreditedOnlyWhenDeep, RewardRows, Rows
<1>3. QED
  BY <1>1, <1>2, FinishKeeps DEF Crash, CreditInv, ChainType

\* A payout that locks a balance is no reward.
LEMMA LockCredit ==
  ASSUME CreditInv, NEW m \in Miners, LockPayout(m)
  PROVE  CreditInv'
<1> USE DEF chainVars
<1>1. PICK e : e.kind = "payout_lock" /\ AppendRows({e})
  BY DEF LockPayout, Entry
<1>2. CreditedOnlyWhenDeep'
  BY <1>1, AppendKeeps DEF LockPayout
<1>3. QED
  BY <1>2 DEF LockPayout, CreditInv, ChainType, RowsAreLater, DeepRecorded, AnswerWasDeep,
              ConfirmedWasDeep, SettlingWasDeep, At, runVars

\* A step that changes nothing.
LEMMA StutterCredit ==
  ASSUME CreditInv, UNCHANGED vars
  PROVE  CreditInv'
BY DEF vars, storeVars, chainVars, runVars, CreditInv, ChainType, RowsAreLater, DeepRecorded,
       AnswerWasDeep, ConfirmedWasDeep, SettlingWasDeep, CreditedOnlyWhenDeep, RewardRows, Rows, At

\* The invariant holds in every reachable state: what the database and the
\* runs believe to be confirmed has been confirmed by the chain.
THEOREM CreditInvariant == Spec => []CreditInv
<1>1. CreditInv /\ [Next]_vars => CreditInv'
  BY RunCredit, CrashCredit, ChainCredit, LockCredit, StutterCredit DEF Next
<1>2. QED
  BY InitCredit, <1>1, PTL DEF Spec

\* No block is credited before it has been confirm_depth deep, whatever runs
\* of reconcile-blocks and settle-rewards overlap.
THEOREM CreditDepth == Spec => []CreditedOnlyWhenDeep
<1>1. CreditInv => CreditedOnlyWhenDeep
  BY DEF CreditInv
<1>2. QED
  BY CreditInvariant, <1>1, PTL

-----------------------------------------------------------------------------
(***************************************************************************)
(* The rows settle-rewards writes for a block.                             *)
(***************************************************************************)
\* A row for each of these miners.
EntriesOf(S, kind, ref, a) == {Entry(m, kind, ref, a[m]) : m \in S}

\* Rows of different miners add up to what the miners get.
LEMMA TotalOfEntries ==
  ASSUME NEW S, IsFiniteSet(S), NEW a \in [S -> Nat], NEW kind, NEW ref
  PROVE  /\ IsFiniteSet(EntriesOf(S, kind, ref, a))
         /\ TotalOf(EntriesOf(S, kind, ref, a)) = SumFunctionOnSet(a, S)
<1> DEFINE R(s) == {Entry(m, kind, ref, a[m]) : m \in s}
           Fits(s) == IsFiniteSet(R(s)) /\ TotalOf(R(s)) = SumFunctionOnSet(a, s)
           C == {s \in FiniteSubsetsOf(S) : ~Fits(s)}
<1>0. C \subseteq FiniteSubsetsOf(S) OBVIOUS
<1>1. ASSUME C # {} PROVE FALSE
  <2>1. PICK s \in C : \A u \in C : ~(u \subseteq s /\ u # s)
    <3> HIDE DEF C
    <3>1. QED BY <1>0, <1>1, SmallestSet
  <2>2. s \subseteq S /\ IsFiniteSet(s) /\ ~Fits(s) BY <2>1 DEF FiniteSubsetsOf
  <2>3. s # {}
    <3>1. R({}) = {} OBVIOUS
    <3>2. TotalOf({}) = 0 BY SumEmpty DEF TotalOf
    <3>3. Fits({}) BY <3>1, <3>2, SumEmpty, FS_EmptySet
    <3> HIDE DEF Fits
    <3>4. QED BY <2>2, <3>3
  <2>4. PICK z \in s : TRUE BY <2>3
  <2> DEFINE r == s \ {z}
             e == Entry(z, kind, ref, a[z])
  <2>5. IsFiniteSet(r) /\ r \subseteq s /\ r # s BY <2>2, <2>4, FS_RemoveElement
  <2>6. r \in FiniteSubsetsOf(S) BY <2>2, <2>5 DEF FiniteSubsetsOf
  <2>7. Fits(r)
    <3> HIDE DEF r, Fits
    <3>1. r \notin C
      <4> HIDE DEF C
      <4>1. QED BY <2>1, <2>5
    <3>2. QED BY <2>6, <3>1
  <2>8. R(s) = R(r) \cup {e} BY <2>4
  <2>9. e \notin R(r) /\ \A x \in R(r) \cup {e} : x.amount \in Nat
    <3>1. \A m : Entry(m, kind, ref, a[m]).miner = m /\ Entry(m, kind, ref, a[m]).amount = a[m]
      BY DEF Entry
    <3>2. \A x \in R(r) : x.miner \in r /\ x.amount \in Nat BY <2>2, <3>1
    <3>3. e.miner = z /\ e.amount \in Nat BY <2>2, <2>4, <3>1
    <3>4. z \notin r OBVIOUS
    <3> HIDE DEF R, e, r
    <3>5. QED BY <3>2, <3>3, <3>4
  <2>10. e.amount = a[z] BY DEF Entry
  <2>11. Counts(a, s) BY <2>2 DEF Counts
  <2>12. SumFunctionOnSet(a, s) = a[z] + SumFunctionOnSet(a, r) BY <2>2, <2>4, <2>11, SumRemove
  <2>13. IsFiniteSet(R(r)) /\ TotalOf(R(r)) = SumFunctionOnSet(a, r) BY <2>7
  <2> HIDE DEF R, e, r
  <2>14. IsFiniteSet(R(s)) /\ TotalOf(R(s)) = e.amount + TotalOf(R(r)) BY <2>8, <2>9, <2>13, TotalAdd
  <2>15. QED BY <2>2, <2>10, <2>12, <2>13, <2>14
<1>2. Fits(S)
  <2>1. S \in FiniteSubsetsOf(S) BY DEF FiniteSubsetsOf
  <2> HIDE DEF Fits
  <2>2. QED BY <1>1, <2>1
<1>3. QED BY <1>2 DEF EntriesOf

\* The rows of a block are its whole reward.
LEMMA EntriesWhole ==
  ASSUME NEW k \in Blocks, Division(k).ok
  PROVE  /\ TotalOf(reward_ledger_entries(k, Division(k))) = BlockReward[k]
         /\ reward_ledger_entries(k, Division(k)) # {}
<1> DEFINE result == Division(k)
           payees == MinersOf(Window[k])
           a == result.allocations
           R == EntriesOf(payees, "reward_immature", BlockRef(k), a)
           fee == Entry(Pool, "pool_fee", BlockRef(k), result.fee)
<1>1. BlockReward[k] \in Nat /\ FeeBps \in Nat /\ Window[k] \in Windows(Miners) /\ Miners \subseteq Nat
  BY RewardsAssumption DEF Windows
<1>2. /\ IsFiniteSet(payees) /\ payees # {} /\ payees \subseteq Miners
      /\ a \in [payees -> Nat] /\ result.fee \in Nat
      /\ SumFunctionOnSet(a, payees) + result.fee = BlockReward[k]
  <2>1. result = allocate_pplns(BlockReward[k], FeeBps, Window[k])
    BY DEF Division
  <2> HIDE DEF result
  <2>2. allocate_pplns(BlockReward[k], FeeBps, Window[k]).ok
    BY <2>1 DEF result
  <2>3. PICK w \in Windows(Miners) : w = Window[k]
    BY <1>1
  <2>4. PICK r \in Nat, f \in Nat : r = BlockReward[k] /\ f = FeeBps
    BY <1>1
  <2>5. /\ IsFiniteSet(MinersOf(w)) /\ MinersOf(w) # {} /\ MinersOf(w) \subseteq Miners
        /\ allocate_pplns(r, f, w).allocations \in [MinersOf(w) -> Nat]
        /\ allocate_pplns(r, f, w).fee \in Nat
        /\ SumFunctionOnSet(allocate_pplns(r, f, w).allocations, MinersOf(w))
             + allocate_pplns(r, f, w).fee = r
    <3>1. allocate_pplns(r, f, w).ok BY <2>2, <2>3, <2>4
    <3>2. QED BY <1>1, <3>1, PplnsIsWhole, Zenon
  <2>6. QED
    BY <2>1, <2>3, <2>4, <2>5
<1>d. DOMAIN a = payees BY <1>2
<1> HIDE DEF payees, a
<1>3. IsFiniteSet(R) /\ TotalOf(R) = SumFunctionOnSet(a, payees)
  BY <1>2, TotalOfEntries
<1>4. R # {} BY <1>2 DEF EntriesOf
<1>5. reward_ledger_entries(k, result) = R \cup (IF result.fee > 0 THEN {fee} ELSE {})
  BY <1>d DEF reward_ledger_entries, a, EntriesOf
<1> HIDE DEF result
<1>6. fee \notin R /\ (\A x \in R \cup {fee} : x.amount \in Nat) /\ fee.amount = result.fee
  <2>1. fee.miner = Pool /\ fee.amount = result.fee BY DEF Entry
  <2>2. \A x \in R : x.miner \in payees /\ x.amount \in Nat BY <1>2 DEF Entry, EntriesOf
  <2> HIDE DEF R, fee
  <2>3. QED BY <1>2, <2>1, <2>2, RewardsAssumption
<1>7. SumFunctionOnSet(a, payees) \in Nat
  <2>1. Counts(a, payees) BY <1>2 DEF Counts
  <2>2. QED BY <1>2, <2>1, SumType
<1> HIDE DEF R, fee
<1>8. CASE result.fee > 0
  <2>1. TotalOf(R \cup {fee}) = fee.amount + TotalOf(R) BY <1>3, <1>6, TotalAdd
  <2>2. reward_ledger_entries(k, result) = R \cup {fee} BY <1>5, <1>8
  <2>3. QED BY <1>2, <1>3, <1>6, <1>7, <2>1, <2>2 DEF result
<1>9. CASE ~(result.fee > 0)
  <2>1. reward_ledger_entries(k, result) = R BY <1>5, <1>9
  <2>2. result.fee = 0 BY <1>2, <1>9
  <2>3. QED BY <1>2, <1>3, <1>4, <1>7, <2>1, <2>2 DEF result
<1>10. QED BY <1>8, <1>9

-----------------------------------------------------------------------------
(***************************************************************************)
(* Whichever runs divide a block, its rows are those of one division.      *)
(***************************************************************************)
\* A run that ends, or dies, has no list and no answer.
LEMMA FinishDivides ==
  ASSUME CreditInv, DivisionInv, NEW p \in Procs, Finish(p), UNCHANGED <<block, ledger>>
  PROVE  DivisionInv'
<1>1. RewardKnown'
  BY DEF Finish, Goto, At, CreditInv, ChainType, DivisionInv, RewardKnown
<1>2. ListedKnown'
  BY DEF Finish, Goto, At, CreditInv, ChainType, DivisionInv, ListedKnown
<1>3. DividedOnce'
  BY DEF DivisionInv, DividedOnce, RewardRows, Rows
<1>4. QED
  BY <1>1, <1>2, <1>3 DEF DivisionInv

\* Rows of other kinds leave the reward rows alone.
LEMMA AppendDivides ==
  ASSUME DivisionInv, NEW new, AppendRows(new),
         \A e \in new : e.kind \notin {"reward_immature", "pool_fee"}
  PROVE  DividedOnce'
<1>1. ASSUME NEW k \in Blocks PROVE RewardRows(k)' = RewardRows(k)
  BY DEF AppendRows, NewRows, RewardRows, Rows
<1>2. QED
  BY <1>1 DEF DivisionInv, DividedOnce

\* Nothing is divided at the start.
LEMMA InitDivides == Init => DivisionInv
BY DEF Init, DivisionInv, RewardKnown, ListedKnown, DividedOnce, RewardRows, Rows, At, NoRow

\* A node reports the coinbase, or no reward while it lacks the body.
LEMMA ReconcileDivides ==
  ASSUME CreditInv, DivisionInv, NEW p \in Procs, Reconcile(p)
  PROVE  DivisionInv'
<1> USE DEF storeVars, chainVars
<1>1. CASE ReconcileList(p)
  <2>1. RewardKnown' /\ ListedKnown'
    BY <1>1 DEF ReconcileList, Goto, At, CreditInv, ChainType, DivisionInv, RewardKnown, ListedKnown
  <2>2. DividedOnce'
    BY <1>1 DEF ReconcileList, DivisionInv, DividedOnce, RewardRows, Rows
  <2>3. QED
    BY <2>1, <2>2 DEF DivisionInv
<1>2. CASE ReconcileQuery(p)
  <2>1. PICK k \in todo[p], body \in BOOLEAN :
          /\ cur' = [cur EXCEPT ![p] = k]
          /\ answer' = [answer EXCEPT ![p] = BlockUpdate(BlockStatusAnswer(k, body))]
    BY <1>2, RewardsAssumption DEF ReconcileQuery
  <2>2. BlockUpdate(BlockStatusAnswer(k, body)).reward \in {0, BlockReward[k]}
    BY DEF BlockUpdate, BlockStatusAnswer
  <2>3. RewardKnown'
    BY <1>2, <2>1, <2>2 DEF ReconcileQuery, Goto, At, CreditInv, ChainType, DivisionInv, RewardKnown
  <2>4. ListedKnown'
    BY <1>2 DEF ReconcileQuery, Goto, At, CreditInv, ChainType, DivisionInv, ListedKnown
  <2>5. DividedOnce'
    BY <1>2 DEF ReconcileQuery, DivisionInv, DividedOnce, RewardRows, Rows
  <2>6. QED
    BY <2>3, <2>4, <2>5 DEF DivisionInv
<1>3. CASE ReconcileUpdate(p)
  <2>1. cur[p] \in Blocks /\ answer[p].reward \in {0, BlockReward[cur[p]]}
    BY <1>3 DEF ReconcileUpdate, CreditInv, AnswerWasDeep, DivisionInv, RewardKnown
  <2>2. RewardKnown'
    BY <1>3, <2>1 DEF ReconcileUpdate, Goto, At, CreditInv, ChainType, DivisionInv, RewardKnown
  <2>3. ListedKnown'
    BY <1>3 DEF ReconcileUpdate, Goto, At, CreditInv, ChainType, DivisionInv, ListedKnown
  <2>4. DividedOnce'
    BY <1>3 DEF ReconcileUpdate, DivisionInv, DividedOnce, RewardRows, Rows
  <2>5. QED
    BY <2>2, <2>3, <2>4 DEF DivisionInv
<1>4. CASE ReconcileEnd(p)
  BY <1>4, FinishDivides DEF ReconcileEnd
<1>5. QED
  BY <1>1, <1>2, <1>3, <1>4 DEF Reconcile

\* Rows of a block that has none are all new, and rows it has are not written again.
LEMMA SettleOnce ==
  ASSUME DivisionInv, NEW k \in Blocks, Division(k).ok,
         AppendRows(reward_ledger_entries(k, Division(k)))
  PROVE  DividedOnce'
<1> DEFINE E == reward_ledger_entries(k, Division(k))
<1>1. \A e \in E : e.ref = BlockRef(k) /\ e.kind \in {"reward_immature", "pool_fee"}
  BY DEF reward_ledger_entries, Entry
<1>2. ledger' = ledger \cup {e \in E : Inserts(ledger, e)}
  BY DEF AppendRows, NewRows
<1> HIDE DEF E
<1>3. ASSUME NEW j \in Blocks, j # k PROVE RewardRows(j)' = RewardRows(j)
  <2>1. BlockRef(j) # BlockRef(k)
    BY <1>3 DEF BlockRef
  <2>2. QED
    BY <1>1, <1>2, <2>1 DEF RewardRows, Rows
<1>4. RewardRows(k)' = E
  <2>1. CASE RewardRows(k) = {}
    <3>1. \A e \in E : Inserts(ledger, e)
      BY <1>1, <2>1 DEF Inserts, SameKey, RewardRows, Rows
    <3>2. QED
      BY <1>1, <1>2, <2>1, <3>1 DEF RewardRows, Rows
  <2>2. CASE RewardRows(k) # {}
    <3>1. RewardRows(k) = E
      BY <2>2 DEF DivisionInv, DividedOnce, E
    <3>2. \A e \in E : e \in ledger /\ ~Inserts(ledger, e)
      BY <3>1 DEF RewardRows, Rows, Inserts, SameKey
    <3>3. ledger' = ledger
      BY <1>2, <3>2
    <3>4. QED
      BY <3>1, <3>3 DEF RewardRows, Rows
  <2>3. QED
    BY <2>1, <2>2
<1>5. QED
  BY <1>3, <1>4 DEF DivisionInv, DividedOnce, E

\* settle-rewards divides the coinbase, from an old list too.
LEMMA SettleDivides ==
  ASSUME CreditInv, DivisionInv, NEW p \in Procs, Settle(p)
  PROVE  DivisionInv'
<1> USE DEF storeVars, chainVars
<1>1. CASE SettleList(p)
  <2>1. \A k \in Unsettled : block[k].reward = BlockReward[k] /\ k \in Blocks
    BY DEF Unsettled, DivisionInv, RewardKnown
  <2>2. RewardKnown'
    BY <1>1 DEF SettleList, Goto, At, CreditInv, ChainType, DivisionInv, RewardKnown
  <2>3. ListedKnown'
    BY <1>1, <2>1 DEF SettleList, Goto, At, CreditInv, ChainType, DivisionInv, ListedKnown
  <2>4. DividedOnce'
    BY <1>1 DEF SettleList, DivisionInv, DividedOnce, RewardRows, Rows
  <2>5. QED
    BY <2>2, <2>3, <2>4 DEF DivisionInv
<1>2. CASE SettleBlock(p)
  <2>1. PICK k \in todo[p] :
          LET result == allocate_pplns(listed[p][k], FeeBps, Window[k])
          IN  /\ todo' = [todo EXCEPT ![p] = @ \ {k}]
              /\ IF result.ok THEN AppendRows(reward_ledger_entries(k, result))
                              ELSE UNCHANGED <<ledger, balance>>
    BY <1>2 DEF SettleBlock
  <2>2. k \in Blocks /\ listed[p][k] = BlockReward[k]
    BY <1>2, <2>1 DEF SettleBlock, CreditInv, ChainType, DivisionInv, ListedKnown
  <2>3. allocate_pplns(listed[p][k], FeeBps, Window[k]) = Division(k)
    BY <2>2 DEF Division
  <2>4. DividedOnce'
    <3>1. CASE Division(k).ok
      BY <2>1, <2>2, <2>3, <3>1, SettleOnce
    <3>2. CASE ~Division(k).ok
      BY <2>1, <2>3, <3>2 DEF DivisionInv, DividedOnce, RewardRows, Rows
    <3>3. QED
      BY <3>1, <3>2
  <2>5. RewardKnown' /\ ListedKnown'
    BY <1>2, <2>1 DEF SettleBlock, At, CreditInv, ChainType, DivisionInv, RewardKnown, ListedKnown
  <2>6. QED
    BY <2>4, <2>5 DEF DivisionInv
<1>3. CASE SettleEnd(p)
  BY <1>3, FinishDivides DEF SettleEnd
<1>4. QED
  BY <1>1, <1>2, <1>3 DEF Settle

\* mature-rewards and reverse-orphans list rows of other kinds,
LEMMA ListDivides ==
  ASSUME CreditInv, DivisionInv, NEW p \in Procs, NEW command, NEW new,
         NEW next \in {"mt_append", "ro_append"}, ListRows(p, command, new, next)
  PROVE  DivisionInv'
<1> USE DEF storeVars, chainVars
<1>1. RewardKnown' /\ ListedKnown'
  BY DEF ListRows, Goto, At, CreditInv, ChainType, DivisionInv, RewardKnown, ListedKnown
<1>2. DividedOnce'
  BY DEF ListRows, DivisionInv, DividedOnce, RewardRows, Rows
<1>3. QED
  BY <1>1, <1>2 DEF DivisionInv

\* and append them.
LEMMA ListedDivides ==
  ASSUME CreditInv, DivisionInv, NEW p \in Procs, NEW here, AppendListed(p, here)
  PROVE  DivisionInv'
<1> USE DEF chainVars
<1>1. AppendRows(rows[p]) /\ Finish(p) /\ block' = block
  BY DEF AppendListed
<1>2. \A e \in rows[p] : e.kind \notin {"reward_immature", "pool_fee"}
  BY DEF CreditInv, RowsAreLater, LaterKinds
<1>3. DividedOnce'
  BY <1>1, <1>2, AppendDivides
<1>4. RewardKnown' /\ ListedKnown'
  BY <1>1 DEF Finish, Goto, At, CreditInv, ChainType, DivisionInv, RewardKnown, ListedKnown
<1>5. QED
  BY <1>3, <1>4 DEF DivisionInv

\* Every step of a run keeps the invariant.
LEMMA RunDivides ==
  ASSUME CreditInv, DivisionInv, NEW p \in Procs, Run(p)
  PROVE  DivisionInv'
<1>1. CASE MatureList(p) \/ ReverseList(p)
  BY <1>1, ListDivides DEF MatureList, ReverseList
<1>2. CASE MatureAppend(p) \/ ReverseAppend(p)
  BY <1>2, ListedDivides DEF MatureAppend, ReverseAppend
<1>3. QED
  BY <1>1, <1>2, ReconcileDivides, SettleDivides DEF Run

\* The chain, a payout and a crash write no reward.
LEMMA WorldDivides ==
  ASSUME CreditInv, DivisionInv,
         \/ \E p \in Procs : Crash(p)
         \/ \E k \in Blocks : FindBlock(k) \/ Arrive(k) \/ Extend(k) \/ Reorg(k)
         \/ \E m \in Miners : LockPayout(m)
         \/ UNCHANGED vars
  PROVE  DivisionInv'
<1> USE DEF storeVars, chainVars, runVars
<1>1. CASE \E p \in Procs : Crash(p)
  BY <1>1, FinishDivides DEF Crash
<1>2. CASE \E k \in Blocks : FindBlock(k)
  <2>1. PICK k \in Blocks : FindBlock(k)
    BY <1>2
  <2>2. \A j \in Blocks : block'[j].reward = block[j].reward
    BY <2>1 DEF FindBlock, record_block_candidate, CreditInv, ChainType, BlockRow
  <2>3. RewardKnown' /\ ListedKnown'
    BY <2>1, <2>2 DEF FindBlock, At, DivisionInv, RewardKnown, ListedKnown
  <2>4. DividedOnce'
    BY <2>1 DEF FindBlock, DivisionInv, DividedOnce, RewardRows, Rows
  <2>5. QED
    BY <2>3, <2>4 DEF DivisionInv
<1>3. CASE (\E k \in Blocks : Arrive(k) \/ Extend(k) \/ Reorg(k)) \/ UNCHANGED vars
  <2>1. UNCHANGED <<block, ledger, runVars>>
    BY <1>3 DEF Arrive, Extend, Reorg, vars
  <2>2. QED
    BY <2>1 DEF At, DivisionInv, RewardKnown, ListedKnown, DividedOnce, RewardRows, Rows
<1>4. CASE \E m \in Miners : LockPayout(m)
  <2>1. PICK e : e.kind = "payout_lock" /\ AppendRows({e})
    BY <1>4 DEF LockPayout, Entry
  <2>2. DividedOnce'
    BY <2>1, AppendDivides
  <2>3. RewardKnown' /\ ListedKnown'
    BY <1>4 DEF LockPayout, At, DivisionInv, RewardKnown, ListedKnown
  <2>4. QED
    BY <2>2, <2>3 DEF DivisionInv
<1>5. QED
  BY <1>1, <1>2, <1>3, <1>4

\* Two runs of settle-rewards that overlap, on lists that may be old, write the rows
\* of one division of the coinbase.
THEOREM DivisionInvariant == Spec => []DivisionInv
<1>1. CreditInv /\ DivisionInv /\ [Next]_vars => DivisionInv'
  BY RunDivides, WorldDivides DEF Next
<1>2. QED
  BY InitDivides, CreditInvariant, <1>1, PTL DEF Spec

\* settle-rewards: the rows of a block, the pool's fee included, add up to its
\* coinbase, whatever the share window, the fee and the number of miners, and however
\* runs overlap or die.
THEOREM RewardsConserved == Spec => []RewardConserved
<1>1. DivisionInv => RewardConserved
  BY EntriesWhole DEF DivisionInv, DividedOnce, RewardConserved
<1>2. QED
  BY DivisionInvariant, <1>1, PTL

-----------------------------------------------------------------------------
(***************************************************************************)
(* The balances.                                                           *)
(***************************************************************************)
\* What matures is part of what was credited.
LEMMA RewardsOfTotal ==
  ASSUME NEW M, IsFiniteSet(M), \A e \in M : IsRow(e) /\ e.kind = "reward_mature",
         \A e, f \in M : SameKey(e, f) => e = f
  PROVE  TotalOf({RewardOf(e) : e \in M}) = TotalOf(M)
<1> DEFINE T(s) == {RewardOf(e) : e \in s}
           Fits(s) == IsFiniteSet(T(s)) /\ TotalOf(T(s)) = TotalOf(s)
           C == {s \in FiniteSubsetsOf(M) : ~Fits(s)}
<1>0. C \subseteq FiniteSubsetsOf(M) OBVIOUS
<1>r. \A e : /\ RewardOf(e).miner = e.miner /\ RewardOf(e).ref = e.ref
             /\ RewardOf(e).amount = e.amount
  BY DEF RewardOf, Entry
<1>1. ASSUME C # {} PROVE FALSE
  <2>1. PICK s \in C : \A u \in C : ~(u \subseteq s /\ u # s)
    <3> HIDE DEF C
    <3>1. QED BY <1>0, <1>1, SmallestSet
  <2>2. s \subseteq M /\ IsFiniteSet(s) /\ ~Fits(s) BY <2>1 DEF FiniteSubsetsOf
  <2>3. s # {}
    <3>1. T({}) = {} OBVIOUS
    <3>2. Fits({}) BY <3>1, FS_EmptySet
    <3> HIDE DEF Fits
    <3>3. QED BY <2>2, <3>2
  <2>4. PICK z \in s : TRUE BY <2>3
  <2> DEFINE r == s \ {z}
             e == RewardOf(z)
  <2>5. IsFiniteSet(r) /\ r \subseteq s /\ r # s BY <2>2, <2>4, FS_RemoveElement
  <2>6. r \in FiniteSubsetsOf(M) BY <2>2, <2>5 DEF FiniteSubsetsOf
  <2>7. Fits(r)
    <3> HIDE DEF r, Fits
    <3>1. r \notin C
      <4> HIDE DEF C
      <4>1. QED BY <2>1, <2>5
    <3>2. QED BY <2>6, <3>1
  <2>8. T(s) = T(r) \cup {e} BY <2>4
  <2>9. e \notin T(r)
    <3>1. ASSUME NEW x \in r, RewardOf(x) = RewardOf(z) PROVE FALSE
      <4>1. SameKey(x, z) BY <1>r, <2>2, <2>4, <3>1 DEF SameKey
      <4>2. QED BY <2>2, <2>4, <4>1
    <3>2. QED BY <3>1
  <2>10. (\A x \in T(r) \cup {e} : x.amount \in Nat) /\ \A x \in r \cup {z} : x.amount \in Nat
    <3>1. \A x \in s : x.amount \in Nat BY <2>2 DEF IsRow
    <3>2. QED BY <1>r, <2>4, <3>1
  <2>11. IsFiniteSet(T(r)) /\ TotalOf(T(r)) = TotalOf(r) BY <2>7
  <2>12. s = r \cup {z} /\ z \notin r BY <2>4
  <2>13. e.amount = z.amount BY <1>r
  <2> HIDE DEF T, e, r
  <2>14. IsFiniteSet(T(s)) /\ TotalOf(T(s)) = e.amount + TotalOf(T(r)) BY <2>8, <2>9, <2>10, <2>11, TotalAdd
  <2>15. TotalOf(r \cup {z}) = z.amount + TotalOf(r) BY <2>5, <2>10, <2>12, TotalAdd
  <2>16. TotalOf(s) = z.amount + TotalOf(r) BY <2>12, <2>15, Zenon
  <2>17. QED BY <2>2, <2>11, <2>13, <2>14, <2>16
<1>2. Fits(M)
  <2>1. M \in FiniteSubsetsOf(M) BY DEF FiniteSubsetsOf
  <2> HIDE DEF Fits
  <2>2. QED BY <1>1, <2>1
<1>3. QED BY <1>2

\* The rows of a miner and a kind.
MinerRows(L, m, kind) == {e \in L : e.miner = m /\ e.kind = kind}

\* A miner has not matured more than was credited.
LEMMA MaturedBound ==
  ASSUME NEW L, IsFiniteSet(L), \A e \in L : IsRow(e), \A e, f \in L : SameKey(e, f) => e = f,
         \A e \in L : e.kind = "reward_mature" => RewardOf(e) \in L, NEW m
  PROVE  TotalOf(MinerRows(L, m, "reward_mature")) <= TotalOf(MinerRows(L, m, "reward_immature"))
<1> DEFINE M == MinerRows(L, m, "reward_mature")
           I == MinerRows(L, m, "reward_immature")
           T == {RewardOf(e) : e \in M}
<1>1. M \in SUBSET L /\ I \in SUBSET L BY DEF MinerRows
<1>2. T \in SUBSET I BY DEF MinerRows, RewardOf, Entry
<1>3. \A e \in M : IsRow(e) /\ e.kind = "reward_mature" BY DEF MinerRows
<1>4. \A e, f \in M : SameKey(e, f) => e = f BY <1>1
<1>5. \A e \in I : e.amount \in Nat BY <1>1 DEF IsRow
<1> HIDE DEF M, I
<1>6. IsFiniteSet(M) /\ IsFiniteSet(I) BY <1>1, FS_Subset
<1>7. TotalOf(T) = TotalOf(M) BY <1>3, <1>4, <1>6, RewardsOfTotal
<1>8. TotalOf(T) <= TotalOf(I)
  <2> HIDE DEF T
  <2>1. QED BY <1>2, <1>5, <1>6, TotalPart
<1>9. QED BY <1>7, <1>8 DEF M, I

\* New rows have keys of their own.
LEMMA AppendKeyed ==
  ASSUME LedgerKeyed, NEW new, IsFiniteSet(new), AppendRows(new),
         \A e \in new : IsRow(e) /\ (e.kind = "reward_immature" => \E k \in Blocks : e.ref = BlockRef(k)),
         \A e, f \in new : SameKey(e, f) => e = f
  PROVE  /\ LedgerKeyed' /\ ledger \subseteq ledger'
         /\ IsFiniteSet(NewRows(ledger, new)) /\ NewRows(ledger, new) \cap ledger = {}
<1> DEFINE N == NewRows(ledger, new)
<1>1. ledger' = ledger \cup N BY DEF AppendRows
<1>2. N \in SUBSET new /\ \A e \in N : Inserts(ledger, e) BY DEF NewRows
<1> HIDE DEF N
<1>3. IsFiniteSet(N) BY <1>2, FS_Subset
<1>4. IsFiniteSet(ledger') BY <1>1, <1>3, FS_Union DEF LedgerKeyed
<1>5. \A e, f \in ledger' : SameKey(e, f) => e = f
  <2>1. \A e, f : SameKey(e, f) => SameKey(f, e) BY DEF SameKey
  <2>2. QED BY <1>1, <1>2, <2>1 DEF LedgerKeyed, Inserts
<1>6. \A e \in ledger' : IsRow(e) /\ (e.kind = "reward_immature" => \E k \in Blocks : e.ref = BlockRef(k))
  BY <1>1, <1>2 DEF LedgerKeyed
<1>7. N \cap ledger = {} BY <1>2 DEF Inserts, SameKey
<1>8. QED BY <1>1, <1>3, <1>4, <1>5, <1>6, <1>7 DEF LedgerKeyed, N

\* They add to what the rows of a miner and a kind add up to.
LEMMA OfMinerAdds ==
  ASSUME LedgerKeyed, LedgerKeyed', NEW new, AppendRows(new),
         IsFiniteSet(NewRows(ledger, new)), NewRows(ledger, new) \cap ledger = {}, NEW m, NEW kind
  PROVE  /\ OfMiner(m, kind) \in Nat /\ OfMiner(m, kind)' \in Nat
         /\ TotalOf(MinerRows(NewRows(ledger, new), m, kind)) \in Nat
         /\ OfMiner(m, kind)' = OfMiner(m, kind) + TotalOf(MinerRows(NewRows(ledger, new), m, kind))
<1> DEFINE A == MinerRows(ledger, m, kind)
           B == MinerRows(NewRows(ledger, new), m, kind)
<1>1. OfMiner(m, kind) = TotalOf(A) BY DEF OfMiner, MinerRows
<1>2. OfMiner(m, kind)' = TotalOf(MinerRows(ledger', m, kind)) BY DEF OfMiner, MinerRows
<1>3. MinerRows(ledger', m, kind) = A \cup B BY DEF MinerRows, AppendRows
<1>4. A \in SUBSET ledger /\ B \in SUBSET NewRows(ledger, new) BY DEF MinerRows
<1>5. \A e \in A \cup B : e.amount \in Nat
  <2>1. \A e \in ledger' : e.amount \in Nat BY DEF LedgerKeyed, IsRow
  <2>2. QED BY <1>4, <2>1 DEF AppendRows
<1>6. A \cap B = {} BY <1>4
<1> HIDE DEF A, B
<1>7. IsFiniteSet(A) /\ IsFiniteSet(B) BY <1>4, FS_Subset DEF LedgerKeyed
<1>8. TotalOf(A) \in Nat /\ TotalOf(B) \in Nat /\ TotalOf(A \cup B) = TotalOf(A) + TotalOf(B)
  BY <1>5, <1>6, <1>7, TotalUnion
<1>9. OfMiner(m, kind)' = TotalOf(A) + TotalOf(B) BY <1>2, <1>3, <1>8, Zenon
<1>10. QED BY <1>1, <1>8, <1>9 DEF B

\* A step that leaves the ledger and the balances alone.
LEMMA QuietKeepsMoney ==
  ASSUME CacheInv, UNCHANGED <<ledger, balance>>
  PROVE  /\ LedgerKeyed' /\ balance' = [m \in Miners |-> balance'[m]]
         /\ \A m \in Miners : CacheOf(m)'
<1>1. ASSUME NEW m, NEW kind PROVE OfMiner(m, kind)' = OfMiner(m, kind)
  BY DEF OfMiner
<1>2. ASSUME NEW m \in Miners PROVE CacheOf(m)'
  BY <1>1 DEF CacheInv, CacheOf
<1>3. LedgerKeyed'
  BY DEF CacheInv, LedgerKeyed, IsRow
<1>4. QED
  BY <1>2, <1>3 DEF CacheInv

\* A run that ends, or dies.
LEMMA FinishCached ==
  ASSUME CreditInv, CacheInv, NEW p \in Procs, Finish(p), UNCHANGED <<block, ledger, balance>>
  PROVE  CacheInv'
<1>1. ReconcilesOpen'
  BY DEF Finish, Goto, At, CreditInv, ChainType, CacheInv, ReconcilesOpen
<1>2. CreditIsFinal'
  BY DEF Finish, Goto, At, CreditInv, ChainType, CacheInv, CreditIsFinal, RewardRows, Rows
<1>3. MatureWasCredited'
  BY DEF Finish, Goto, At, CreditInv, ChainType, CacheInv, MatureWasCredited
<1>4. QED
  BY <1>1, <1>2, <1>3, QuietKeepsMoney DEF CacheInv

\* There are no rows and no balances at the start.
LEMMA InitCached == Init => CacheInv
<1> SUFFICES ASSUME Init PROVE CacheInv
  OBVIOUS
<1>1. ReconcilesOpen /\ CreditIsFinal /\ MatureWasCredited
  BY DEF Init, ReconcilesOpen, CreditIsFinal, MatureWasCredited, RewardRows, Rows, At
<1>2. LedgerKeyed
  BY FS_EmptySet DEF Init, LedgerKeyed
<1>3. ASSUME NEW m, NEW kind PROVE OfMiner(m, kind) = 0
  <2>1. {e \in ledger : e.miner = m /\ e.kind = kind} = {}
    BY DEF Init
  <2>2. TotalOf({}) = 0
    BY SumEmpty DEF TotalOf
  <2>3. QED
    BY <2>1, <2>2 DEF OfMiner
<1>4. ASSUME NEW m \in Miners PROVE CacheOf(m)
  <2>1. balance[m] = EmptyBalance
    BY DEF Init
  <2>2. balance[m] \in Balance /\ \A x \in Buckets : balance[m][x] = 0
    BY <2>1 DEF EmptyBalance, Balance
  <2>3. OfMiner(m, "reward_mature") = 0 /\ OfMiner(m, "reward_immature") = 0
    BY <1>3
  <2>4. QED
    BY <2>2, <2>3 DEF CacheOf, Buckets
<1>5. balance = [m \in Miners |-> balance[m]]
  BY DEF Init
<1>6. QED
  BY <1>1, <1>2, <1>4, <1>5 DEF CacheInv

\* A block that is credited is not reconciled any more.
LEMMA ReconcileCached ==
  ASSUME OneReconciler, CreditInv, CacheInv, NEW p \in Procs, Reconcile(p)
  PROVE  CacheInv'
<1> USE DEF storeVars, chainVars
<1>1. CASE ReconcileList(p)
  <2>1. ReconcilesOpen'
    BY <1>1 DEF ReconcileList, MayStart, Goto, At, CreditInv, ChainType, CacheInv, ReconcilesOpen
  <2>2. CreditIsFinal'
    BY <1>1 DEF ReconcileList, Goto, At, CreditInv, ChainType, CacheInv, CreditIsFinal, RewardRows, Rows
  <2>3. MatureWasCredited'
    BY <1>1 DEF ReconcileList, Goto, At, CreditInv, ChainType, CacheInv, MatureWasCredited
  <2>4. QED
    BY <1>1, <2>1, <2>2, <2>3, QuietKeepsMoney DEF ReconcileList, CacheInv
<1>2. CASE ReconcileQuery(p)
  <2>1. PICK k \in todo[p] : cur' = [cur EXCEPT ![p] = k] /\ todo' = [todo EXCEPT ![p] = @ \ {k}]
    BY <1>2 DEF ReconcileQuery
  <2>2. ReconcilesOpen'
    BY <1>2, <2>1 DEF ReconcileQuery, Goto, At, CreditInv, ChainType, CacheInv, ReconcilesOpen
  <2>3. CreditIsFinal'
    BY <1>2, <2>1 DEF ReconcileQuery, Goto, At, CreditInv, ChainType, CacheInv, CreditIsFinal, RewardRows, Rows
  <2>4. MatureWasCredited'
    BY <1>2 DEF ReconcileQuery, Goto, At, CreditInv, ChainType, CacheInv, MatureWasCredited
  <2>5. QED
    BY <1>2, <2>2, <2>3, <2>4, QuietKeepsMoney DEF ReconcileQuery, CacheInv
<1>3. CASE ReconcileUpdate(p)
  <2>1. /\ block[cur[p]].status \in Reconcilable /\ cur[p] \notin todo[p]
        /\ "reconcile" \in MayRun[p]
    BY <1>3 DEF ReconcileUpdate, At, CacheInv, ReconcilesOpen
  <2>2. \A k \in Blocks : k # cur[p] => block'[k] = block[k]
    BY <1>3 DEF ReconcileUpdate, CreditInv, ChainType
  <2>3. ASSUME NEW q \in Procs, q # p PROVE pc[q] \notin {"rb_query", "rb_update"}
    BY <2>1, <2>3 DEF CacheInv, ReconcilesOpen, OneReconciler
  <2>4. ReconcilesOpen'
    BY <1>3, <2>1, <2>2, <2>3 DEF ReconcileUpdate, Goto, At, CreditInv, ChainType, CacheInv, ReconcilesOpen
  <2>5. \A k \in Blocks : block[k].status = "confirmed" => block'[k].status = "confirmed"
    BY <2>1, <2>2 DEF Reconcilable, Submitted
  <2>6. CreditIsFinal'
    BY <1>3, <2>5 DEF ReconcileUpdate, Goto, At, CreditInv, ChainType, CacheInv, CreditIsFinal, RewardRows, Rows
  <2>7. MatureWasCredited'
    BY <1>3 DEF ReconcileUpdate, Goto, At, CreditInv, ChainType, CacheInv, MatureWasCredited
  <2>8. QED
    BY <1>3, <2>4, <2>6, <2>7, QuietKeepsMoney DEF ReconcileUpdate, CacheInv
<1>4. CASE ReconcileEnd(p)
  BY <1>4, FinishCached DEF ReconcileEnd
<1>5. QED
  BY <1>1, <1>2, <1>3, <1>4 DEF Reconcile

\* The rows of a division: one for each miner, and the pool's.
LEMMA EntriesKeyed ==
  ASSUME NEW k \in Blocks, Division(k).ok
  PROVE  LET E == reward_ledger_entries(k, Division(k))
         IN  /\ IsFiniteSet(E)
             /\ \A e \in E : /\ IsRow(e) /\ e.ref = BlockRef(k)
                             /\ e.kind \in {"reward_immature", "pool_fee"}
                             /\ e.kind = "pool_fee" => e.miner \notin Miners
             /\ \A e, f \in E : SameKey(e, f) => e = f
<1> DEFINE result == Division(k)
           payees == MinersOf(Window[k])
           a == result.allocations
           R == EntriesOf(payees, "reward_immature", BlockRef(k), a)
           fee == Entry(Pool, "pool_fee", BlockRef(k), result.fee)
           F == IF result.fee > 0 THEN {fee} ELSE {}
           E == reward_ledger_entries(k, result)
<1>1. BlockReward[k] \in Nat /\ FeeBps \in Nat /\ Window[k] \in Windows(Miners) /\ Miners \subseteq Nat
  BY RewardsAssumption DEF Windows
<1>2. IsFiniteSet(payees) /\ a \in [payees -> Nat] /\ result.fee \in Nat
  BY <1>1, PplnsIsWhole DEF Division
<1>d. DOMAIN a = payees
  BY <1>2
<1> HIDE DEF payees, a
<1>3. IsFiniteSet(R)
  BY <1>2, TotalOfEntries
<1>4. E = R \cup F
  BY <1>d DEF reward_ledger_entries, a, EntriesOf
<1> HIDE DEF result, E
<1>5. IsFiniteSet(E)
  <2>1. IsFiniteSet({fee}) /\ IsFiniteSet({})
    BY FS_Singleton, FS_EmptySet
  <2>2. IsFiniteSet(F)
    BY <2>1
  <2> HIDE DEF R, F
  <2>3. QED
    BY <1>3, <1>4, <2>2, FS_Union
<1>6. \A e \in R : /\ e = Entry(e.miner, "reward_immature", BlockRef(k), a[e.miner])
                   /\ e.kind = "reward_immature" /\ e.ref = BlockRef(k) /\ e.amount = a[e.miner]
                   /\ e.miner \in payees
  BY DEF EntriesOf, Entry
<1>7. \A e \in F : /\ e = fee /\ e.kind = "pool_fee" /\ e.ref = BlockRef(k) /\ e.amount = result.fee
                   /\ e.miner = Pool
  BY DEF Entry
<1>8. \A e \in F : IsRow(e)
  BY <1>2, <1>7 DEF IsRow
<1>9. \A e \in R : IsRow(e)
  BY <1>2, <1>6 DEF IsRow
<1> HIDE DEF R, F
<1>10. \A e, f \in E : SameKey(e, f) => e = f
  BY <1>4, <1>6, <1>7 DEF SameKey
<1>11. \A e \in E : /\ IsRow(e) /\ e.ref = BlockRef(k)
                    /\ e.kind \in {"reward_immature", "pool_fee"}
                    /\ e.kind = "pool_fee" => e.miner \notin Miners
  BY <1>4, <1>6, <1>7, <1>8, <1>9, RewardsAssumption
<1>12. QED
  BY <1>5, <1>10, <1>11 DEF E, result

\* The total of no row, and of one.
LEMMA TotalOne ==
  ASSUME NEW e, e.amount \in Nat
  PROVE  TotalOf({}) = 0 /\ TotalOf({e}) = e.amount
<1>1. TotalOf({}) = 0
  BY SumEmpty DEF TotalOf
<1>2. TotalOf({} \cup {e}) = e.amount + TotalOf({})
  BY FS_EmptySet, TotalAdd
<1>3. {} \cup {e} = {e}
  OBVIOUS
<1>4. TotalOf({e}) = e.amount + TotalOf({})
  BY <1>2, <1>3
<1>5. QED
  BY <1>1, <1>4

\* settle-rewards applies at most one row to a balance, which takes from no bucket.
LEMMA SettleMoney ==
  ASSUME CacheInv, NEW k \in Blocks, Division(k).ok,
         AppendRows(reward_ledger_entries(k, Division(k)))
  PROVE  /\ LedgerKeyed' /\ ledger \subseteq ledger'
         /\ \A e \in ledger' \ ledger : e \in reward_ledger_entries(k, Division(k))
         /\ balance' = [m \in Miners |-> balance'[m]]
         /\ \A m \in Miners : CacheOf(m)'
<1> DEFINE E == reward_ledger_entries(k, Division(k))
           N == NewRows(ledger, E)
<1>1. /\ IsFiniteSet(E)
      /\ \A e \in E : /\ IsRow(e) /\ e.ref = BlockRef(k)
                      /\ e.kind \in {"reward_immature", "pool_fee"}
                      /\ e.kind = "pool_fee" => e.miner \notin Miners
      /\ \A e, f \in E : SameKey(e, f) => e = f
  BY EntriesKeyed
<1> HIDE DEF E
<1>2. AppendRows(E)
  BY DEF E
<1>3. LedgerKeyed
  BY DEF CacheInv
<1>4. LedgerKeyed' /\ ledger \subseteq ledger' /\ IsFiniteSet(N) /\ N \cap ledger = {}
  BY <1>1, <1>2, <1>3, AppendKeyed
<1>5. ASSUME NEW m \in Miners PROVE CacheOf(m)'
  <2> DEFINE S == {e \in E : e.miner = m}
             bal == balance[m]
  <2>1. balance'[m] = BalanceAfter(ledger, bal, S)
    BY <1>2 DEF AppendRows
  <2>2. \A e \in S : e.kind = "reward_immature" /\ e.amount \in Nat /\ e \in E
    BY <1>1 DEF IsRow
  <2>3. \A e, f \in S : e = f
    BY <1>1, <2>2 DEF SameKey
  <2>4. /\ OfMiner(m, "reward_mature") \in Nat
        /\ OfMiner(m, "reward_mature")'
             = OfMiner(m, "reward_mature") + TotalOf(MinerRows(N, m, "reward_mature"))
    BY <1>2, <1>3, <1>4, OfMinerAdds
  <2>5. MinerRows(N, m, "reward_mature") = {}
    BY <1>1 DEF MinerRows, NewRows
  <2>6. /\ OfMiner(m, "reward_immature") \in Nat
        /\ OfMiner(m, "reward_immature")'
             = OfMiner(m, "reward_immature") + TotalOf(MinerRows(N, m, "reward_immature"))
    BY <1>2, <1>3, <1>4, OfMinerAdds
  <2>7. MinerRows(N, m, "reward_immature") = {e \in S : Inserts(ledger, e)}
    BY <2>2 DEF MinerRows, NewRows
  <2>8. TotalOf({}) = 0
    BY SumEmpty DEF TotalOf
  <2>9. OfMiner(m, "reward_mature")' = OfMiner(m, "reward_mature")
    BY <2>4, <2>5, <2>8
  <2>10. /\ bal \in Balance
         /\ bal["immature"] + OfMiner(m, "reward_mature") = OfMiner(m, "reward_immature")
         /\ bal["confirmed"] + bal["locked"] + bal["paid"] = OfMiner(m, "reward_mature")
    BY DEF CacheInv, CacheOf
  <2> HIDE DEF S, N, bal
  <2>11. CASE \A e \in S : ~Inserts(ledger, e)
    <3>1. MinerRows(N, m, "reward_immature") = {}
      BY <2>7, <2>11
    <3>2. balance'[m] = bal
      <4>1. CASE S = {}
        BY <2>1, <4>1, AfterFew
      <4>2. CASE S # {}
        <5>1. PICK x \in S : S = {x}
          BY <2>3, <4>2
        <5>2. balance'[m] = ApplyEntry(ledger, bal, x)
          BY <2>1, <5>1, AfterFew
        <5>3. ~Inserts(ledger, x)
          BY <2>11
        <5>4. QED
          BY <5>2, <5>3 DEF ApplyEntry
      <4>3. QED
        BY <4>1, <4>2
    <3>3. OfMiner(m, "reward_immature")' = OfMiner(m, "reward_immature")
      BY <2>6, <2>8, <3>1
    <3>4. QED
      BY <2>9, <2>10, <3>2, <3>3 DEF CacheOf
  <2>12. CASE \E e \in S : Inserts(ledger, e)
    <3>1. PICK x \in S : S = {x} /\ Inserts(ledger, x)
      BY <2>3, <2>12
    <3>2. x.amount \in Nat /\ x.kind = "reward_immature"
      BY <2>2
    <3>3. MinerRows(N, m, "reward_immature") = {x}
      BY <2>7, <3>1
    <3>4. OfMiner(m, "reward_immature")' = OfMiner(m, "reward_immature") + x.amount
      BY <2>6, <3>2, <3>3, TotalOne
    <3>5. balance'[m] = Move(bal, "none", "immature", x.amount)
      <4>1. balance'[m] = ApplyEntry(ledger, bal, x)
        BY <2>1, <3>1, AfterFew
      <4>2. QED
        BY <3>1, <3>2, <4>1 DEF ApplyEntry, TakesFrom, AddsTo
    <3>6. /\ balance'[m] \in Balance /\ balance'[m]["immature"] = bal["immature"] + x.amount
          /\ balance'[m]["confirmed"] = bal["confirmed"] /\ balance'[m]["locked"] = bal["locked"]
          /\ balance'[m]["paid"] = bal["paid"]
      BY <2>10, <3>2, <3>5 DEF Move, Monus, Balance, Buckets
    <3>7. bal["immature"] \in Nat
      BY <2>10 DEF Balance, Buckets
    <3>8. balance'[m]["immature"] + OfMiner(m, "reward_mature")' = OfMiner(m, "reward_immature")'
      BY <2>4, <2>6, <2>9, <2>10, <3>2, <3>4, <3>6, <3>7
    <3>9. QED
      BY <2>9, <2>10, <3>6, <3>8 DEF CacheOf
  <2>13. QED
    BY <2>11, <2>12
<1>6. balance' = [m \in Miners |-> balance'[m]]
  BY <1>2 DEF AppendRows
<1>7. \A e \in ledger' \ ledger : e \in E
  BY <1>2 DEF AppendRows, NewRows
<1>8. QED
  BY <1>4, <1>5, <1>6, <1>7 DEF E

\* settle-rewards credits blocks that are confirmed.
LEMMA SettleCached ==
  ASSUME CreditInv, DivisionInv, CacheInv, NEW p \in Procs, Settle(p)
  PROVE  CacheInv'
<1> USE DEF storeVars, chainVars
<1>1. CASE SettleList(p)
  <2>1. \A k \in Unsettled : block[k].status = "confirmed"
    BY DEF Unsettled
  <2>2. ReconcilesOpen'
    BY <1>1 DEF SettleList, Goto, At, CreditInv, ChainType, CacheInv, ReconcilesOpen
  <2>3. CreditIsFinal'
    BY <1>1, <2>1 DEF SettleList, Goto, At, CreditInv, ChainType, CacheInv, CreditIsFinal, RewardRows, Rows
  <2>4. MatureWasCredited'
    BY <1>1 DEF SettleList, Goto, At, CreditInv, ChainType, CacheInv, MatureWasCredited
  <2>5. QED
    BY <1>1, <2>2, <2>3, <2>4, QuietKeepsMoney DEF SettleList, CacheInv
<1>2. CASE SettleBlock(p)
  <2>1. PICK k \in todo[p] :
          LET result == allocate_pplns(listed[p][k], FeeBps, Window[k])
          IN  /\ todo' = [todo EXCEPT ![p] = @ \ {k}]
              /\ IF result.ok THEN AppendRows(reward_ledger_entries(k, result))
                              ELSE UNCHANGED <<ledger, balance>>
    BY <1>2 DEF SettleBlock
  <2>2. k \in Blocks /\ listed[p][k] = BlockReward[k] /\ block[k].status = "confirmed"
    BY <1>2, <2>1 DEF SettleBlock, CreditInv, ChainType, DivisionInv, ListedKnown, CacheInv, CreditIsFinal
  <2>3. allocate_pplns(listed[p][k], FeeBps, Window[k]) = Division(k)
    BY <2>2 DEF Division
  <2>4. /\ LedgerKeyed' /\ ledger \subseteq ledger'
        /\ \A e \in ledger' \ ledger : e.ref = BlockRef(k) /\ e.kind \in {"reward_immature", "pool_fee"}
        /\ balance' = [m \in Miners |-> balance'[m]] /\ \A m \in Miners : CacheOf(m)'
    <3>1. CASE Division(k).ok
      <4>1. AppendRows(reward_ledger_entries(k, Division(k)))
        BY <2>1, <2>3, <3>1
      <4>2. \A e \in reward_ledger_entries(k, Division(k)) :
              e.ref = BlockRef(k) /\ e.kind \in {"reward_immature", "pool_fee"}
        BY <2>2, <3>1, EntriesKeyed
      <4>3. QED
        BY <2>2, <3>1, <4>1, <4>2, SettleMoney
    <3>2. CASE ~Division(k).ok
      <4>1. UNCHANGED <<ledger, balance>>
        BY <2>1, <2>3, <3>2
      <4>2. QED
        BY <4>1, QuietKeepsMoney
    <3>3. QED
      BY <3>1, <3>2
  <2>5. ReconcilesOpen'
    BY <1>2, <2>1 DEF SettleBlock, At, CreditInv, ChainType, CacheInv, ReconcilesOpen
  <2>6. CreditIsFinal'
    <3>1. ASSUME NEW j \in Blocks, RewardRows(j)' # {} PROVE block'[j].status = "confirmed"
      <4>1. PICK e \in ledger' : e.ref = BlockRef(j) /\ e.kind \in {"reward_immature", "pool_fee"}
        BY <3>1 DEF RewardRows, Rows
      <4>2. CASE e \in ledger
        BY <1>2, <4>1, <4>2 DEF SettleBlock, CacheInv, CreditIsFinal, RewardRows, Rows
      <4>3. CASE e \notin ledger
        <5>1. BlockRef(j) = BlockRef(k)
          BY <2>4, <4>1, <4>3
        <5>2. QED
          BY <1>2, <2>2, <5>1 DEF SettleBlock, BlockRef
      <4>4. QED
        BY <4>2, <4>3
    <3>2. \A e \in ledger' : e.kind # "reward_orphan_reversal"
      BY <2>4 DEF CacheInv, CreditIsFinal
    <3>3. QED
      BY <1>2, <2>1, <3>1, <3>2 DEF SettleBlock, At, CreditInv, ChainType, CacheInv, CreditIsFinal
  <2>7. MatureWasCredited'
    BY <1>2, <2>4 DEF SettleBlock, At, CacheInv, MatureWasCredited
  <2>8. QED
    BY <2>4, <2>5, <2>6, <2>7 DEF CacheInv
<1>3. CASE SettleEnd(p)
  BY <1>3, FinishCached DEF SettleEnd
<1>4. QED
  BY <1>1, <1>2, <1>3 DEF Settle

\* The rows that mature-rewards lists are of rewards in the ledger.
LEMMA MatureRows ==
  ASSUME LedgerKeyed
  PROVE  LET R == list_mature_reward_entries
         IN  IsFiniteSet(R) /\ \A e \in R : IsRow(e) /\ e.kind = "reward_mature" /\ RewardOf(e) \in ledger
<1> DEFINE D == {k \in Blocks : block[k].status = "confirmed" /\ block[k].confirmations >= ConfirmDepth}
           P == Pending(D, "reward_mature")
           f == [e \in P |-> Entry(e.miner, "reward_mature", e.ref, e.amount)]
           R == list_mature_reward_entries
<1>1. P \in SUBSET ledger /\ \A e \in P : e.kind = "reward_immature"
  BY DEF Pending
<1>2. R = {f[e] : e \in P}
  BY DEF list_mature_reward_entries, As
<1> HIDE DEF P, R
<1>3. IsFiniteSet(P)
  BY <1>1, FS_Subset DEF LedgerKeyed
<1>4. IsFiniteSet(R)
  <2>1. f \in Surjection(P, R)
    BY <1>2 DEF Surjection
  <2> HIDE DEF f
  <2>2. QED
    BY <1>3, <2>1, FS_Surjection
<1>5. ASSUME NEW e \in R PROVE IsRow(e) /\ e.kind = "reward_mature" /\ RewardOf(e) \in ledger
  <2>1. PICK x \in P : e = Entry(x.miner, "reward_mature", x.ref, x.amount)
    BY <1>2
  <2>2. x \in ledger /\ x = Entry(x.miner, "reward_immature", x.ref, x.amount) /\ x.amount \in Nat
    BY <1>1 DEF LedgerKeyed, IsRow
  <2>3. e.miner = x.miner /\ e.kind = "reward_mature" /\ e.ref = x.ref /\ e.amount = x.amount
    BY <2>1 DEF Entry
  <2>4. RewardOf(e) = x
    BY <2>2, <2>3 DEF RewardOf
  <2>5. QED
    BY <2>1, <2>2, <2>3, <2>4 DEF IsRow
<1>6. QED
  BY <1>4, <1>5 DEF R

\* They move what has been credited and has not matured yet.
LEMMA MatureMoney ==
  ASSUME CacheInv, NEW R, IsFiniteSet(R), AppendRows(R),
         \A e \in R : IsRow(e) /\ e.kind = "reward_mature" /\ RewardOf(e) \in ledger
  PROVE  /\ LedgerKeyed' /\ ledger \subseteq ledger'
         /\ \A e \in ledger' \ ledger : e \in R
         /\ balance' = [m \in Miners |-> balance'[m]]
         /\ \A m \in Miners : CacheOf(m)'
<1> DEFINE N == NewRows(ledger, R)
<1>1. LedgerKeyed
  BY DEF CacheInv
<1>2. \A e, f \in R : SameKey(e, f) => e = f
  <2>1. SUFFICES ASSUME NEW e \in R, NEW f \in R, SameKey(e, f) PROVE e = f
    OBVIOUS
  <2>2. e = Entry(e.miner, "reward_mature", e.ref, e.amount) /\ f = Entry(f.miner, "reward_mature", f.ref, f.amount)
    BY DEF IsRow
  <2>3. e.miner = f.miner /\ e.ref = f.ref
    BY <2>1 DEF SameKey
  <2>4. SameKey(RewardOf(e), RewardOf(f))
    BY <2>3 DEF RewardOf, SameKey, Entry
  <2>5. RewardOf(e) = RewardOf(f)
    BY <1>1, <2>4 DEF LedgerKeyed
  <2>6. e.amount = f.amount
    BY <2>5 DEF RewardOf, Entry
  <2>7. QED
    BY <2>2, <2>3, <2>6
<1>3. \A e \in R : IsRow(e) /\ (e.kind = "reward_immature" => \E k \in Blocks : e.ref = BlockRef(k))
  OBVIOUS
<1>4. LedgerKeyed' /\ ledger \subseteq ledger' /\ IsFiniteSet(N) /\ N \cap ledger = {}
  BY <1>1, <1>2, <1>3, AppendKeyed
<1>5. ledger' = ledger \cup N /\ N \subseteq R
  BY DEF AppendRows, NewRows
<1>6. \A e \in ledger' : e.kind = "reward_mature" => RewardOf(e) \in ledger'
  BY <1>5 DEF CacheInv, MatureWasCredited
<1>7. ASSUME NEW m \in Miners PROVE CacheOf(m)'
  <2> DEFINE S == {e \in R : e.miner = m}
             bal == balance[m]
             new == BalanceAfter(ledger, bal, S)
             t == TotalOf(MinerRows(N, m, "reward_mature"))
  <2>1. balance'[m] = new
    BY DEF AppendRows
  <2>2. /\ OfMiner(m, "reward_mature") \in Nat /\ t \in Nat
        /\ OfMiner(m, "reward_mature")' = OfMiner(m, "reward_mature") + t
    BY <1>1, <1>4, OfMinerAdds
  <2>3. OfMiner(m, "reward_immature")' = OfMiner(m, "reward_immature") /\ OfMiner(m, "reward_immature") \in Nat
    <3>1. MinerRows(N, m, "reward_immature") = {}
      BY <1>5 DEF MinerRows
    <3>2. TotalOf({}) = 0
      BY SumEmpty DEF TotalOf
    <3>3. /\ OfMiner(m, "reward_immature") \in Nat
          /\ OfMiner(m, "reward_immature")'
               = OfMiner(m, "reward_immature") + TotalOf(MinerRows(N, m, "reward_immature"))
      BY <1>1, <1>4, OfMinerAdds
    <3>4. QED
      BY <3>1, <3>2, <3>3
  <2>4. OfMiner(m, "reward_mature")' <= OfMiner(m, "reward_immature")'
    <3>1. TotalOf(MinerRows(ledger', m, "reward_mature")) <= TotalOf(MinerRows(ledger', m, "reward_immature"))
      <4>1. IsFiniteSet(ledger') /\ (\A e \in ledger' : IsRow(e)) /\ \A e, f \in ledger' : SameKey(e, f) => e = f
        BY <1>4 DEF LedgerKeyed, IsRow
      <4> DEFINE L == ledger'
      <4>2. /\ IsFiniteSet(L) /\ (\A e \in L : IsRow(e)) /\ \A e, f \in L : SameKey(e, f) => e = f
            /\ \A e \in L : e.kind = "reward_mature" => RewardOf(e) \in L
        BY <1>6, <4>1
      <4> HIDE DEF L
      <4>3. TotalOf(MinerRows(L, m, "reward_mature")) <= TotalOf(MinerRows(L, m, "reward_immature"))
        BY <4>2, MaturedBound
      <4>4. QED
        BY <4>3 DEF L
    <3>2. QED
      BY <3>1 DEF OfMiner, MinerRows
  <2>5. /\ bal \in Balance
        /\ bal["immature"] + OfMiner(m, "reward_mature") = OfMiner(m, "reward_immature")
        /\ bal["confirmed"] + bal["locked"] + bal["paid"] = OfMiner(m, "reward_mature")
    BY DEF CacheInv, CacheOf
  <2>6. bal["immature"] \in Nat /\ bal["confirmed"] \in Nat /\ bal["locked"] \in Nat /\ bal["paid"] \in Nat
    BY <2>5 DEF Balance, Buckets
  <2>7. NewRows(ledger, S) = MinerRows(N, m, "reward_mature")
    BY DEF NewRows, MinerRows
  <2>8. IsFiniteSet(S) /\ \A e \in S : e.kind = "reward_mature" /\ e.amount \in Nat
    <3>1. S \in SUBSET R
      OBVIOUS
    <3>2. IsFiniteSet(S)
      BY <3>1, FS_Subset
    <3>3. QED
      BY <3>2 DEF IsRow
  <2>9. TotalOf(NewRows(ledger, S)) = t
    BY <2>7, Zenon
  <2> HIDE DEF bal, t, S
  <2>10. t <= bal["immature"]
    BY <2>2, <2>3, <2>4, <2>5, <2>6
  <2>11. /\ new \in Balance /\ new["immature"] + t = bal["immature"]
         /\ new["confirmed"] = bal["confirmed"] + t /\ new["locked"] = bal["locked"] /\ new["paid"] = bal["paid"]
    BY <2>5, <2>8, <2>9, <2>10, AfterMature
  <2> HIDE DEF new
  <2>12. new["immature"] \in Nat
    BY <2>11 DEF Balance, Buckets
  <2>13. new["immature"] + OfMiner(m, "reward_mature")' = OfMiner(m, "reward_immature")'
    BY <2>2, <2>3, <2>5, <2>6, <2>11, <2>12
  <2>14. new["confirmed"] + new["locked"] + new["paid"] = OfMiner(m, "reward_mature")'
    BY <2>2, <2>5, <2>6, <2>11
  <2>15. QED
    BY <2>1, <2>11, <2>13, <2>14 DEF CacheOf
<1>8. balance' = [m \in Miners |-> balance'[m]]
  BY DEF AppendRows
<1>9. QED
  BY <1>4, <1>5, <1>7, <1>8

\* A step of a run other than reconcile-blocks, that ends it and appends rows
\* which are neither rewards nor reversals.
LEMMA AppendedCached ==
  ASSUME CreditInv, CacheInv, NEW p \in Procs, Finish(p), UNCHANGED block,
         LedgerKeyed', ledger \subseteq ledger',
         \A e \in ledger' \ ledger : e.kind = "reward_mature" /\ RewardOf(e) \in ledger,
         balance' = [m \in Miners |-> balance'[m]], \A m \in Miners : CacheOf(m)'
  PROVE  CacheInv'
<1>1. ReconcilesOpen'
  BY DEF Finish, Goto, At, CreditInv, ChainType, CacheInv, ReconcilesOpen
<1>2. CreditIsFinal'
  <2>1. \A k \in Blocks : RewardRows(k)' = RewardRows(k)
    BY DEF RewardRows, Rows
  <2>2. \A e \in ledger' : e.kind # "reward_orphan_reversal"
    BY DEF CacheInv, CreditIsFinal
  <2>3. QED
    BY <2>1, <2>2 DEF Finish, Goto, At, CreditInv, ChainType, CacheInv, CreditIsFinal
<1>3. MatureWasCredited'
  BY DEF Finish, Goto, At, CreditInv, ChainType, CacheInv, MatureWasCredited
<1>4. QED
  BY <1>1, <1>2, <1>3 DEF CacheInv

\* mature-rewards appends what it listed, though rows may be there by then.
LEMMA MatureCached ==
  ASSUME CreditInv, CacheInv, NEW p \in Procs, MatureList(p) \/ MatureAppend(p)
  PROVE  CacheInv'
<1> USE DEF storeVars, chainVars
<1>1. CASE MatureList(p)
  <2> DEFINE R == list_mature_reward_entries
  <2>1. LedgerKeyed
    BY DEF CacheInv
  <2>2. IsFiniteSet(R) /\ \A e \in R : IsRow(e) /\ e.kind = "reward_mature" /\ RewardOf(e) \in ledger
    BY <2>1, MatureRows
  <2> HIDE DEF R
  <2>3. /\ pc' = [pc EXCEPT ![p] = "mt_append"] /\ rows' = [rows EXCEPT ![p] = R]
        /\ UNCHANGED <<block, ledger, balance, cur, todo>>
    BY <1>1 DEF MatureList, ListRows, Goto, R
  <2>4. ReconcilesOpen'
    BY <2>3 DEF At, CreditInv, ChainType, CacheInv, ReconcilesOpen
  <2>5. CreditIsFinal'
    BY <2>3 DEF At, CreditInv, ChainType, CacheInv, CreditIsFinal, RewardRows, Rows
  <2>6. MatureWasCredited'
    BY <2>2, <2>3 DEF At, CreditInv, ChainType, CacheInv, MatureWasCredited
  <2>7. QED
    BY <2>3, <2>4, <2>5, <2>6, QuietKeepsMoney DEF CacheInv
<1>2. CASE MatureAppend(p)
  <2>1. At(p, "mt_append") /\ AppendRows(rows[p]) /\ Finish(p) /\ UNCHANGED block
    BY <1>2 DEF MatureAppend, AppendListed
  <2>2. /\ IsFiniteSet(rows[p])
        /\ \A e \in rows[p] : IsRow(e) /\ e.kind = "reward_mature" /\ RewardOf(e) \in ledger
    BY <2>1 DEF CacheInv, MatureWasCredited
  <2>3. /\ LedgerKeyed' /\ ledger \subseteq ledger' /\ \A e \in ledger' \ ledger : e \in rows[p]
        /\ balance' = [m \in Miners |-> balance'[m]] /\ \A m \in Miners : CacheOf(m)'
    BY <2>1, <2>2, MatureMoney
  <2>4. QED
    BY <2>1, <2>2, <2>3, AppendedCached
<1>3. QED
  BY <1>1, <1>2

\* reverse-orphans finds nothing: no orphaned block has rewards.
LEMMA ReverseCached ==
  ASSUME CreditInv, CacheInv, NEW p \in Procs, ReverseList(p) \/ ReverseAppend(p)
  PROVE  CacheInv'
<1> USE DEF storeVars, chainVars
<1>1. CASE ReverseList(p)
  <2>1. list_orphan_reversal_entries = {}
    <3>1. SUFFICES ASSUME NEW x \in ledger, NEW k \in Blocks, block[k].status = "orphaned",
                          x.kind = "reward_immature", x.ref = BlockRef(k)
                   PROVE  FALSE
      BY DEF list_orphan_reversal_entries, Pending, As
    <3>2. RewardRows(k) # {}
      BY <3>1 DEF RewardRows, Rows
    <3>3. QED
      BY <3>1, <3>2 DEF CacheInv, CreditIsFinal
  <2>2. /\ pc' = [pc EXCEPT ![p] = "ro_append"] /\ rows' = [rows EXCEPT ![p] = {}]
        /\ UNCHANGED <<block, ledger, balance, cur, todo>>
    BY <1>1, <2>1 DEF ReverseList, ListRows, Goto
  <2>3. ReconcilesOpen'
    BY <2>2 DEF At, CreditInv, ChainType, CacheInv, ReconcilesOpen
  <2>4. CreditIsFinal'
    BY <2>2 DEF At, CreditInv, ChainType, CacheInv, CreditIsFinal, RewardRows, Rows
  <2>5. MatureWasCredited'
    BY <2>2 DEF At, CreditInv, ChainType, CacheInv, MatureWasCredited
  <2>6. QED
    BY <2>2, <2>3, <2>4, <2>5, QuietKeepsMoney DEF CacheInv
<1>2. CASE ReverseAppend(p)
  <2>1. At(p, "ro_append") /\ AppendRows(rows[p]) /\ Finish(p) /\ UNCHANGED block
    BY <1>2 DEF ReverseAppend, AppendListed
  <2>2. rows[p] = {}
    BY <2>1 DEF CacheInv, CreditIsFinal
  <2>3. ledger' = ledger
    BY <2>1, <2>2 DEF AppendRows, NewRows
  <2>4. balance' = balance
    <3>1. ASSUME NEW m \in Miners PROVE balance'[m] = balance[m]
      <4>1. balance'[m] = BalanceAfter(ledger, balance[m], {e \in rows[p] : e.miner = m})
        BY <2>1 DEF AppendRows
      <4>2. {e \in rows[p] : e.miner = m} = {}
        BY <2>2
      <4>3. balance'[m] = BalanceAfter(ledger, balance[m], {})
        BY <4>1, <4>2, Zenon
      <4>4. QED
        BY <4>3, AfterFew
    <3>2. balance' = [m \in Miners |-> balance'[m]]
      BY <2>1 DEF AppendRows
    <3>3. balance = [m \in Miners |-> balance[m]]
      BY DEF CacheInv
    <3>4. QED
      BY <3>1, <3>2, <3>3
  <2>5. QED
    BY <2>1, <2>3, <2>4, FinishCached
<1>3. QED
  BY <1>1, <1>2

\* A payout locks what is confirmed, all of it.
LEMMA LockMoney ==
  ASSUME CacheInv, NEW e, IsRow(e), e.kind = "payout_lock", e.miner \in Miners, AppendRows({e}),
         e.amount = balance[e.miner]["confirmed"]
  PROVE  /\ LedgerKeyed' /\ ledger \subseteq ledger'
         /\ \A x \in ledger' \ ledger : x = e
         /\ balance' = [m \in Miners |-> balance'[m]]
         /\ \A m \in Miners : CacheOf(m)'
<1> DEFINE N == NewRows(ledger, {e})
<1>1. LedgerKeyed
  BY DEF CacheInv
<1>2. IsFiniteSet({e})
  BY FS_Singleton
<1>3. \A x \in {e} : IsRow(x) /\ (x.kind = "reward_immature" => \E k \in Blocks : x.ref = BlockRef(k))
  OBVIOUS
<1>4. LedgerKeyed' /\ ledger \subseteq ledger' /\ IsFiniteSet(N) /\ N \cap ledger = {}
  BY <1>1, <1>2, <1>3, AppendKeyed
<1>5. ledger' = ledger \cup N /\ N \subseteq {e}
  BY DEF AppendRows, NewRows
<1>6. ASSUME NEW m \in Miners PROVE CacheOf(m)'
  <2> DEFINE S == {x \in {e} : x.miner = m}
             bal == balance[m]
  <2>1. balance'[m] = BalanceAfter(ledger, bal, S)
    BY DEF AppendRows
  <2>2. MinerRows(N, m, "reward_mature") = {} /\ MinerRows(N, m, "reward_immature") = {}
    BY <1>5 DEF MinerRows
  <2>3. TotalOf({}) = 0
    BY SumEmpty DEF TotalOf
  <2>4. OfMiner(m, "reward_mature")' = OfMiner(m, "reward_mature")
    <3>1. /\ OfMiner(m, "reward_mature") \in Nat
          /\ OfMiner(m, "reward_mature")' = OfMiner(m, "reward_mature") + TotalOf(MinerRows(N, m, "reward_mature"))
      BY <1>1, <1>4, OfMinerAdds
    <3>2. QED
      BY <2>2, <2>3, <3>1
  <2>5. OfMiner(m, "reward_immature")' = OfMiner(m, "reward_immature")
    <3>1. /\ OfMiner(m, "reward_immature") \in Nat
          /\ OfMiner(m, "reward_immature")'
               = OfMiner(m, "reward_immature") + TotalOf(MinerRows(N, m, "reward_immature"))
      BY <1>1, <1>4, OfMinerAdds
    <3>2. QED
      BY <2>2, <2>3, <3>1
  <2>6. /\ bal \in Balance
        /\ bal["immature"] + OfMiner(m, "reward_mature") = OfMiner(m, "reward_immature")
        /\ bal["confirmed"] + bal["locked"] + bal["paid"] = OfMiner(m, "reward_mature")
    BY DEF CacheInv, CacheOf
  <2>7. bal["immature"] \in Nat /\ bal["confirmed"] \in Nat /\ bal["locked"] \in Nat /\ bal["paid"] \in Nat
    BY <2>6 DEF Balance, Buckets
  <2>8. balance'[m] = bal \/ (e.miner = m /\ balance'[m] = Move(bal, "confirmed", "locked", e.amount))
    <3>1. CASE e.miner # m
      <4>1. S = {}
        BY <3>1
      <4>2. balance'[m] = BalanceAfter(ledger, bal, {})
        BY <2>1, <4>1, Zenon
      <4>3. QED
        BY <4>2, AfterFew
    <3>2. CASE e.miner = m
      <4>1. S = {e}
        BY <3>2
      <4>2. balance'[m] = BalanceAfter(ledger, bal, {e})
        BY <2>1, <4>1, Zenon
      <4>3. balance'[m] = ApplyEntry(ledger, bal, e)
        BY <4>2, AfterFew, ZenonT(30)
      <4>4. TakesFrom(ledger, e) = "confirmed" /\ AddsTo(e) = "locked"
        BY DEF TakesFrom, AddsTo
      <4>5. QED
        BY <3>2, <4>3, <4>4 DEF ApplyEntry
    <3>3. QED
      BY <3>1, <3>2
  <2>9. /\ balance'[m] \in Balance /\ balance'[m]["immature"] = bal["immature"]
        /\ balance'[m]["confirmed"] + balance'[m]["locked"] + balance'[m]["paid"]
             = bal["confirmed"] + bal["locked"] + bal["paid"]
    <3>1. CASE balance'[m] = bal
      BY <2>6, <3>1
    <3>2. CASE e.miner = m /\ balance'[m] = Move(bal, "confirmed", "locked", e.amount)
      <4>1. e.amount = bal["confirmed"]
        BY <3>2
      <4> HIDE DEF bal
      <4>2. /\ Move(bal, "confirmed", "locked", e.amount) \in Balance
            /\ Move(bal, "confirmed", "locked", e.amount)["immature"] = bal["immature"]
            /\ Move(bal, "confirmed", "locked", e.amount)["confirmed"] = 0
            /\ Move(bal, "confirmed", "locked", e.amount)["locked"] = bal["locked"] + bal["confirmed"]
            /\ Move(bal, "confirmed", "locked", e.amount)["paid"] = bal["paid"]
        BY <2>6, <2>7, <4>1 DEF Move, Monus, Balance, Buckets
      <4>3. QED
        BY <2>7, <3>2, <4>2
    <3>3. QED
      BY <2>8, <3>1, <3>2
  <2> HIDE DEF bal
  <2>10. QED
    BY <2>4, <2>5, <2>6, <2>9 DEF CacheOf
<1>7. balance' = [m \in Miners |-> balance'[m]]
  BY DEF AppendRows
<1>8. QED
  BY <1>4, <1>5, <1>6, <1>7

\* The row of a lock is no reward.
LEMMA LockCached ==
  ASSUME CreditInv, CacheInv, NEW m \in Miners, LockPayout(m)
  PROVE  CacheInv'
<1> USE DEF chainVars, runVars
<1> DEFINE amount == balance[m]["confirmed"]
           e == Entry(m, "payout_lock", <<"payout_batch", Cardinality(Locks(m))>>, amount)
<1>1. AppendRows({e})
  BY DEF LockPayout
<1>2. amount \in Nat
  BY DEF CacheInv, CacheOf, Balance, Buckets
<1>3. IsRow(e) /\ e.kind = "payout_lock" /\ e.miner = m /\ e.amount = balance[m]["confirmed"]
  BY <1>2 DEF IsRow, Entry
<1> HIDE DEF e
<1>4. /\ LedgerKeyed' /\ ledger \subseteq ledger' /\ \A x \in ledger' \ ledger : x = e
      /\ balance' = [n \in Miners |-> balance'[n]] /\ \A n \in Miners : CacheOf(n)'
  BY <1>1, <1>3, LockMoney
<1>5. UNCHANGED <<block, runVars>>
  BY DEF LockPayout
<1>6. ReconcilesOpen'
  BY <1>5 DEF At, CacheInv, ReconcilesOpen
<1>7. CreditIsFinal'
  <2>1. \A k \in Blocks : RewardRows(k)' = RewardRows(k)
    BY <1>3, <1>4 DEF RewardRows, Rows
  <2>2. \A x \in ledger' : x.kind # "reward_orphan_reversal"
    BY <1>3, <1>4 DEF CacheInv, CreditIsFinal
  <2>3. QED
    BY <1>5, <2>1, <2>2 DEF At, CacheInv, CreditIsFinal
<1>8. MatureWasCredited'
  BY <1>3, <1>4, <1>5 DEF At, CacheInv, MatureWasCredited
<1>9. QED
  BY <1>4, <1>6, <1>7, <1>8 DEF CacheInv

\* A new block has neither rewards nor a run that works on it.
LEMMA ChainCached ==
  ASSUME CreditInv, CacheInv,
         (\E k \in Blocks : FindBlock(k) \/ Arrive(k) \/ Extend(k) \/ Reorg(k)) \/ UNCHANGED vars
  PROVE  CacheInv'
<1> USE DEF storeVars, chainVars, runVars
<1>1. UNCHANGED <<ledger, balance, runVars>>
  BY DEF FindBlock, Arrive, Extend, Reorg, vars
<1>2. \A j \in Blocks : block[j].status # "none" => block'[j] = block[j]
  BY DEF FindBlock, record_block_candidate, Arrive, Extend, Reorg, vars, CreditInv, ChainType
<1>3. ReconcilesOpen'
  <2>1. \A j \in Blocks : block[j].status \in Reconcilable => block'[j] = block[j]
    BY <1>2 DEF Reconcilable, Submitted
  <2>2. QED
    BY <1>1, <2>1 DEF At, CreditInv, ChainType, AnswerWasDeep, CacheInv, ReconcilesOpen
<1>4. CreditIsFinal'
  <2>1. \A k \in Blocks : RewardRows(k)' = RewardRows(k)
    BY <1>1 DEF RewardRows, Rows
  <2>2. QED
    BY <1>1, <1>2, <2>1 DEF At, CreditInv, ChainType, CacheInv, CreditIsFinal
<1>5. MatureWasCredited'
  BY <1>1 DEF At, CacheInv, MatureWasCredited
<1>6. QED
  BY <1>1, <1>3, <1>4, <1>5, QuietKeepsMoney DEF CacheInv

\* With one reconciler a block that has been credited stays confirmed, and every row
\* moves an amount that is there: no greatest(.., 0) cuts anything short.
THEOREM CacheInvariant == OneReconciler => (Spec => []CacheInv)
<1> SUFFICES ASSUME OneReconciler PROVE Spec => []CacheInv
  OBVIOUS
<1>1. CreditInv /\ DivisionInv /\ CacheInv /\ [Next]_vars => CacheInv'
  <2> SUFFICES ASSUME CreditInv, DivisionInv, CacheInv, [Next]_vars PROVE CacheInv'
    OBVIOUS
  <2>1. ASSUME NEW p \in Procs, Run(p) PROVE CacheInv'
    BY <2>1, ReconcileCached, SettleCached, MatureCached, ReverseCached DEF Run
  <2>2. ASSUME NEW p \in Procs, Crash(p) PROVE CacheInv'
    BY <2>2, FinishCached DEF Crash, storeVars
  <2>3. QED
    BY <2>1, <2>2, ChainCached, LockCached DEF Next
<1>2. QED
  BY InitCached, CreditInvariant, DivisionInvariant, <1>1, PTL DEF Spec

\* The balance cache: with one reconciler, what a miner has over all buckets is what
\* its reward rows minus its reversals add up to, for any number of miners, blocks,
\* runs, crashes, reorganisations and payouts.
THEOREM BalancesAreRewards == OneReconciler => (Spec => []CacheRecomputable)
<1> SUFFICES ASSUME OneReconciler PROVE Spec => []CacheRecomputable
  OBVIOUS
<1>1. CacheInv => CacheRecomputable
  <2> SUFFICES ASSUME CacheInv, NEW m \in Miners
               PROVE  SumFunction(balance[m]) + OfMiner(m, "reward_orphan_reversal") = OfMiner(m, "reward_immature")
    BY DEF CacheRecomputable
  <2> DEFINE bal == balance[m]
  <2>1. /\ bal \in Balance
        /\ bal["immature"] + OfMiner(m, "reward_mature") = OfMiner(m, "reward_immature")
        /\ bal["confirmed"] + bal["locked"] + bal["paid"] = OfMiner(m, "reward_mature")
    BY DEF CacheInv, CacheOf
  <2>2. OfMiner(m, "reward_orphan_reversal") = 0
    <3>1. {e \in ledger : e.miner = m /\ e.kind = "reward_orphan_reversal"} = {}
      BY DEF CacheInv, CreditIsFinal
    <3>2. TotalOf({}) = 0
      BY SumEmpty DEF TotalOf
    <3>3. QED
      BY <3>1, <3>2 DEF OfMiner
  <2>3. bal["immature"] \in Nat /\ bal["confirmed"] \in Nat /\ bal["locked"] \in Nat /\ bal["paid"] \in Nat
    BY <2>1 DEF Balance, Buckets
  <2> HIDE DEF bal
  <2>4. SumFunction(bal) = bal["immature"] + bal["confirmed"] + bal["locked"] + bal["paid"]
    BY <2>1, BucketSum
  <2>5. SumFunction(bal) + 0 = OfMiner(m, "reward_immature")
    BY <2>1, <2>3, <2>4
  <2>6. QED
    BY <2>2, <2>5 DEF bal
<1>2. QED
  BY CacheInvariant, <1>1, PTL
=============================================================================
