--------------------------- MODULE PayoutsProofs ----------------------------
(***************************************************************************)
(* Proofs about Payouts, for any number of miners, batches, blocks and     *)
(* processes, whatever commands each process runs and however often runs   *)
(* die.                                                                    *)
(*                                                                         *)
(* First the types and the statuses. Then how payout batches end: the      *)
(* workers write the settling rows without looking whether the status      *)
(* update before them changed anything, so the invariant follows each run  *)
(* from the list it read to the rows it writes. Then the money: the        *)
(* balance cache agrees with the ledger, nobody is paid twice, and the     *)
(* daily cap holds where a single timer creates.                           *)
(***************************************************************************)
EXTENDS Payouts, LedgerProofs

-----------------------------------------------------------------------------

(***************************************************************************)
(* What the statements of the database do to the types.                    *)
(***************************************************************************)
LedgerType == \A e \in ledger : e.kind \in LedgerKind /\ e.miner \in Miners /\ e.amount \in Nat

\* What a ledger row does to a balance leaves it a balance: no bucket goes
\* below zero (the greatest(.., 0) of append_ledger_entries).
LEMMA MoveType ==
  ASSUME NEW bal \in Balance, NEW from, NEW to, NEW a \in Nat
  PROVE  Move(bal, from, to, a) \in Balance
BY DEF Move, Monus, Balance

LEMMA ApplyEntryType ==
  ASSUME NEW L, NEW bal \in Balance, NEW e, e.amount \in Nat
  PROVE  ApplyEntry(L, bal, e) \in Balance
BY MoveType DEF ApplyEntry

\* unlock_failed_payout and mark_payout_paid write well-typed rows and balances.
LEMMA AppendType ==
  ASSUME TypeOK, NEW b \in Batches, NEW kind \in LedgerKind, AppendForBatch(b, kind)
  PROVE  balance' \in [Miners -> Balance] /\ LedgerType'
<1>1. \A m \in Miners : BatchEntry(b, kind, m).amount \in Nat
  BY DEF TypeOK, StoreType, BatchEntry, Entry
<1>2. \A m \in Miners : ApplyEntry(ledger, balance[m], BatchEntry(b, kind, m)) \in Balance
  BY <1>1, ApplyEntryType DEF TypeOK, StoreType
<1>3. balance' \in [Miners -> Balance]
  BY <1>2 DEF AppendForBatch, TypeOK, StoreType
<1>4. LedgerType'
  BY <1>1 DEF LedgerType, AppendForBatch, TypeOK, StoreType, BatchEntry, Entry, Recipients
<1>5. QED
  BY <1>3, <1>4

\* The transaction that creates and locks a batch writes well-typed rows.
LEMMA CreateLockedType ==
  ASSUME TypeOK, NEW b \in Batches, NEW amounts \in [Miners -> Nat],
         NEW s \in BatchStatus, create_locked_payout_batch(b, amounts, s)
  PROVE  /\ status' \in [Batches -> BatchStatus]
         /\ amount' \in [Batches -> [Miners -> Nat]]
         /\ today' \subseteq Batches
         /\ balance' \in [Miners -> Balance]
         /\ LedgerType'
<1>1. \A m \in Miners : Move(balance[m], "confirmed", "locked", amounts[m]) \in Balance
  BY MoveType DEF TypeOK, StoreType
<1>2. balance' \in [Miners -> Balance]
  BY <1>1 DEF create_locked_payout_batch
<1>3. LedgerType'
  BY DEF LedgerType, create_locked_payout_batch, TypeOK, StoreType, Entry, LedgerKind, PayoutKinds
<1>4. QED
  BY <1>2, <1>3 DEF create_locked_payout_batch, TypeOK, StoreType

\* A guarded update of the status column.
LEMMA UpdateType ==
  ASSUME TypeOK, NEW b, NEW from, NEW new \in BatchStatus, UpdateStatus(b, from, new)
  PROVE  status' \in [Batches -> BatchStatus]
BY DEF TypeOK, StoreType, UpdateStatus

-----------------------------------------------------------------------------
(***************************************************************************)
(* How a step moves the run of process p, and no other.                    *)
(***************************************************************************)
MovesTo(p, label) ==
  /\ RunType' /\ BatchInHand'
  /\ pc'[p] = label
  /\ \A q \in Procs \ {p} : pc'[q] = pc[q]

LEMMA FinishMoves ==
  ASSUME SigningInv, NEW p \in Procs, Finish(p)
  PROVE  MovesTo(p, "idle")
BY DEF MovesTo, SigningInv, TypeOK, RunType, BatchInHand, WithBatch, Finish, Pcs, NoDraft

LEMMA ContinueMoves ==
  ASSUME SigningInv, NEW p \in Procs, NEW label \in Pcs, Continue(p, label),
         label \in WithBatch => cur[p] \in Batches
  PROVE  MovesTo(p, label)
BY DEF MovesTo, SigningInv, TypeOK, RunType, BatchInHand, Continue, Goto

LEMMA TakeMoves ==
  ASSUME SigningInv, NEW p \in Procs, NEW b \in Batches, NEW label \in Pcs, Take(p, b, label)
  PROVE  MovesTo(p, label)
BY DEF MovesTo, SigningInv, TypeOK, RunType, BatchInHand, Take, Goto

LEMMA TakeNextMoves ==
  ASSUME SigningInv, NEW p \in Procs, NEW b \in Batches, NEW label \in Pcs, TakeNext(p, b, label)
  PROVE  MovesTo(p, label)
BY DEF MovesTo, SigningInv, TypeOK, RunType, BatchInHand, TakeNext, Goto

(***************************************************************************)
(* A step that ends outside the locked part of sign-payouts, leaves the    *)
(* lock alone and brings no new batch in flight keeps the invariant.       *)
(***************************************************************************)
LEMMA OutsideStep ==
  ASSUME SigningInv, StoreType', NEW p \in Procs, NEW label \in Pcs \ LockedPcs,
         MovesTo(p, label), lock' = lock,
         WithStatus(Inflight)' \subseteq WithStatus(Inflight)
  PROVE  SigningInv'
BY DEF SigningInv, TypeOK, MovesTo, LockHeld, ClearToSign, AtMostOneInflight, LockedPcs, SignPcs

\* The same for a step that only reads the database.
LEMMA ReadOnlyStep ==
  ASSUME SigningInv, NEW p \in Procs, NEW label \in Pcs \ LockedPcs, MovesTo(p, label),
         UNCHANGED <<dbVars, lock, crashes>>, tx' \in [Batches -> TxState]
  PROVE  SigningInv'
<1>1. StoreType'
  BY DEF SigningInv, TypeOK, StoreType, dbVars
<1>2. WithStatus(Inflight)' \subseteq WithStatus(Inflight)
  BY DEF WithStatus, dbVars
<1>3. QED
  BY <1>1, <1>2, OutsideStep

\* append_payout_audit touches nothing but the audit trail.
LEMMA AuditKeeps ==
  ASSUME SigningInv, NEW p \in Procs, NEW here \in WithBatch \cup {"ps_audit", "rs_audit"},
         NEW action \in AuditActions, AuditStep(p, here, action)
  PROVE  StoreType' /\ WithStatus(Inflight)' = WithStatus(Inflight)
<1>1. cur[p] \in Batches \cup {NoBatch}
  BY DEF SigningInv, TypeOK, RunType
<1>2. QED
  BY <1>1 DEF AuditStep, SigningInv, TypeOK, StoreType, WithStatus

LEMMA AuditFinishes ==
  ASSUME SigningInv, NEW p \in Procs, NEW here \in WithBatch \cup {"ps_audit", "rs_audit"},
         NEW action \in AuditActions, AuditAndFinish(p, here, action)
  PROVE  SigningInv'
<1>1. AuditStep(p, here, action) /\ Finish(p)
  BY DEF AuditAndFinish
<1>2. MovesTo(p, "idle") BY <1>1, FinishMoves
<1>3. StoreType' /\ WithStatus(Inflight)' = WithStatus(Inflight) BY <1>1, AuditKeeps
<1>4. lock' = lock BY <1>1 DEF AuditStep
<1>5. "idle" \in Pcs \ LockedPcs BY DEF Pcs, LockedPcs, SignPcs
<1>6. QED BY <1>2, <1>3, <1>4, <1>5, OutsideStep

LEMMA AuditContinues ==
  ASSUME SigningInv, NEW p \in Procs, NEW here \in WithBatch, NEW action \in AuditActions,
         NEW next \in Pcs \ LockedPcs, AuditAndContinue(p, here, action, next)
  PROVE  SigningInv'
<1>1. AuditStep(p, here, action) /\ Continue(p, next)
  BY DEF AuditAndContinue
<1>2. cur[p] \in Batches
  BY <1>1 DEF AuditStep, At, SigningInv, BatchInHand
<1>3. MovesTo(p, next) BY <1>1, <1>2, ContinueMoves
<1>4. StoreType' /\ WithStatus(Inflight)' = WithStatus(Inflight) BY <1>1, AuditKeeps
<1>5. lock' = lock BY <1>1 DEF AuditStep
<1>6. QED BY <1>3, <1>4, <1>5, OutsideStep

\* A batch comes into being created or needs_approval: not in flight.
LEMMA NewBatchStep ==
  ASSUME SigningInv, NEW p \in Procs, NEW b \in Batches, NEW amounts \in [Miners -> Nat],
         NEW s \in {"created", "needs_approval"}, NEW label \in Pcs \ LockedPcs,
         create_locked_payout_batch(b, amounts, s), Take(p, b, label),
         UNCHANGED <<enabled, audit, lock, tx, crashes>>
  PROVE  SigningInv'
<1>1. MovesTo(p, label) BY TakeMoves
<1>2. s \in BatchStatus BY DEF BatchStatus
<1>3. StoreType'
  BY <1>2, CreateLockedType DEF SigningInv, TypeOK, StoreType, LedgerType
<1>4. WithStatus(Inflight)' \subseteq WithStatus(Inflight)
  BY DEF create_locked_payout_batch, SigningInv, TypeOK, StoreType, WithStatus, Inflight
<1>5. QED BY <1>1, <1>3, <1>4, OutsideStep

-----------------------------------------------------------------------------
(***************************************************************************)
(* One lemma for each command, one step for each of its actions.           *)
(***************************************************************************)
LEMMA CreateSigning ==
  ASSUME SigningInv, NEW p \in Procs, Create(p)
  PROVE  SigningInv'
<1>l. {"idle", "cr_daily", "cr_select", "cr_insert", "cr_audit"} \subseteq Pcs \ LockedPcs
  BY DEF Pcs, LockedPcs, SignPcs
<1>w. ~(\E l \in {"cr_daily", "cr_select", "cr_insert"} : l \in WithBatch)
  BY DEF WithBatch
<1>t. tx \in [Batches -> TxState] /\ draft[p] \in [Miners -> Nat]
  BY DEF SigningInv, TypeOK, StoreType, RunType
<1>1. CASE CreateStart(p)
  <2>1. MovesTo(p, "cr_daily") BY <1>1, <1>l, <1>w, ContinueMoves DEF CreateStart, Start
  <2>2. QED BY <1>1, <1>l, <1>t, <2>1, ReadOnlyStep DEF CreateStart
<1>2. CASE CreateReadDaily(p)
  <2>1. MovesTo(p, "cr_select")
    BY <1>2, <1>l, <1>w DEF CreateReadDaily, Goto, MovesTo, SigningInv, TypeOK, RunType, BatchInHand
  <2>2. QED BY <1>2, <1>l, <1>t, <2>1, ReadOnlyStep DEF CreateReadDaily
<1>3. CASE CreateSelect(p)
  <2>1. select_payouts \in [Miners -> Nat]
    BY DEF select_payouts, SigningInv, TypeOK, StoreType, Balance, Buckets
  <2>2. MovesTo(p, "cr_insert")
    BY <1>3, <1>l, <1>w, <2>1 DEF CreateSelect, Goto, MovesTo, SigningInv, TypeOK, RunType, BatchInHand
  <2>3. QED BY <1>3, <1>l, <1>t, <2>2, ReadOnlyStep DEF CreateSelect
<1>4. CASE CreateSkip(p)
  <2>1. MovesTo(p, "idle") BY <1>4, FinishMoves DEF CreateSkip
  <2>2. QED BY <1>4, <1>l, <1>t, <2>1, ReadOnlyStep DEF CreateSkip
<1>5. CASE CreateInsert(p)
  <2>1. InitialStatus(draft[p]) \in {"created", "needs_approval"} BY DEF InitialStatus
  <2>2. PICK b \in Batches : /\ create_locked_payout_batch(b, draft[p], InitialStatus(draft[p]))
                             /\ Take(p, b, "cr_audit")
    BY <1>5 DEF CreateInsert
  <2>3. QED BY <1>5, <1>l, <1>t, <2>1, <2>2, NewBatchStep DEF CreateInsert
<1>6. CASE CreateRollback(p)
  <2>1. MovesTo(p, "idle") BY <1>6, FinishMoves DEF CreateRollback
  <2>2. QED BY <1>6, <1>l, <1>t, <2>1, ReadOnlyStep DEF CreateRollback
<1>7. CASE CreateAudit(p)
  BY <1>7, AuditFinishes DEF CreateAudit, WithBatch, AuditActions
<1>8. QED
  BY <1>1, <1>2, <1>3, <1>4, <1>5, <1>6, <1>7 DEF Create

-----------------------------------------------------------------------------
(***************************************************************************)
(* sign-payouts.  While p holds the lock no other run is in the locked     *)
(* part, so only p's own steps matter to ClearToSign.                      *)
(***************************************************************************)
LEMMA OnlyHolder ==
  ASSUME SigningInv, NEW p \in Procs, lock \in {p, NoProc}
  PROVE  \A q \in Procs \ {p} : pc[q] \notin LockedPcs
BY PayoutsAssumption DEF SigningInv, LockHeld

LEMMA LockedStep ==
  ASSUME SigningInv, StoreType', NEW p \in Procs, NEW label \in Pcs, MovesTo(p, label),
         pc[p] \in LockedPcs, lock' = lock,
         WithStatus(Inflight)' \subseteq WithStatus(Inflight),
         label \in {"sg_list", "sg_call", "sg_mark"} => WithStatus(Inflight)' = {}
  PROVE  SigningInv'
<1>1. lock = p BY DEF SigningInv, LockHeld
<1>2. \A q \in Procs \ {p} : pc'[q] \notin LockedPcs BY <1>1, OnlyHolder DEF MovesTo
<1>3. LockHeld' BY <1>1, <1>2 DEF LockHeld
<1>4. ClearToSign' BY <1>2 DEF ClearToSign, MovesTo, LockedPcs, SignPcs
<1>5. AtMostOneInflight' BY DEF SigningInv, AtMostOneInflight
<1>6. QED BY <1>3, <1>4, <1>5 DEF SigningInv, TypeOK, MovesTo

\* The same for a step that only reads the database.
LEMMA LockedReadStep ==
  ASSUME SigningInv, NEW p \in Procs, NEW label \in Pcs, MovesTo(p, label), pc[p] \in LockedPcs,
         UNCHANGED <<dbVars, lock, tx, crashes>>,
         label \in {"sg_list", "sg_call", "sg_mark"} => WithStatus(Inflight) = {}
  PROVE  SigningInv'
<1>1. StoreType' BY DEF SigningInv, TypeOK, StoreType, dbVars
<1>2. WithStatus(Inflight)' = WithStatus(Inflight) BY DEF WithStatus, dbVars
<1>3. lock' = lock OBVIOUS
<1>4. QED BY <1>1, <1>2, <1>3, LockedStep

\* mark_payout_failed and unlock_failed_payout, wherever they are called.
LEMMA FailMarkKeeps ==
  ASSUME SigningInv, NEW p \in Procs, NEW here \in WithBatch, NEW next \in WithBatch,
         next \in Pcs, FailMark(p, here, next)
  PROVE  MovesTo(p, next) /\ StoreType' /\ WithStatus(Inflight)' \subseteq WithStatus(Inflight)
<1>1. cur[p] \in Batches BY DEF FailMark, At, SigningInv, BatchInHand
<1>2. MovesTo(p, next) BY <1>1, ContinueMoves DEF FailMark
<1>3. status' \in [Batches -> BatchStatus]
  BY UpdateType DEF FailMark, mark_payout_failed, BatchStatus, SigningInv
<1>4. StoreType' BY <1>3 DEF FailMark, SigningInv, TypeOK, StoreType
<1>5. WithStatus(Inflight)' \subseteq WithStatus(Inflight)
  BY <1>1 DEF FailMark, mark_payout_failed, UpdateStatus, WithStatus, Inflight,
              SigningInv, TypeOK, StoreType
<1>6. QED BY <1>2, <1>4, <1>5

LEMMA FailUnlockKeeps ==
  ASSUME SigningInv, NEW p \in Procs, NEW here \in WithBatch, NEW next \in WithBatch,
         next \in Pcs, FailUnlock(p, here, next)
  PROVE  MovesTo(p, next) /\ StoreType' /\ WithStatus(Inflight)' \subseteq WithStatus(Inflight)
<1>1. cur[p] \in Batches BY DEF FailUnlock, At, SigningInv, BatchInHand
<1>2. MovesTo(p, next) BY <1>1, ContinueMoves DEF FailUnlock
<1>3. balance' \in [Miners -> Balance] /\ LedgerType'
  BY <1>1, AppendType DEF FailUnlock, unlock_failed_payout, SigningInv, LedgerKind, PayoutKinds
<1>4. StoreType' BY <1>3 DEF FailUnlock, SigningInv, TypeOK, StoreType, LedgerType
<1>5. WithStatus(Inflight)' \subseteq WithStatus(Inflight) BY DEF FailUnlock, WithStatus
<1>6. QED BY <1>2, <1>4, <1>5

LEMMA SignSigning ==
  ASSUME SigningInv, NEW p \in Procs, Sign(p)
  PROVE  SigningInv'
<1>l. SignPcs \subseteq Pcs /\ "idle" \in Pcs \ LockedPcs /\ "sg_lock" \in Pcs \ LockedPcs
  BY DEF Pcs, LockedPcs, SignPcs
<1>w. {"sg_lock", "sg_inflight", "sg_list", "sg_commit"} \cap WithBatch = {}
  BY DEF WithBatch
<1>c. pc[p] \in WithBatch => cur[p] \in Batches BY DEF SigningInv, BatchInHand
<1>t. tx \in [Batches -> TxState]
  BY DEF SigningInv, TypeOK, StoreType
<1>1. CASE SignStart(p)
  <2>1. MovesTo(p, "sg_lock") BY <1>1, <1>l, <1>w, ContinueMoves DEF SignStart, Start
  <2>2. QED BY <1>1, <1>l, <1>t, <2>1, ReadOnlyStep DEF SignStart
<1>2. CASE SignLock(p)
  <2>1. MovesTo(p, "sg_inflight") BY <1>2, <1>l, <1>w, ContinueMoves DEF SignLock, SignPcs
  <2>2. \A q \in Procs \ {p} : pc'[q] \notin LockedPcs
    BY <1>2, <2>1, OnlyHolder DEF SignLock, MovesTo
  <2>3. StoreType' BY <1>2 DEF SignLock, SigningInv, TypeOK, StoreType, dbVars
  <2>4. WithStatus(Inflight)' = WithStatus(Inflight) BY <1>2 DEF SignLock, WithStatus, dbVars
  <2>5. LockHeld' BY <1>2, <2>2 DEF SignLock, LockHeld
  <2>6. ClearToSign' BY <2>1, <2>2 DEF ClearToSign, MovesTo, LockedPcs, SignPcs
  <2>7. AtMostOneInflight' BY <2>4 DEF SigningInv, AtMostOneInflight
  <2>8. QED BY <2>1, <2>3, <2>5, <2>6, <2>7 DEF SigningInv, TypeOK, MovesTo
<1>3. CASE SignCheckInflight(p)
  <2>1. CASE WithStatus(Inflight) = {}
    <3>1. MovesTo(p, "sg_list")
      BY <1>3, <1>l, <1>w, <2>1, ContinueMoves DEF SignCheckInflight, SignPcs
    <3>2. QED
      BY <1>3, <1>l, <2>1, <3>1, LockedReadStep DEF SignCheckInflight, At, LockedPcs, SignPcs
  <2>2. CASE WithStatus(Inflight) # {}
    <3>1. MovesTo(p, "sg_commit")
      BY <1>3, <1>l, <1>w, <2>2, ContinueMoves DEF SignCheckInflight, SignPcs
    <3>2. QED
      BY <1>3, <1>l, <3>1, LockedReadStep DEF SignCheckInflight, At, LockedPcs, SignPcs
  <2>3. QED BY <2>1, <2>2
<1>4. CASE SignList(p)
  <2>1. WithStatus(Inflight) = {} BY <1>4 DEF SignList, At, SigningInv, ClearToSign
  <2>2. MovesTo(p, "sg_call") \/ MovesTo(p, "sg_commit")
    BY <1>4, <1>l, <1>w, TakeMoves, ContinueMoves DEF SignList, SignPcs, WithStatus
  <2>3. QED BY <1>4, <1>l, <2>1, <2>2, LockedReadStep DEF SignList, At, LockedPcs, SignPcs
<1>5. CASE SignCall(p)
  <2>1. WithStatus(Inflight) = {} BY <1>5 DEF SignCall, At, SigningInv, ClearToSign
  <2>2. PICK l \in {"sg_mark", "sg_fail"} : Continue(p, l) BY <1>5 DEF SignCall
  <2>3. l \in Pcs /\ cur[p] \in Batches BY <1>5, <1>l, <1>c DEF SignCall, At, SignPcs, WithBatch
  <2>4. MovesTo(p, l) BY <2>2, <2>3, ContinueMoves
  <2>5. QED BY <1>5, <2>1, <2>3, <2>4, LockedReadStep DEF SignCall, At, LockedPcs, SignPcs
<1>6. CASE SignMark(p)
  <2>1. cur[p] \in Batches /\ WithStatus(Inflight) = {} /\ lock = p
    BY <1>6, <1>c DEF SignMark, At, SigningInv, ClearToSign, LockHeld, LockedPcs, SignPcs, WithBatch
  <2>2. MovesTo(p, "sg_audit") \/ MovesTo(p, "sg_commit")
    BY <1>6, <1>l, <2>1, ContinueMoves DEF SignMark, SignPcs
  <2>3. status' \in [Batches -> BatchStatus]
    BY <1>6, UpdateType DEF SignMark, mark_payout_signed, BatchStatus, SigningInv
  <2>4. StoreType' BY <1>6, <2>3 DEF SignMark, SigningInv, TypeOK, StoreType
  <2>5. WithStatus(Inflight)' \subseteq {cur[p]}
    BY <1>6, <2>1 DEF SignMark, mark_payout_signed, UpdateStatus, WithStatus, SigningInv, TypeOK, StoreType
  <2>6. \A q \in Procs \ {p} : pc'[q] \notin LockedPcs BY <2>1, <2>2, OnlyHolder DEF MovesTo
  <2>7. LockHeld' BY <1>6, <2>1, <2>6 DEF SignMark, LockHeld
  <2>8. ClearToSign' BY <2>2, <2>6 DEF ClearToSign, MovesTo, LockedPcs, SignPcs
  <2>9. AtMostOneInflight' BY <2>5 DEF AtMostOneInflight
  <2>10. QED BY <2>2, <2>4, <2>7, <2>8, <2>9 DEF SigningInv, TypeOK, MovesTo
<1>7. CASE SignAudit(p) \/ SignFailAudit(p)
  <2>1. PICK here \in {"sg_audit", "sg_failaudit"}, action \in AuditActions :
          AuditStep(p, here, action) /\ Continue(p, "sg_commit")
    BY <1>7 DEF SignAudit, SignFailAudit, AuditAndContinue, AuditActions
  <2>2. StoreType' /\ WithStatus(Inflight)' = WithStatus(Inflight)
    BY <2>1, AuditKeeps DEF WithBatch
  <2>3. MovesTo(p, "sg_commit") BY <1>l, <1>w, <2>1, ContinueMoves DEF SignPcs
  <2>4. QED BY <1>l, <2>1, <2>2, <2>3, LockedStep DEF AuditStep, At, LockedPcs, SignPcs
<1>8. CASE SignFail(p)
  <2>1. /\ MovesTo(p, "sg_unlock") /\ StoreType'
        /\ WithStatus(Inflight)' \subseteq WithStatus(Inflight)
    BY <1>8, <1>l, FailMarkKeeps DEF SignFail, WithBatch, SignPcs
  <2>2. QED BY <1>8, <1>l, <2>1, LockedStep DEF SignFail, FailMark, At, LockedPcs, SignPcs
<1>9. CASE SignUnlock(p)
  <2>1. /\ MovesTo(p, "sg_failaudit") /\ StoreType'
        /\ WithStatus(Inflight)' \subseteq WithStatus(Inflight)
    BY <1>9, <1>l, FailUnlockKeeps DEF SignUnlock, WithBatch, SignPcs
  <2>2. QED BY <1>9, <1>l, <2>1, LockedStep DEF SignUnlock, FailUnlock, At, LockedPcs, SignPcs
<1>10. CASE SignCommit(p)
  <2>1. MovesTo(p, "idle") BY <1>10, FinishMoves DEF SignCommit
  <2>2. lock = p BY <1>10 DEF SignCommit, At, SigningInv, LockHeld, LockedPcs, SignPcs
  <2>3. \A q \in Procs : pc'[q] \notin LockedPcs
    BY <1>l, <2>1, <2>2, OnlyHolder DEF MovesTo
  <2>4. StoreType' BY <1>10 DEF SignCommit, SigningInv, TypeOK, StoreType, dbVars
  <2>5. WithStatus(Inflight)' = WithStatus(Inflight) BY <1>10 DEF SignCommit, WithStatus, dbVars
  <2>6. LockHeld' /\ ClearToSign' BY <2>3 DEF LockHeld, ClearToSign, LockedPcs, SignPcs
  <2>7. AtMostOneInflight' BY <2>5 DEF SigningInv, AtMostOneInflight
  <2>8. QED BY <2>1, <2>4, <2>6, <2>7 DEF SigningInv, TypeOK, MovesTo
<1>11. QED
  BY <1>1, <1>2, <1>3, <1>4, <1>5, <1>6, <1>7, <1>8, <1>9, <1>10 DEF Sign

-----------------------------------------------------------------------------
(***************************************************************************)
(* submit-payouts, reconcile-payouts, the operator and the environment     *)
(* never bring a batch in flight that was not.                             *)
(***************************************************************************)
\* A guarded update of the status that does not put a batch in flight.
LEMMA StatusStep ==
  ASSUME SigningInv, NEW p \in Procs, NEW b \in Batches, NEW from, NEW new \in BatchStatus,
         UpdateStatus(b, from, new), new \in Inflight => from \subseteq Inflight,
         NEW label \in Pcs \ LockedPcs, MovesTo(p, label),
         UNCHANGED <<amount, today, ledger, balance, enabled, audit, lock, tx, crashes>>
  PROVE  SigningInv'
<1>1. StoreType' BY UpdateType DEF SigningInv, TypeOK, StoreType
<1>2. WithStatus(Inflight)' \subseteq WithStatus(Inflight)
  BY DEF UpdateStatus, WithStatus, SigningInv, TypeOK, StoreType
<1>3. QED BY <1>1, <1>2, OutsideStep

LEMMA ListStep ==
  ASSUME SigningInv, NEW p \in Procs, NEW here, NEW s, NEW next \in Pcs \ (LockedPcs \cup WithBatch),
         ListBatches(p, here, s, next)
  PROVE  SigningInv'
<1>1. MovesTo(p, next)
  BY DEF ListBatches, Goto, MovesTo, SigningInv, TypeOK, RunType, BatchInHand, WithStatus
<1>2. QED BY <1>1, ReadOnlyStep DEF ListBatches, SigningInv, TypeOK, StoreType

LEMMA EndStep ==
  ASSUME SigningInv, NEW p \in Procs, NEW here, EndOfList(p, here)
  PROVE  SigningInv'
<1>1. MovesTo(p, "idle") BY FinishMoves DEF EndOfList
<1>2. QED BY <1>1, ReadOnlyStep DEF EndOfList, SigningInv, TypeOK, StoreType, Pcs, LockedPcs, SignPcs

LEMMA SubmitSigning ==
  ASSUME SigningInv, NEW p \in Procs, Submit(p)
  PROVE  SigningInv'
<1>l. SubmitPcs \subseteq Pcs \ LockedPcs BY DEF SubmitPcs, Pcs, LockedPcs, SignPcs
<1>w. {"sb_list", "sb_call"} \cap WithBatch = {} BY DEF WithBatch
<1>c. pc[p] \in WithBatch => cur[p] \in Batches BY DEF SigningInv, BatchInHand
<1>t. tx \in [Batches -> TxState]
  BY DEF SigningInv, TypeOK, StoreType
<1>1. CASE SubmitStart(p)
  <2>1. MovesTo(p, "sb_list") BY <1>1, <1>l, <1>w, ContinueMoves DEF SubmitStart, Start, SubmitPcs
  <2>2. QED BY <1>1, <1>l, <1>t, <2>1, ReadOnlyStep DEF SubmitStart, SubmitPcs
<1>2. CASE SubmitList(p) \/ SubmitEnd(p)
  BY <1>2, <1>l, <1>w, ListStep, EndStep DEF SubmitList, SubmitEnd, SubmitPcs
<1>3. CASE SubmitAccepted(p)
  <2>1. MovesTo(p, "sb_mark") BY <1>3, <1>l, TakeNextMoves DEF SubmitAccepted, SubmitPcs
  <2>2. tx' \in [Batches -> TxState]
    BY <1>3, <1>t DEF SubmitAccepted, TxState
  <2>3. QED BY <1>3, <1>l, <2>1, <2>2, ReadOnlyStep DEF SubmitAccepted, SubmitPcs
<1>4. CASE SubmitAmbiguous(p)
  <2>1. MovesTo(p, "sb_prior") BY <1>4, <1>l, TakeNextMoves DEF SubmitAmbiguous, SubmitPcs
  <2>2. QED BY <1>4, <1>l, <1>t, <2>1, ReadOnlyStep DEF SubmitAmbiguous, SubmitPcs
<1>5. CASE SubmitUncertain(p)
  <2>1. MovesTo(p, "sb_defer") BY <1>5, <1>l, TakeNextMoves DEF SubmitUncertain, SubmitPcs
  <2>2. tx' \in [Batches -> TxState]
    BY <1>5, <1>t DEF SubmitUncertain, GivenUp, TxState
  <2>3. QED BY <1>5, <1>l, <2>1, <2>2, ReadOnlyStep DEF SubmitUncertain, SubmitPcs
<1>6. CASE SubmitMark(p) \/ SubmitMarkPrior(p)
  <2>1. PICK here \in {"sb_mark", "sb_prior"}, next \in {"sb_audit", "sb_prioraudit"} :
          SubmitMarkAs(p, here, next)
    BY <1>6 DEF SubmitMark, SubmitMarkPrior
  <2>2. cur[p] \in Batches BY <1>c, <2>1 DEF SubmitMarkAs, At, WithBatch
  <2>3. PICK label \in {next, "sb_call"} : Continue(p, label) BY <2>1 DEF SubmitMarkAs
  <2>4. label \in Pcs \ LockedPcs BY <1>l DEF SubmitPcs
  <2>5. MovesTo(p, label) BY <2>2, <2>3, <2>4, ContinueMoves
  <2>6. QED BY <2>1, <2>2, <2>4, <2>5, StatusStep DEF SubmitMarkAs, mark_payout_submitted, BatchStatus
<1>7. CASE SubmitAudit(p) \/ SubmitPriorAudit(p) \/ SubmitDefer(p)
  BY <1>7, <1>l, AuditContinues
     DEF SubmitAudit, SubmitPriorAudit, SubmitDefer, WithBatch, AuditActions, SubmitPcs
<1>8. QED BY <1>1, <1>2, <1>3, <1>4, <1>5, <1>6, <1>7 DEF Submit

ReconcilePcs == {"rc_list", "rc_query", "rc_confirm", "rc_pay", "rc_audit",
                 "rc_fail", "rc_unlock", "rc_failaudit"}

LEMMA ReconcileSigning ==
  ASSUME SigningInv, NEW p \in Procs, Reconcile(p)
  PROVE  SigningInv'
<1>l. ReconcilePcs \subseteq Pcs \ LockedPcs BY DEF ReconcilePcs, Pcs, LockedPcs, SignPcs
<1>w. {"rc_list", "rc_query"} \cap WithBatch = {} BY DEF WithBatch
<1>c. pc[p] \in WithBatch => cur[p] \in Batches BY DEF SigningInv, BatchInHand
<1>t. tx \in [Batches -> TxState]
  BY DEF SigningInv, TypeOK, StoreType
<1>1. CASE ReconcileStart(p)
  <2>1. MovesTo(p, "rc_list") BY <1>1, <1>l, <1>w, ContinueMoves DEF ReconcileStart, Start, ReconcilePcs
  <2>2. QED BY <1>1, <1>l, <1>t, <2>1, ReadOnlyStep DEF ReconcileStart, ReconcilePcs
<1>2. CASE ReconcileList(p) \/ ReconcileEnd(p)
  BY <1>2, <1>l, <1>w, ListStep, EndStep DEF ReconcileList, ReconcileEnd, ReconcilePcs
<1>3. CASE ReconcileQuery(p)
  <2>1. PICK b \in Batches, label \in {"rc_confirm", "rc_fail", "rc_query"} : TakeNext(p, b, label)
    BY <1>3 DEF ReconcileQuery
  <2>2. MovesTo(p, label) BY <1>l, <2>1, TakeNextMoves DEF ReconcilePcs
  <2>3. QED BY <1>3, <1>l, <1>t, <2>2, ReadOnlyStep DEF ReconcileQuery, ReconcilePcs
<1>4. CASE ReconcileConfirm(p)
  <2>1. cur[p] \in Batches BY <1>4, <1>c DEF ReconcileConfirm, At, WithBatch
  <2>2. MovesTo(p, "rc_pay") BY <1>4, <1>l, <2>1, ContinueMoves DEF ReconcileConfirm, ReconcilePcs
  <2>3. QED
    BY <1>4, <1>l, <2>1, <2>2, StatusStep
       DEF ReconcileConfirm, mark_payout_confirmed, BatchStatus, Inflight, ReconcilePcs
<1>5. CASE ReconcilePay(p)
  <2>1. cur[p] \in Batches BY <1>5, <1>c DEF ReconcilePay, At, WithBatch
  <2>p. PICK label \in {"rc_audit", "rc_query"} : Continue(p, label) BY <1>5 DEF ReconcilePay
  <2>2. MovesTo(p, label) BY <1>l, <2>1, <2>p, ContinueMoves DEF ReconcilePcs
  <2>3. balance' \in [Miners -> Balance] /\ LedgerType'
    BY <1>5, <2>1, AppendType DEF ReconcilePay, mark_payout_paid, SigningInv, LedgerKind, PayoutKinds
  <2>4. StoreType' BY <1>5, <2>3 DEF ReconcilePay, SigningInv, TypeOK, StoreType, LedgerType
  <2>5. WithStatus(Inflight)' = WithStatus(Inflight) /\ lock' = lock
    BY <1>5 DEF ReconcilePay, WithStatus
  <2>6. QED BY <1>l, <2>2, <2>4, <2>5, OutsideStep DEF ReconcilePcs
<1>6. CASE ReconcileFail(p)
  <2>1. /\ MovesTo(p, "rc_unlock") /\ StoreType'
        /\ WithStatus(Inflight)' \subseteq WithStatus(Inflight)
    BY <1>6, <1>l, FailMarkKeeps DEF ReconcileFail, WithBatch, ReconcilePcs
  <2>2. QED BY <1>6, <1>l, <2>1, OutsideStep DEF ReconcileFail, FailMark, ReconcilePcs
<1>7. CASE ReconcileUnlock(p)
  <2>1. /\ MovesTo(p, "rc_failaudit") /\ StoreType'
        /\ WithStatus(Inflight)' \subseteq WithStatus(Inflight)
    BY <1>7, <1>l, FailUnlockKeeps DEF ReconcileUnlock, WithBatch, ReconcilePcs
  <2>2. QED BY <1>7, <1>l, <2>1, OutsideStep DEF ReconcileUnlock, FailUnlock, ReconcilePcs
<1>8. CASE ReconcileAudit(p) \/ ReconcileFailAudit(p)
  BY <1>8, <1>l, AuditContinues
     DEF ReconcileAudit, ReconcileFailAudit, WithBatch, AuditActions, ReconcilePcs
<1>9. QED BY <1>1, <1>2, <1>3, <1>4, <1>5, <1>6, <1>7, <1>8 DEF Reconcile

OperatorPcs == {"cn_update", "cn_unlock", "cn_audit", "rt_insert", "rt_readback", "rt_audit",
                "ap_audit", "ps_audit", "rs_audit"}

LEMMA OperatorSigning ==
  ASSUME SigningInv, NEW p \in Procs, Operator(p)
  PROVE  SigningInv'
<1>l. OperatorPcs \subseteq Pcs \ LockedPcs /\ "idle" \in Pcs \ LockedPcs
  BY DEF OperatorPcs, Pcs, LockedPcs, SignPcs
<1>w. {"ps_audit", "rs_audit"} \cap WithBatch = {} BY DEF WithBatch
<1>c. pc[p] \in WithBatch => cur[p] \in Batches BY DEF SigningInv, BatchInHand
<1>t. tx \in [Batches -> TxState]
  BY DEF SigningInv, TypeOK, StoreType
<1>1. CASE CancelRead(p)
  <2>1. MovesTo(p, "cn_update")
    BY <1>1, <1>l, TakeMoves DEF CancelRead, WithStatus, OperatorPcs
  <2>2. QED BY <1>1, <1>l, <1>t, <2>1, ReadOnlyStep DEF CancelRead, OperatorPcs
<1>2. CASE CancelUpdate(p)
  <2>1. cur[p] \in Batches BY <1>2, <1>c DEF CancelUpdate, At, WithBatch
  <2>2. MovesTo(p, "cn_unlock") \/ MovesTo(p, "idle")
    BY <1>2, <1>l, <2>1, ContinueMoves, FinishMoves DEF CancelUpdate, OperatorPcs
  <2>3. QED
    BY <1>2, <1>l, <2>1, <2>2, StatusStep DEF CancelUpdate, BatchStatus, Inflight, OperatorPcs
<1>3. CASE CancelUnlock(p)
  <2>1. /\ MovesTo(p, "cn_audit") /\ StoreType'
        /\ WithStatus(Inflight)' \subseteq WithStatus(Inflight)
    BY <1>3, <1>l, FailUnlockKeeps DEF CancelUnlock, WithBatch, OperatorPcs
  <2>2. QED BY <1>3, <1>l, <2>1, OutsideStep DEF CancelUnlock, FailUnlock, OperatorPcs
<1>4. CASE RetryRead(p)
  <2>1. MovesTo(p, "rt_insert")
    BY <1>4, <1>l, TakeMoves DEF RetryRead, WithStatus, OperatorPcs
  <2>2. QED BY <1>4, <1>l, <1>t, <2>1, ReadOnlyStep DEF RetryRead, OperatorPcs
<1>5. CASE RetryInsert(p)
  <2>1. amount[cur[p]] \in [Miners -> Nat]
    BY <1>5, <1>c DEF RetryInsert, At, WithBatch, SigningInv, TypeOK, StoreType
  <2>2. PICK b \in Batches : /\ create_locked_payout_batch(b, amount[cur[p]], "created")
                             /\ Take(p, b, "rt_readback")
    BY <1>5 DEF RetryInsert
  <2>3. QED BY <1>5, <1>l, <2>1, <2>2, NewBatchStep DEF RetryInsert, OperatorPcs
<1>6. CASE RetryRollback(p)
  <2>1. MovesTo(p, "idle") BY <1>6, FinishMoves DEF RetryRollback
  <2>2. QED BY <1>6, <1>l, <1>t, <2>1, ReadOnlyStep DEF RetryRollback
<1>7. CASE RetryReadback(p)
  <2>1. cur[p] \in Batches BY <1>7, <1>c DEF RetryReadback, At, WithBatch
  <2>2. MovesTo(p, "rt_audit") \/ MovesTo(p, "idle")
    BY <1>7, <1>l, <2>1, ContinueMoves, FinishMoves DEF RetryReadback, OperatorPcs
  <2>3. QED BY <1>7, <1>l, <1>t, <2>2, ReadOnlyStep DEF RetryReadback, OperatorPcs
<1>8. CASE Approve(p)
  <2>1. PICK b \in Batches : mark_payout_approved(b) /\ Take(p, b, "ap_audit")
    BY <1>8 DEF Approve, WithStatus
  <2>2. MovesTo(p, "ap_audit") BY <1>l, <2>1, TakeMoves DEF OperatorPcs
  <2>3. QED
    BY <1>8, <1>l, <2>1, <2>2, StatusStep
       DEF Approve, mark_payout_approved, BatchStatus, Inflight, OperatorPcs
<1>9. CASE PausePayouts(p) \/ ResumePayouts(p)
  <2>1. MovesTo(p, "ps_audit") \/ MovesTo(p, "rs_audit")
    BY <1>9, <1>l, <1>w, ContinueMoves DEF PausePayouts, ResumePayouts, Start, OperatorPcs
  <2>2. StoreType' BY <1>9 DEF PausePayouts, ResumePayouts, SigningInv, TypeOK, StoreType
  <2>3. WithStatus(Inflight)' = WithStatus(Inflight) /\ lock' = lock
    BY <1>9 DEF PausePayouts, ResumePayouts, WithStatus
  <2>4. QED BY <1>l, <2>1, <2>2, <2>3, OutsideStep DEF OperatorPcs
<1>10. CASE CancelAudit(p) \/ RetryAudit(p) \/ ApproveAudit(p) \/ PauseAudit(p) \/ ResumeAudit(p)
  BY <1>10, AuditFinishes
     DEF CancelAudit, RetryAudit, ApproveAudit, PauseAudit, ResumeAudit, WithBatch, AuditActions
<1>11. QED
  BY <1>1, <1>2, <1>3, <1>4, <1>5, <1>6, <1>7, <1>8, <1>9, <1>10 DEF Operator

\* A run that dies gives the lock back only if it held it.
LEMMA CrashSigning ==
  ASSUME SigningInv, NEW p \in Procs, Crash(p)
  PROVE  SigningInv'
<1>1. MovesTo(p, "idle") BY FinishMoves DEF Crash
<1>2. StoreType' BY DEF Crash, SigningInv, TypeOK, StoreType, dbVars
<1>3. WithStatus(Inflight)' = WithStatus(Inflight) BY DEF Crash, WithStatus, dbVars
<1>4. "idle" \notin LockedPcs BY DEF LockedPcs, SignPcs
<1>5. LockHeld'
  <2>1. CASE lock = p BY <1>1, <1>4, <2>1, OnlyHolder DEF LockHeld, MovesTo
  <2>2. CASE lock # p BY <1>1, <1>4, <2>2 DEF Crash, SigningInv, LockHeld, MovesTo
  <2>3. QED BY <2>1, <2>2
<1>6. ClearToSign' /\ AtMostOneInflight'
  BY <1>1, <1>3 DEF SigningInv, ClearToSign, AtMostOneInflight, MovesTo
<1>7. QED BY <1>1, <1>2, <1>5, <1>6 DEF SigningInv, TypeOK, MovesTo

\* Nodes, matured blocks and midnight move no run and change no status.
LEMMA WorldSigning ==
  ASSUME SigningInv,
         \/ \E b \in Batches : NodeReceives(b) \/ NodeDecides(b)
         \/ \E k \in Blocks : CreditBlock(k)
         \/ NewDay
  PROVE  SigningInv'
<1>1. StoreType'
  <2>1. CASE \E b \in Batches : NodeReceives(b) \/ NodeDecides(b)
    BY <2>1 DEF NodeReceives, NodeDecides, SigningInv, TypeOK, StoreType, TxState, dbVars
  <2>2. CASE \E k \in Blocks : CreditBlock(k)
    <3>1. PICK k \in Blocks : CreditBlock(k) BY <2>2
    <3>2. \A m \in Miners : Reward[k][m] \in Nat BY <3>1, PayoutsAssumption
    <3>3. balance' \in [Miners -> Balance]
      BY <3>1, <3>2 DEF CreditBlock, SigningInv, TypeOK, StoreType, Balance, Buckets
    <3>4. LedgerType'
      BY <3>1, <3>2 DEF CreditBlock, LedgerType, SigningInv, TypeOK, StoreType, Entry, LedgerKind, RewardKinds
    <3>5. QED BY <3>1, <3>3, <3>4 DEF CreditBlock, SigningInv, TypeOK, StoreType, LedgerType
  <2>3. CASE NewDay BY <2>3 DEF NewDay, SigningInv, TypeOK, StoreType
  <2>4. QED BY <2>1, <2>2, <2>3
<1>2. UNCHANGED <<runVars, lock, status>> BY DEF NodeReceives, NodeDecides, CreditBlock, NewDay, dbVars
<1>3. QED
  BY <1>1, <1>2 DEF SigningInv, TypeOK, RunType, BatchInHand, LockHeld, ClearToSign,
                    AtMostOneInflight, WithStatus, runVars

LEMMA InitSigning == Init => SigningInv
BY PayoutsAssumption
   DEF Init, SigningInv, TypeOK, RunType, StoreType, BatchInHand, LockHeld, ClearToSign,
       AtMostOneInflight, WithStatus, Inflight, WithBatch, LockedPcs, SignPcs, BatchStatus,
       Pcs, AuditActions, NoDraft, EmptyBalance, Balance, NoBatch, TxState

LEMMA NextSigning == SigningInv /\ [Next]_vars => SigningInv'
<1> SUFFICES ASSUME SigningInv, [Next]_vars PROVE SigningInv'
  OBVIOUS
<1>1. CASE \E p \in Procs : Run(p) \/ Crash(p)
  BY <1>1, CreateSigning, SignSigning, SubmitSigning, ReconcileSigning, OperatorSigning, CrashSigning
     DEF Run
<1>2. CASE (\E b \in Batches : NodeReceives(b) \/ NodeDecides(b)) \/ (\E k \in Blocks : CreditBlock(k)) \/ NewDay
  BY <1>2, WorldSigning
<1>3. CASE UNCHANGED vars
  BY <1>3 DEF vars, dbVars, runVars, SigningInv, TypeOK, RunType, StoreType, BatchInHand, LockHeld,
              ClearToSign, AtMostOneInflight, WithStatus
<1>4. QED BY <1>1, <1>2, <1>3 DEF Next

-----------------------------------------------------------------------------
\* The invariant of the signing protocol holds of every behaviour.
THEOREM SigningInvariant == Spec => []SigningInv
BY InitSigning, NextSigning, PTL DEF Spec

\* Every variable keeps its type: in particular no balance bucket of a miner
\* goes below zero, whatever the workers and operators do.
THEOREM TypeCorrect == Spec => []TypeOK
<1>1. SigningInv => TypeOK BY DEF SigningInv
<1>2. QED BY <1>1, SigningInvariant, PTL

\* At most one batch is signed or submitted: the advisory lock of sign-payouts
\* and its check for a batch in flight are enough, for any number of hosts and
\* operators, with runs dying anywhere and batches cancelled and retried.
THEOREM OneInflight == Spec => []AtMostOneInflight
<1>1. SigningInv => AtMostOneInflight BY DEF SigningInv
<1>2. QED BY <1>1, SigningInvariant, PTL

-----------------------------------------------------------------------------

(***************************************************************************)
(* The inductive invariant.                                                *)
(***************************************************************************)
\* The labels at which submit-payouts or reconcile-payouts has taken a batch
\* from its list.
WorkPcs == {"sb_mark", "sb_prior", "sb_audit", "sb_prioraudit", "sb_defer", "rc_confirm",
            "rc_pay", "rc_audit", "rc_fail", "rc_unlock", "rc_failaudit"}

\* The labels at which reconcile-payouts has its list.
ListedPcs == ReconcilePcs \ {"rc_list"}

Handles(q, b) == b \in todo[q] \/ (pc[q] \in WorkPcs /\ cur[q] = b)

\* The batch never left the pool, and no run that could send it knows it.
Untouched(b) == tx[b] = "none" /\ \A q \in Procs : ~Handles(q, b)

\* What a run that is about to write knows of its batch, although it read the
\* status some steps ago and other runs have moved since.
RunInv(p) ==
  /\ pc[p] = "cr_insert" => \E m \in Miners : draft[p][m] > 0
  /\ pc[p] = "rt_insert" => status[cur[p]] # "none"
  /\ pc[p] \in {"sg_call", "sg_mark", "sg_fail"} =>
       status[cur[p]] \in {"created", "cancelled"} /\ Untouched(cur[p])
  /\ pc[p] = "sg_unlock" => status[cur[p]] \in {"failed", "cancelled"}
  /\ pc[p] \in {"sb_mark", "sb_audit"} => tx[cur[p]] \notin Unknown
  /\ pc[p] \in {"sb_audit", "sb_prioraudit"} => Reconciled(cur[p])
  /\ pc[p] = "rc_confirm" => tx[cur[p]] = "confirmed" /\ status[cur[p]] \in {"submitted", "confirmed"}
  /\ pc[p] \in {"rc_pay", "rc_audit"} => status[cur[p]] = "confirmed"
  /\ pc[p] = "rc_fail" => tx[cur[p]] = "failed" /\ status[cur[p]] \in {"submitted", "failed"}
  /\ pc[p] = "rc_unlock" => status[cur[p]] = "failed"
  /\ pc[p] = "cn_unlock" => status[cur[p]] = "cancelled"
  /\ pc[p] = "rc_audit" => HasRow(cur[p], "payout_sent")
  /\ pc[p] \in {"sg_failaudit", "rc_failaudit", "cn_audit"} => HasRow(cur[p], "payout_failed_unlock")
  /\ pc[p] \in ListedPcs => \A c \in todo[p] : status[c] \in {"submitted", "confirmed", "failed"}

\* What the status of a batch says of its transaction, and its rows of its
\* status.  A failed batch was either never sent or cannot be mined.
BatchInv(b) ==
  /\ status[b] \in {"none", "needs_approval", "created"} => Untouched(b)
  /\ status[b] # "none" => Recipients(b) # {}
  /\ status[b] = "confirmed" => tx[b] = "confirmed"
  /\ status[b] = "failed" => Untouched(b) \/ tx[b] = "failed"
  /\ HasRow(b, "payout_sent") => status[b] = "confirmed"
  /\ HasRow(b, "payout_failed_unlock") => status[b] \in {"failed", "cancelled"}

AuditOK(b) ==
  /\ audit[b] = "confirm" => HasRow(b, "payout_sent") /\ tx[b] = "confirmed"
  /\ audit[b] \in {"fail", "cancel"} => HasRow(b, "payout_failed_unlock")
  /\ audit[b] = "submit" => tx[b] \notin Unknown
  /\ audit[b] \in {"submit", "submit_ambiguous"} => Reconciled(b)

SettlingInv ==
  /\ SigningInv
  /\ \A p \in Procs : RunInv(p)
  /\ \A b \in Batches : BatchInv(b) /\ AuditOK(b)

-----------------------------------------------------------------------------
(***************************************************************************)
(* What one step of the run of p may do to the rest of the state.  SafeStep *)
(* collects it, and StepKeeps shows that such a step keeps the invariant   *)
(* of every other run and of every batch.                                  *)
(***************************************************************************)
OnlyRun(p) ==
  \A q \in Procs \ {p} : /\ pc'[q] = pc[q] /\ cur'[q] = cur[q]
                         /\ todo'[q] = todo[q] /\ draft'[q] = draft[q]

StatusMoves(p) ==
  \A b \in Batches :
    \/ status'[b] = status[b]
    \/ status[b] = "none" /\ status'[b] \in {"needs_approval", "created"}
    \/ status[b] = "needs_approval" /\ status'[b] = "created"
    \/ /\ status[b] = "created" /\ status'[b] \in {"signed", "failed"}
       /\ \A q \in Procs \ {p} : pc[q] \notin LockedPcs
    \/ status[b] \in Inflight /\ status'[b] = "submitted"
    \/ status[b] = "submitted" /\ status'[b] = "confirmed" /\ tx[b] = "confirmed"
    \/ status[b] = "submitted" /\ status'[b] = "failed" /\ tx[b] = "failed"
    \/ status[b] \in Cancellable /\ status'[b] = "cancelled"

TxMoves(p) ==
  \A b \in Batches :
    \/ tx'[b] = tx[b]
    \/ tx[b] \in Unknown /\ tx'[b] \in {"underway", "mempool"} /\ p \in Procs /\ Handles(p, b)
    \/ tx[b] = "underway" /\ tx'[b] \in {"none", "mempool"}
    \/ tx[b] = "mempool" /\ tx'[b] \in {"confirmed", "failed"}

\* Only a batch in flight is newly taken in hand by submit or reconcile.
HandMoves(p) ==
  p \in Procs => \A b \in Batches : Handles(p, b)' => Handles(p, b) \/ status[b] \in Inflight

RowMoves ==
  \A b \in Batches :
    /\ HasRow(b, "payout_sent") => HasRow(b, "payout_sent")'
    /\ HasRow(b, "payout_failed_unlock") => HasRow(b, "payout_failed_unlock")'
    /\ HasRow(b, "payout_sent")' => HasRow(b, "payout_sent") \/ status'[b] = "confirmed"
    /\ HasRow(b, "payout_failed_unlock")' =>
         HasRow(b, "payout_failed_unlock") \/ status'[b] \in {"failed", "cancelled"}

RecipientMoves ==
  \A b \in Batches :
    status'[b] # "none" => \/ status[b] # "none" /\ Recipients(b)' = Recipients(b)
                           \/ Recipients(b)' # {}

AuditMoves == \A b \in Batches : audit'[b] = audit[b] \/ AuditOK(b)'

SafeStep(p) ==
  /\ OnlyRun(p) /\ StatusMoves(p) /\ TxMoves(p) /\ HandMoves(p)
  /\ RowMoves /\ RecipientMoves /\ AuditMoves

\* A batch that was never sent and is not in flight stays unknown to every run.
LEMMA UntouchedStays ==
  ASSUME NEW p, SafeStep(p), NEW b \in Batches, Untouched(b), status[b] \notin Inflight
  PROVE  Untouched(b)'
<1>1. tx'[b] = "none" BY DEF SafeStep, TxMoves, Untouched, Unknown
<1>2. ASSUME NEW q \in Procs PROVE ~Handles(q, b)'
  <2>1. CASE q = p BY <2>1 DEF SafeStep, HandMoves, Untouched
  <2>2. CASE q # p BY <2>2 DEF SafeStep, OnlyRun, Untouched, Handles
  <2>3. QED BY <2>1, <2>2
<1>3. QED BY <1>1, <1>2 DEF Untouched

LEMMA BatchKept ==
  ASSUME SettlingInv, NEW p, SafeStep(p), NEW b \in Batches
  PROVE  BatchInv(b)' /\ AuditOK(b)'
<1>b. BatchInv(b) /\ AuditOK(b) BY DEF SettlingInv
<1>s. StatusMoves(p)!(b) BY DEF SafeStep, StatusMoves
<1>t. TxMoves(p)!(b) BY DEF SafeStep, TxMoves
<1>r. RowMoves!(b) BY DEF SafeStep, RowMoves
<1>u. Untouched(b) /\ status[b] \notin Inflight => Untouched(b)' BY UntouchedStays
<1>h. Untouched(b) => ~(p \in Procs /\ Handles(p, b)) BY DEF Untouched
<1>n. Untouched(b) => tx[b] = "none" BY DEF Untouched
<1>1. status'[b] \in {"none", "needs_approval", "created"} => Untouched(b)'
  BY <1>b, <1>s, <1>u DEF BatchInv, Inflight
<1>2. status'[b] # "none" => Recipients(b)' # {}
  BY <1>b DEF BatchInv, SafeStep, RecipientMoves
<1>3. Reconciled(b) => Reconciled(b)'
  BY <1>s, <1>t DEF Reconciled, Unknown, Inflight, Cancellable
<1>4. status'[b] = "confirmed" => tx'[b] = "confirmed"
  BY <1>b, <1>s, <1>t DEF BatchInv, Unknown
<1>5. status'[b] = "failed" => Untouched(b)' \/ tx'[b] = "failed"
  BY <1>b, <1>s, <1>t, <1>u, <1>h, <1>n DEF BatchInv, Inflight, Unknown
<1>6. HasRow(b, "payout_sent")' => status'[b] = "confirmed"
  BY <1>b, <1>s, <1>r DEF BatchInv, Inflight, Cancellable
<1>7. HasRow(b, "payout_failed_unlock")' => status'[b] \in {"failed", "cancelled"}
  BY <1>b, <1>s, <1>r DEF BatchInv, Inflight, Cancellable
<1>8. AuditOK(b)'
  <2>1. CASE audit'[b] = audit[b]
    BY <1>b, <1>t, <1>r, <1>3, <2>1 DEF AuditOK, Unknown
  <2>2. CASE AuditOK(b)' BY <2>2
  <2>3. QED BY <2>1, <2>2 DEF SafeStep, AuditMoves
<1>9. QED BY <1>1, <1>2, <1>4, <1>5, <1>6, <1>7, <1>8 DEF BatchInv

LEMMA OtherRunKept ==
  ASSUME SettlingInv, NEW p, SafeStep(p), NEW q \in Procs \ {p}
  PROVE  RunInv(q)'
<1>i. RunInv(q) BY DEF SettlingInv
<1>o. pc'[q] = pc[q] /\ cur'[q] = cur[q] /\ todo'[q] = todo[q] /\ draft'[q] = draft[q]
  BY DEF SafeStep, OnlyRun
<1>c. pc[q] \in WithBatch => cur[q] \in Batches BY DEF SettlingInv, SigningInv, BatchInHand
<1>d. todo[q] \subseteq Batches BY DEF SettlingInv, SigningInv, TypeOK, RunType
<1>1. CASE pc[q] \in WithBatch
  <2>b. PICK b \in Batches : b = cur[q] BY <1>1, <1>c
  <2>s. StatusMoves(p)!(b) BY <2>b DEF SafeStep, StatusMoves
  <2>t. TxMoves(p)!(b) BY <2>b DEF SafeStep, TxMoves
  <2>r. RowMoves!(b) BY <2>b DEF SafeStep, RowMoves
  <2>u. Untouched(b) /\ status[b] \notin Inflight => Untouched(b)' BY <2>b, UntouchedStays
  <2>n. Untouched(b) => tx[b] = "none" BY DEF Untouched
  <2>e. cur[q] = b /\ cur'[q] = b BY <1>o, <2>b
  <2>1. pc[q] = "rt_insert" => status'[b] # "none"
    BY <1>i, <2>e, <2>s DEF RunInv
  <2>2. pc[q] \in {"sg_call", "sg_mark", "sg_fail"} =>
          status'[b] \in {"created", "cancelled"} /\ Untouched(b)'
    <3> SUFFICES ASSUME pc[q] \in {"sg_call", "sg_mark", "sg_fail"}
        PROVE status'[b] \in {"created", "cancelled"} /\ Untouched(b)'
      OBVIOUS
    <3>1. pc[q] \in LockedPcs BY DEF LockedPcs, SignPcs
    <3>2. status[b] \in {"created", "cancelled"} /\ Untouched(b) BY <1>i, <2>e DEF RunInv
    <3>3. QED BY <3>1, <3>2, <2>s, <2>u DEF Inflight, Cancellable
  <2>3. /\ pc[q] = "sg_unlock" => status'[b] \in {"failed", "cancelled"}
        /\ pc[q] \in {"rc_pay", "rc_audit"} => status'[b] = "confirmed"
        /\ pc[q] = "rc_unlock" => status'[b] = "failed"
        /\ pc[q] = "cn_unlock" => status'[b] = "cancelled"
    BY <1>i, <2>e, <2>s DEF RunInv, Inflight, Cancellable
  <2>4. /\ pc[q] \in {"sb_mark", "sb_audit"} => tx'[b] \notin Unknown
        /\ pc[q] \in {"sb_audit", "sb_prioraudit"} => Reconciled(b)'
    <3>1. pc[q] \in {"sb_mark", "sb_audit"} => tx[b] \notin Unknown BY <1>i, <2>e DEF RunInv
    <3>2. pc[q] \in {"sb_audit", "sb_prioraudit"} => Reconciled(b) BY <1>i, <2>e DEF RunInv
    <3>3. Reconciled(b) => Reconciled(b)'
      BY <2>s, <2>t DEF Reconciled, Unknown, Inflight, Cancellable
    <3>4. QED BY <2>t, <3>1, <3>2, <3>3 DEF Unknown
  <2>5. /\ pc[q] = "rc_confirm" => tx'[b] = "confirmed" /\ status'[b] \in {"submitted", "confirmed"}
        /\ pc[q] = "rc_fail" => tx'[b] = "failed" /\ status'[b] \in {"submitted", "failed"}
    BY <1>i, <2>e, <2>s, <2>t DEF RunInv, Inflight, Cancellable, Unknown
  <2>6. /\ pc[q] = "rc_audit" => HasRow(b, "payout_sent")'
        /\ pc[q] \in {"sg_failaudit", "rc_failaudit", "cn_audit"} => HasRow(b, "payout_failed_unlock")'
    BY <1>i, <2>e, <2>r DEF RunInv
  <2>7. pc[q] \in ListedPcs => \A c \in todo[q] : status'[c] \in {"submitted", "confirmed", "failed"}
    BY <1>i, <1>d DEF RunInv, SafeStep, StatusMoves, Inflight, Cancellable
  <2>8. pc[q] # "cr_insert" BY <1>1 DEF WithBatch
  <2>9. /\ Untouched(b)' = Untouched(cur[q])' /\ (\A k : HasRow(b, k)' = HasRow(cur[q], k)')
        /\ Reconciled(b)' = Reconciled(cur[q])'
    BY <2>e
  <2>10. QED
    BY <1>o, <2>e, <2>1, <2>2, <2>3, <2>4, <2>5, <2>6, <2>7, <2>8, <2>9 DEF RunInv
<1>2. CASE pc[q] \notin WithBatch
  <2>1. pc[q] \in ListedPcs => \A c \in todo[q] : status'[c] \in {"submitted", "confirmed", "failed"}
    BY <1>i, <1>d DEF RunInv, SafeStep, StatusMoves, Inflight, Cancellable
  <2>2. QED BY <1>i, <1>o, <1>2, <2>1 DEF RunInv, WithBatch
<1>3. QED BY <1>1, <1>2

LEMMA StepKeeps ==
  ASSUME SettlingInv, SigningInv', NEW p, SafeStep(p), p \in Procs => RunInv(p)'
  PROVE  SettlingInv'
BY BatchKept, OtherRunKept DEF SettlingInv

-----------------------------------------------------------------------------
(***************************************************************************)
(* How a run moves: the locals of p and nothing it may not yet know.       *)
(***************************************************************************)
\* The run that returns or dies forgets all it had in hand.
LEMMA FinishRun ==
  ASSUME SettlingInv, NEW p \in Procs, Finish(p)
  PROVE  OnlyRun(p) /\ HandMoves(p) /\ RunInv(p)'
<1>1. OnlyRun(p) BY DEF Finish, OnlyRun, SettlingInv, SigningInv, TypeOK, RunType
<1>2. pc'[p] = "idle" /\ todo'[p] = {} BY DEF Finish, SettlingInv, SigningInv, TypeOK, RunType
<1>3. HandMoves(p) BY <1>2 DEF HandMoves, Handles, WorkPcs
<1>4. RunInv(p)' BY <1>2 DEF RunInv, ListedPcs, ReconcilePcs
<1>5. QED BY <1>1, <1>3, <1>4

\* The locals of p after a step that only moves its label.
Labelled(p, label) ==
  pc'[p] = label /\ cur'[p] = cur[p] /\ todo'[p] = todo[p] /\ draft'[p] = draft[p]

LEMMA ContinueRun ==
  ASSUME SettlingInv, NEW p \in Procs, NEW label, Continue(p, label),
         label \in WorkPcs => pc[p] \in WorkPcs
  PROVE  OnlyRun(p) /\ HandMoves(p) /\ Labelled(p, label)
<1>1. OnlyRun(p) /\ Labelled(p, label)
  BY DEF Continue, Goto, OnlyRun, Labelled, SettlingInv, SigningInv, TypeOK, RunType
<1>2. HandMoves(p) BY <1>1 DEF HandMoves, Handles, Labelled
<1>3. QED BY <1>1, <1>2

LEMMA TakeRun ==
  ASSUME SettlingInv, NEW p \in Procs, NEW b \in Batches, NEW label, Take(p, b, label),
         label \notin WorkPcs
  PROVE  OnlyRun(p) /\ HandMoves(p) /\ pc'[p] = label /\ cur'[p] = b
<1>1. OnlyRun(p) /\ pc'[p] = label /\ cur'[p] = b /\ todo'[p] = todo[p]
  BY DEF Take, Goto, OnlyRun, SettlingInv, SigningInv, TypeOK, RunType
<1>2. HandMoves(p) BY <1>1 DEF HandMoves, Handles
<1>3. QED BY <1>1, <1>2

LEMMA TakeNextRun ==
  ASSUME SettlingInv, NEW p \in Procs, NEW b \in todo[p], NEW label, TakeNext(p, b, label)
  PROVE  OnlyRun(p) /\ HandMoves(p) /\ pc'[p] = label /\ cur'[p] = b /\ todo'[p] \subseteq todo[p]
<1>1. /\ OnlyRun(p) /\ pc'[p] = label /\ cur'[p] = b /\ todo'[p] = todo[p] \ {b}
  BY DEF TakeNext, Goto, OnlyRun, SettlingInv, SigningInv, TypeOK, RunType
<1>2. HandMoves(p) BY <1>1 DEF HandMoves, Handles
<1>3. QED BY <1>1, <1>2

-----------------------------------------------------------------------------
(***************************************************************************)
(* The kinds of step.                                                      *)
(***************************************************************************)
\* A step that writes nothing the invariant speaks of.
LEMMA QuietStep ==
  ASSUME SettlingInv, SigningInv', NEW p, OnlyRun(p), HandMoves(p), p \in Procs => RunInv(p)',
         UNCHANGED <<status, amount, ledger, audit, tx>>
  PROVE  SettlingInv'
<1>1. StatusMoves(p) BY DEF StatusMoves
<1>2. TxMoves(p) BY DEF TxMoves
<1>3. RowMoves BY DEF RowMoves, HasRow
<1>4. RecipientMoves
  <2>1. \A b \in Batches : Recipients(b)' = Recipients(b) BY DEF Recipients
  <2>2. QED BY <2>1 DEF RecipientMoves, SettlingInv, BatchInv
<1>5. AuditMoves BY DEF AuditMoves
<1>6. QED BY <1>1, <1>2, <1>3, <1>4, <1>5, StepKeeps DEF SafeStep

\* A step that only changes what the nodes know.
LEMMA TxStep ==
  ASSUME SettlingInv, SigningInv', NEW p, OnlyRun(p), HandMoves(p), p \in Procs => RunInv(p)',
         TxMoves(p), UNCHANGED <<status, amount, ledger, audit>>
  PROVE  SettlingInv'
<1>1. StatusMoves(p) BY DEF StatusMoves
<1>3. RowMoves BY DEF RowMoves, HasRow
<1>4. RecipientMoves
  <2>1. \A b \in Batches : Recipients(b)' = Recipients(b) BY DEF Recipients
  <2>2. QED BY <2>1 DEF RecipientMoves, SettlingInv, BatchInv
<1>5. AuditMoves BY DEF AuditMoves
<1>6. QED BY <1>1, <1>3, <1>4, <1>5, StepKeeps DEF SafeStep

\* A guarded update of the status column, one batch at a time.
LEMMA StatusMoveStep ==
  ASSUME SettlingInv, SigningInv', NEW p \in Procs, OnlyRun(p), HandMoves(p), RunInv(p)',
         StatusMoves(p), \A b \in Batches : status[b] = "none" => status'[b] = "none",
         UNCHANGED <<amount, ledger, audit, tx>>
  PROVE  SettlingInv'
<1>2. TxMoves(p) BY DEF TxMoves
<1>3. RowMoves BY DEF RowMoves, HasRow
<1>4. RecipientMoves
  <2>1. \A b \in Batches : Recipients(b)' = Recipients(b) BY DEF Recipients
  <2>2. QED BY <2>1 DEF RecipientMoves
<1>5. AuditMoves BY DEF AuditMoves
<1>6. QED BY <1>2, <1>3, <1>4, <1>5, StepKeeps DEF SafeStep

\* append_payout_audit, of an event that is true.
LEMMA AuditEvent ==
  ASSUME SettlingInv, SigningInv', NEW p \in Procs, NEW here, NEW action,
         AuditStep(p, here, action), OnlyRun(p), HandMoves(p), RunInv(p)',
         action = "confirm" => HasRow(cur[p], "payout_sent") /\ tx[cur[p]] = "confirmed",
         action \in {"fail", "cancel"} => HasRow(cur[p], "payout_failed_unlock"),
         action = "submit" => tx[cur[p]] \notin Unknown,
         action \in {"submit", "submit_ambiguous"} => Reconciled(cur[p])
  PROVE  SettlingInv'
<1>s. UNCHANGED <<status, amount, ledger, tx>> BY DEF AuditStep
<1>1. StatusMoves(p) BY <1>s DEF StatusMoves
<1>2. TxMoves(p) BY <1>s DEF TxMoves
<1>3. RowMoves BY <1>s DEF RowMoves, HasRow
<1>4. RecipientMoves
  <2>1. \A b \in Batches : Recipients(b)' = Recipients(b) BY <1>s DEF Recipients
  <2>2. QED BY <1>s, <2>1 DEF RecipientMoves
<1>5. AuditMoves
  <2>1. SUFFICES ASSUME NEW b \in Batches, audit'[b] # audit[b] PROVE AuditOK(b)'
    BY DEF AuditMoves
  <2>2. b = cur[p] /\ audit'[b] = action
    BY <2>1 DEF AuditStep, SettlingInv, SigningInv, TypeOK, StoreType
  <2>3. \A k : HasRow(b, k)' = HasRow(b, k) BY <1>s DEF HasRow
  <2>4. Reconciled(b)' = Reconciled(b) BY <1>s DEF Reconciled
  <2>5. QED BY <1>s, <2>2, <2>3, <2>4 DEF AuditOK
<1>6. QED BY <1>1, <1>2, <1>3, <1>4, <1>5, StepKeeps DEF SafeStep

\* append_ledger_entries for a batch adds rows of that batch and kind, and the
\* batch has one afterwards, new or already there.
LEMMA AppendRows ==
  ASSUME SettlingInv, NEW b \in Batches, NEW kind \in {"payout_sent", "payout_failed_unlock"},
         AppendForBatch(b, kind), Recipients(b) # {}
  PROVE  /\ HasRow(b, kind)'
         /\ \A c \in Batches : \A k : HasRow(c, k) => HasRow(c, k)'
         /\ \A c \in Batches : \A k : HasRow(c, k)' /\ (c # b \/ k # kind) => HasRow(c, k)
<1>e. \A m : /\ BatchEntry(b, kind, m).kind = kind /\ BatchEntry(b, kind, m).ref = BatchRef(b)
             /\ BatchEntry(b, kind, m).miner = m
  BY DEF BatchEntry, Entry
<1>l. ledger' = ledger \cup {e \in {BatchEntry(b, kind, m) : m \in Recipients(b)} : Inserts(ledger, e)}
  BY DEF AppendForBatch
<1>1. HasRow(b, kind)'
  <2>1. PICK m \in Recipients(b) : TRUE OBVIOUS
  <2>2. CASE Inserts(ledger, BatchEntry(b, kind, m))
    <3>1. BatchEntry(b, kind, m) \in ledger' BY <1>l, <2>2
    <3>2. QED BY <1>e, <3>1 DEF HasRow, BatchRef
  <2>3. CASE ~Inserts(ledger, BatchEntry(b, kind, m))
    <3>1. PICK f \in ledger : SameKey(BatchEntry(b, kind, m), f) BY <2>3 DEF Inserts
    <3>2. f.kind = kind /\ f.ref = BatchRef(b) BY <1>e, <3>1 DEF SameKey
    <3>3. f \in ledger' BY <1>l
    <3>4. QED BY <3>2, <3>3 DEF HasRow, BatchRef
  <2>4. QED BY <2>2, <2>3
<1>2. ASSUME NEW c \in Batches, NEW k, HasRow(c, k) PROVE HasRow(c, k)'
  <2>1. PICK e \in ledger : e.kind = k /\ e.ref = BatchRef(c) BY <1>2 DEF HasRow
  <2>2. e \in ledger' BY <1>l
  <2>3. QED BY <2>1, <2>2 DEF HasRow, BatchRef
<1>3. ASSUME NEW c \in Batches, NEW k, HasRow(c, k)', c # b \/ k # kind PROVE HasRow(c, k)
  <2>1. PICK e \in ledger' : e.kind = k /\ e.ref = BatchRef(c) BY <1>3 DEF HasRow, BatchRef
  <2>2. BatchRef(c) # BatchRef(b) \/ k # kind BY <1>3 DEF BatchRef
  <2>3. e \in ledger BY <1>l, <1>e, <2>1, <2>2
  <2>4. QED BY <2>1, <2>3 DEF HasRow
<1>4. QED BY <1>1, <1>2, <1>3

\* mark_payout_paid of a confirmed batch, unlock_failed_payout of one that is over.
LEMMA RowStep ==
  ASSUME SettlingInv, SigningInv', NEW p \in Procs, OnlyRun(p), HandMoves(p), RunInv(p)',
         NEW b \in Batches, NEW kind \in {"payout_sent", "payout_failed_unlock"},
         AppendForBatch(b, kind),
         kind = "payout_sent" => status[b] = "confirmed",
         kind = "payout_failed_unlock" => status[b] \in {"failed", "cancelled"},
         UNCHANGED <<status, amount, audit, tx>>
  PROVE  SettlingInv'
<1>1. StatusMoves(p) BY DEF StatusMoves
<1>2. TxMoves(p) BY DEF TxMoves
<1>r. Recipients(b) # {} BY DEF SettlingInv, BatchInv
<1>3. RowMoves BY <1>r, AppendRows DEF RowMoves
<1>4. RecipientMoves
  <2>1. \A c \in Batches : Recipients(c)' = Recipients(c) BY DEF Recipients
  <2>2. QED BY <2>1 DEF RecipientMoves
<1>5. AuditMoves BY DEF AuditMoves
<1>6. QED BY <1>1, <1>2, <1>3, <1>4, <1>5, StepKeeps DEF SafeStep

\* The transaction that creates a batch: recipients, and rows of another kind.
LEMMA NewBatchSettling ==
  ASSUME SettlingInv, SigningInv', NEW p \in Procs, OnlyRun(p), HandMoves(p), RunInv(p)',
         NEW b \in Batches, FreshBatch(b), NEW amounts \in [Miners -> Nat],
         NEW s \in {"created", "needs_approval"}, create_locked_payout_batch(b, amounts, s),
         \E m \in Miners : amounts[m] > 0, UNCHANGED <<audit, tx>>
  PROVE  SettlingInv'
<1>t. status \in [Batches -> BatchStatus] /\ amount \in [Batches -> [Miners -> Nat]]
  BY DEF SettlingInv, SigningInv, TypeOK, StoreType
<1>s. /\ status'[b] = s /\ amount'[b] = amounts
      /\ \A c \in Batches \ {b} : status'[c] = status[c] /\ amount'[c] = amount[c]
  BY <1>t DEF create_locked_payout_batch
<1>1. StatusMoves(p) BY <1>s DEF StatusMoves, FreshBatch
<1>2. TxMoves(p) BY DEF TxMoves
<1>3. RowMoves
  <2>1. ledger \subseteq ledger' BY DEF create_locked_payout_batch
  <2>2. \A e \in ledger' : e \in ledger \/ e.kind = "payout_lock"
    BY DEF create_locked_payout_batch, Entry
  <2>3. QED BY <2>1, <2>2 DEF RowMoves, HasRow, BatchRef
<1>4. RecipientMoves
  <2>1. SUFFICES ASSUME NEW c \in Batches, status'[c] # "none"
        PROVE  (status[c] # "none" /\ Recipients(c)' = Recipients(c)) \/ Recipients(c)' # {}
    BY DEF RecipientMoves
  <2>2. CASE c = b BY <1>s, <2>2 DEF Recipients
  <2>3. CASE c # b BY <1>s, <2>1, <2>3 DEF Recipients
  <2>4. QED BY <2>2, <2>3
<1>5. AuditMoves BY DEF AuditMoves
<1>6. QED BY <1>1, <1>2, <1>3, <1>4, <1>5, StepKeeps DEF SafeStep

-----------------------------------------------------------------------------
(***************************************************************************)
(* One lemma for each command, one step for each of its actions.  That the *)
(* steps keep SigningInv is PayoutsProofs' part.                           *)
(***************************************************************************)
LEMMA CreateSettling ==
  ASSUME SettlingInv, NEW p \in Procs, Create(p)
  PROVE  SettlingInv'
<1>i. SigningInv' BY CreateSigning DEF SettlingInv
<1>r. RunInv(p) BY DEF SettlingInv
<1>w. {"cr_daily", "cr_select", "cr_insert", "cr_audit"} \cap (WorkPcs \cup ListedPcs) = {}
  BY DEF WorkPcs, ListedPcs, ReconcilePcs
<1>t. /\ pc \in [Procs -> Pcs] /\ draft \in [Procs -> [Miners -> Nat]]
      /\ balance \in [Miners -> Balance]
  BY DEF SettlingInv, SigningInv, TypeOK, RunType, StoreType
<1>1. CASE CreateStart(p)
  <2>1. OnlyRun(p) /\ HandMoves(p) /\ Labelled(p, "cr_daily")
    BY <1>1, <1>w, ContinueRun DEF CreateStart, Start
  <2>2. RunInv(p)' BY <1>w, <2>1 DEF Labelled, RunInv
  <2>3. QED BY <1>1, <1>i, <2>1, <2>2, QuietStep DEF CreateStart, dbVars
<1>2. CASE CreateReadDaily(p)
  <2>1. /\ OnlyRun(p) /\ pc'[p] = "cr_select" /\ todo'[p] = todo[p]
    BY <1>2, <1>t DEF CreateReadDaily, Goto, OnlyRun
  <2>2. HandMoves(p) BY <1>w, <2>1 DEF HandMoves, Handles
  <2>3. RunInv(p)' BY <1>w, <2>1 DEF RunInv
  <2>4. QED BY <1>2, <1>i, <2>1, <2>2, <2>3, QuietStep DEF CreateReadDaily, dbVars
<1>3. CASE CreateSelect(p)
  <2>1. /\ OnlyRun(p) /\ pc'[p] = "cr_insert" /\ todo'[p] = todo[p] /\ draft'[p] = select_payouts
    BY <1>3, <1>t DEF CreateSelect, Goto, OnlyRun
  <2>2. HandMoves(p) BY <1>w, <2>1 DEF HandMoves, Handles
  <2>3. \E m \in Miners : select_payouts[m] > 0
    <3>1. PICK m \in Selected : TRUE BY <1>3 DEF CreateSelect
    <3>2. m \in Miners /\ balance[m]["confirmed"] >= MinPayout BY <3>1 DEF Selected, Payable
    <3>3. balance[m]["confirmed"] \in Nat BY <1>t, <3>2 DEF Balance, Buckets
    <3>4. select_payouts[m] = balance[m]["confirmed"] BY <3>1, <3>2 DEF select_payouts
    <3>5. QED BY <3>2, <3>3, <3>4, PayoutsAssumption
  <2>4. RunInv(p)' BY <1>w, <2>1, <2>3 DEF RunInv
  <2>5. QED BY <1>3, <1>i, <2>1, <2>2, <2>4, QuietStep DEF CreateSelect, dbVars
<1>4. CASE CreateSkip(p) \/ CreateRollback(p)
  BY <1>4, <1>i, FinishRun, QuietStep DEF CreateSkip, CreateRollback, dbVars
<1>5. CASE CreateInsert(p)
  <2>1. PICK b \in Batches :
          /\ FreshBatch(b)
          /\ create_locked_payout_batch(b, draft[p], InitialStatus(draft[p]))
          /\ Take(p, b, "cr_audit")
    BY <1>5 DEF CreateInsert
  <2>2. OnlyRun(p) /\ HandMoves(p) /\ pc'[p] = "cr_audit" BY <1>w, <2>1, TakeRun
  <2>3. RunInv(p)' BY <1>w, <2>2 DEF RunInv
  <2>4. \E m \in Miners : draft[p][m] > 0 BY <1>5, <1>r DEF CreateInsert, At, RunInv
  <2>5. InitialStatus(draft[p]) \in {"created", "needs_approval"} BY DEF InitialStatus
  <2>6. draft[p] \in [Miners -> Nat] BY <1>t
  <2>7. QED
    BY <1>5, <1>i, <2>1, <2>2, <2>3, <2>4, <2>5, <2>6, NewBatchSettling DEF CreateInsert
<1>6. CASE CreateAudit(p)
  <2>1. PICK action \in {"create", "needs_approval"} : AuditAndFinish(p, "cr_audit", action)
    BY <1>6 DEF CreateAudit
  <2>2. QED BY <1>i, <2>1, FinishRun, AuditEvent DEF AuditAndFinish
<1>7. QED BY <1>1, <1>2, <1>3, <1>4, <1>5, <1>6 DEF Create

\* No other run is in the locked part, and a batch that is about to be signed
\* or refused was never sent: a refusal cannot refund a batch that is paid.
LEMMA SignSettling ==
  ASSUME SettlingInv, NEW p \in Procs, Sign(p)
  PROVE  SettlingInv'
<1>i. SigningInv' BY SignSigning DEF SettlingInv
<1>s. SigningInv BY DEF SettlingInv
<1>r. RunInv(p) BY DEF SettlingInv
<1>w. SignPcs \cap (WorkPcs \cup ListedPcs) = {} BY DEF SignPcs, WorkPcs, ListedPcs, ReconcilePcs
<1>t. status \in [Batches -> BatchStatus]
  BY DEF SettlingInv, SigningInv, TypeOK, StoreType
<1>c. pc[p] \in WithBatch => cur[p] \in Batches BY <1>s DEF SigningInv, BatchInHand
<1>1. CASE SignStart(p) \/ SignLock(p) \/ SignCheckInflight(p)
  <2>1. PICK label \in {"sg_lock", "sg_inflight", "sg_list", "sg_commit"} : Continue(p, label)
    BY <1>1 DEF SignStart, SignLock, SignCheckInflight, Start
  <2>2. label \notin WorkPcs BY <1>w DEF SignPcs
  <2>3. OnlyRun(p) /\ HandMoves(p) /\ Labelled(p, label) BY <2>1, <2>2, ContinueRun
  <2>4. RunInv(p)' BY <1>w, <2>3 DEF Labelled, RunInv, SignPcs
  <2>5. QED
    BY <1>1, <1>i, <2>3, <2>4, QuietStep DEF SignStart, SignLock, SignCheckInflight, dbVars
<1>2. CASE SignList(p)
  <2>1. UNCHANGED <<status, amount, ledger, audit, tx>> BY <1>2 DEF SignList, dbVars
  <2>2. CASE \E b \in WithStatus({"created"}) : Take(p, b, "sg_call")
    <3>1. PICK b \in Batches : status[b] = "created" /\ Take(p, b, "sg_call")
      BY <2>2 DEF WithStatus
    <3>2. OnlyRun(p) /\ HandMoves(p) /\ pc'[p] = "sg_call" /\ cur'[p] = b
      BY <1>w, <3>1, TakeRun DEF SignPcs
    <3>3. Untouched(b) BY <3>1 DEF SettlingInv, BatchInv
    <3>4. Untouched(b)'
      <4>1. ASSUME NEW q \in Procs PROVE ~Handles(q, b)'
        <5>1. CASE q = p BY <3>1, <3>2, <3>3, <5>1 DEF HandMoves, Untouched, Inflight
        <5>2. CASE q # p BY <3>2, <3>3, <5>2 DEF OnlyRun, Handles, Untouched
        <5>3. QED BY <5>1, <5>2
      <4>2. QED BY <2>1, <3>3, <4>1 DEF Untouched
    <3>5. Untouched(cur[p])' BY <3>2, <3>4
    <3>6. RunInv(p)' BY <1>w, <2>1, <3>1, <3>2, <3>5 DEF RunInv, SignPcs
    <3>7. QED BY <1>i, <2>1, <3>2, <3>6, QuietStep
  <2>3. CASE Continue(p, "sg_commit")
    <3>1. OnlyRun(p) /\ HandMoves(p) /\ Labelled(p, "sg_commit")
      BY <1>w, <2>3, ContinueRun DEF SignPcs
    <3>2. RunInv(p)' BY <1>w, <3>1 DEF Labelled, RunInv, SignPcs
    <3>3. QED BY <1>i, <2>1, <3>1, <3>2, QuietStep
  <2>4. QED BY <1>2, <2>2, <2>3 DEF SignList
<1>3. CASE SignCall(p)
  <2>1. PICK label \in {"sg_mark", "sg_fail"} : Continue(p, label) BY <1>3 DEF SignCall
  <2>2. label \in SignPcs BY DEF SignPcs
  <2>3. OnlyRun(p) /\ HandMoves(p) /\ Labelled(p, label) BY <1>w, <2>1, <2>2, ContinueRun
  <2>4. UNCHANGED <<status, amount, ledger, audit, tx>> BY <1>3 DEF SignCall, dbVars
  <2>5. PICK b \in Batches : b = cur[p] BY <1>3, <1>c DEF SignCall, At, WithBatch
  <2>6. status[b] = "created" \/ status[b] = "cancelled" BY <1>3, <1>r, <2>5 DEF SignCall, At, RunInv
  <2>7. Untouched(b) BY <1>3, <1>r, <2>5 DEF SignCall, At, RunInv
  <2>8. Untouched(b)'
    <3>1. ASSUME NEW q \in Procs PROVE ~Handles(q, b)'
      <4>1. CASE q = p BY <2>3, <2>6, <2>7, <4>1 DEF HandMoves, Untouched, Inflight
      <4>2. CASE q # p BY <2>3, <2>7, <4>2 DEF OnlyRun, Handles, Untouched
      <4>3. QED BY <4>1, <4>2
    <3>2. QED BY <2>4, <2>7, <3>1 DEF Untouched
  <2>9. Untouched(cur[p])' BY <2>3, <2>5, <2>8 DEF Labelled
  <2>10. RunInv(p)'
    BY <1>w, <2>3, <2>4, <2>5, <2>6, <2>9 DEF Labelled, RunInv, SignPcs
  <2>11. QED BY <1>i, <2>3, <2>4, <2>10, QuietStep
<1>4. CASE SignMark(p)
  <2>1. PICK label \in {"sg_audit", "sg_commit"} : Continue(p, label) BY <1>4 DEF SignMark
  <2>2. label \in SignPcs BY DEF SignPcs
  <2>3. OnlyRun(p) /\ HandMoves(p) /\ Labelled(p, label) BY <1>w, <2>1, <2>2, ContinueRun
  <2>4. RunInv(p)' BY <1>w, <2>2, <2>3 DEF Labelled, RunInv
  <2>5. lock = p BY <1>4, <1>s DEF SignMark, At, SigningInv, LockHeld, LockedPcs, SignPcs
  <2>6. \A q \in Procs \ {p} : pc[q] \notin LockedPcs BY <1>s, <2>5, OnlyHolder
  <2>7. StatusMoves(p) /\ (\A b \in Batches : status[b] = "none" => status'[b] = "none")
    BY <1>4, <1>t, <2>6 DEF SignMark, mark_payout_signed, UpdateStatus, StatusMoves
  <2>8. QED BY <1>4, <1>i, <2>3, <2>4, <2>7, StatusMoveStep DEF SignMark
<1>5. CASE SignFail(p)
  <2>1. Continue(p, "sg_unlock") /\ pc[p] = "sg_fail" BY <1>5 DEF SignFail, FailMark, At
  <2>2. OnlyRun(p) /\ HandMoves(p) /\ Labelled(p, "sg_unlock")
    BY <1>w, <2>1, ContinueRun DEF SignPcs
  <2>3. PICK b \in Batches : b = cur[p] BY <1>c, <2>1 DEF WithBatch
  <2>4. status[b] \in {"created", "cancelled"} BY <1>r, <2>1, <2>3 DEF RunInv
  <2>5. /\ status'[b] = IF status[b] = "created" THEN "failed" ELSE status[b]
        /\ \A c \in Batches \ {b} : status'[c] = status[c]
    BY <1>5, <1>t, <2>3, <2>4
       DEF SignFail, FailMark, mark_payout_failed, UpdateStatus, Inflight
  <2>6. lock = p BY <1>s, <2>1 DEF SigningInv, LockHeld, LockedPcs, SignPcs
  <2>7. \A q \in Procs \ {p} : pc[q] \notin LockedPcs BY <1>s, <2>6, OnlyHolder
  <2>8. StatusMoves(p) /\ (\A c \in Batches : status[c] = "none" => status'[c] = "none")
    BY <2>4, <2>5, <2>7 DEF StatusMoves
  <2>9. RunInv(p)' BY <1>w, <2>2, <2>3, <2>4, <2>5 DEF Labelled, RunInv, SignPcs
  <2>10. QED BY <1>5, <1>i, <2>2, <2>8, <2>9, StatusMoveStep DEF SignFail, FailMark
<1>6. CASE SignUnlock(p)
  <2>1. Continue(p, "sg_failaudit") /\ pc[p] = "sg_unlock" BY <1>6 DEF SignUnlock, FailUnlock, At
  <2>2. OnlyRun(p) /\ HandMoves(p) /\ Labelled(p, "sg_failaudit")
    BY <1>w, <2>1, ContinueRun DEF SignPcs
  <2>3. PICK b \in Batches : b = cur[p] BY <1>c, <2>1 DEF WithBatch
  <2>4. status[b] \in {"failed", "cancelled"} BY <1>r, <2>1, <2>3 DEF RunInv
  <2>5. AppendForBatch(b, "payout_failed_unlock")
    BY <1>6, <2>3 DEF SignUnlock, FailUnlock, unlock_failed_payout
  <2>6. Recipients(b) # {} BY <2>4 DEF SettlingInv, BatchInv
  <2>7. HasRow(b, "payout_failed_unlock")' BY <2>5, <2>6, AppendRows
  <2>8. HasRow(cur[p], "payout_failed_unlock")' BY <2>2, <2>3, <2>7 DEF Labelled
  <2>9. RunInv(p)' BY <1>w, <2>2, <2>8 DEF Labelled, RunInv, SignPcs
  <2>10. QED BY <1>6, <1>i, <2>2, <2>4, <2>5, <2>9, RowStep DEF SignUnlock, FailUnlock
<1>7. CASE SignAudit(p) \/ SignFailAudit(p)
  <2>1. PICK here \in {"sg_audit", "sg_failaudit"}, action \in {"sign", "fail"} :
          /\ AuditStep(p, here, action) /\ Continue(p, "sg_commit")
          /\ action = "fail" => here = "sg_failaudit"
    BY <1>7 DEF SignAudit, SignFailAudit, AuditAndContinue
  <2>2. OnlyRun(p) /\ HandMoves(p) /\ Labelled(p, "sg_commit")
    BY <1>w, <2>1, ContinueRun DEF SignPcs
  <2>3. RunInv(p)' BY <1>w, <2>2 DEF Labelled, RunInv, SignPcs
  <2>4. action = "fail" => HasRow(cur[p], "payout_failed_unlock")
    BY <1>r, <2>1 DEF AuditStep, At, RunInv
  <2>5. QED BY <1>i, <2>1, <2>2, <2>3, <2>4, AuditEvent
<1>8. CASE SignCommit(p)
  BY <1>8, <1>i, FinishRun, QuietStep DEF SignCommit, dbVars
<1>9. QED BY <1>1, <1>2, <1>3, <1>4, <1>5, <1>6, <1>7, <1>8 DEF Sign

-----------------------------------------------------------------------------
(***************************************************************************)
(* submit-payouts: what it may say of a batch after each of the answers.   *)
(***************************************************************************)
LEMMA SubmitSettling ==
  ASSUME SettlingInv, NEW p \in Procs, Submit(p)
  PROVE  SettlingInv'
<1>i. SigningInv' BY SubmitSigning DEF SettlingInv
<1>s. SigningInv BY DEF SettlingInv
<1>r. RunInv(p) BY DEF SettlingInv
<1>t. /\ status \in [Batches -> BatchStatus] /\ pc \in [Procs -> Pcs]
      /\ todo \in [Procs -> SUBSET Batches]
      /\ tx \in [Batches -> TxState]
  BY <1>s DEF SigningInv, TypeOK, StoreType, RunType
<1>c. pc[p] \in WithBatch => cur[p] \in Batches BY <1>s DEF SigningInv, BatchInHand
<1>1. CASE SubmitStart(p)
  <2>1. OnlyRun(p) /\ HandMoves(p) /\ Labelled(p, "sb_list")
    BY <1>1, ContinueRun DEF SubmitStart, Start, WorkPcs
  <2>2. RunInv(p)' BY <2>1 DEF Labelled, RunInv, ListedPcs, ReconcilePcs
  <2>3. QED BY <1>1, <1>i, <2>1, <2>2, QuietStep DEF SubmitStart, dbVars
<1>2. CASE SubmitList(p)
  <2>1. /\ OnlyRun(p) /\ pc'[p] = "sb_call" /\ todo'[p] = WithStatus({"signed"})
    BY <1>2, <1>t DEF SubmitList, ListBatches, Goto, OnlyRun
  <2>2. HandMoves(p) BY <2>1 DEF HandMoves, Handles, WorkPcs, WithStatus, Inflight
  <2>3. RunInv(p)' BY <2>1 DEF RunInv, ListedPcs, ReconcilePcs
  <2>4. QED BY <1>2, <1>i, <2>1, <2>2, <2>3, QuietStep DEF SubmitList, ListBatches, dbVars
<1>3. CASE SubmitEnd(p)
  BY <1>3, <1>i, FinishRun, QuietStep DEF SubmitEnd, EndOfList, dbVars
<1>4. CASE SubmitAccepted(p) \/ SubmitAmbiguous(p) \/ SubmitUncertain(p)
  <2>1. PICK b \in Batches, label \in {"sb_mark", "sb_prior", "sb_defer"} :
          /\ b \in todo[p] /\ TakeNext(p, b, label)
          /\ tx' = tx \/ \E new \in {"underway", "mempool"} :
                            tx[b] \in Unknown /\ tx' = [tx EXCEPT ![b] = new]
          /\ label = "sb_mark" => tx'[b] = "mempool"
    <3>1. CASE SubmitAccepted(p) BY <1>t, <3>1 DEF SubmitAccepted, NextInList
    <3>2. CASE SubmitAmbiguous(p) BY <3>2 DEF SubmitAmbiguous, NextInList
    <3>3. CASE SubmitUncertain(p) BY <3>3 DEF SubmitUncertain, GivenUp, Unknown, NextInList
    <3>4. QED BY <1>4, <3>1, <3>2, <3>3
  <2>2. OnlyRun(p) /\ HandMoves(p) /\ pc'[p] = label /\ cur'[p] = b BY <2>1, TakeNextRun
  <2>3. TxMoves(p) BY <1>t, <2>1 DEF TxMoves, Handles
  <2>4. RunInv(p)' BY <2>1, <2>2 DEF RunInv, Unknown, ListedPcs, ReconcilePcs
  <2>5. UNCHANGED <<status, amount, ledger, audit>>
    BY <1>4 DEF SubmitAccepted, SubmitAmbiguous, SubmitUncertain, dbVars
  <2>6. QED BY <1>i, <2>2, <2>3, <2>4, <2>5, TxStep
<1>5. CASE SubmitMark(p) \/ SubmitMarkPrior(p)
  <2>1. PICK here \in {"sb_mark", "sb_prior"}, next \in {"sb_audit", "sb_prioraudit"} :
          SubmitMarkAs(p, here, next) /\ (here = "sb_mark" <=> next = "sb_audit")
    BY <1>5 DEF SubmitMark, SubmitMarkPrior
  <2>2. PICK label \in {next, "sb_call"} :
          Continue(p, label) /\ (label = next => status[cur[p]] \in Inflight)
    BY <2>1 DEF SubmitMarkAs
  <2>3. pc[p] = here BY <2>1 DEF SubmitMarkAs, At
  <2>4. OnlyRun(p) /\ HandMoves(p) /\ Labelled(p, label)
    BY <2>2, <2>3, ContinueRun DEF WorkPcs
  <2>5. PICK b \in Batches : b = cur[p] BY <1>c, <2>3 DEF WithBatch
  <2>6. here = "sb_mark" => tx[b] \notin Unknown BY <1>r, <2>3, <2>5 DEF RunInv
  <2>7. /\ status'[b] = IF status[b] \in Inflight THEN "submitted" ELSE status[b]
        /\ \A c \in Batches \ {b} : status'[c] = status[c]
    BY <1>t, <2>1, <2>5 DEF SubmitMarkAs, mark_payout_submitted, UpdateStatus
  <2>8. StatusMoves(p) /\ (\A c \in Batches : status[c] = "none" => status'[c] = "none")
    BY <2>7 DEF StatusMoves, Inflight
  <2>9. tx' = tx BY <2>1 DEF SubmitMarkAs
  <2>10. RunInv(p)'
    <3>1. label = next => Reconciled(b)' BY <2>2, <2>5, <2>7 DEF Reconciled
    <3>2. label = next => Reconciled(cur[p])' BY <2>4, <2>5, <3>1 DEF Labelled
    <3>3. label = "sb_audit" => tx'[cur'[p]] \notin Unknown
      BY <2>1, <2>2, <2>4, <2>5, <2>6, <2>9 DEF Labelled
    <3>4. QED BY <2>2, <2>4, <3>2, <3>3 DEF Labelled, RunInv, ListedPcs, ReconcilePcs
  <2>11. QED BY <1>i, <2>1, <2>4, <2>8, <2>10, StatusMoveStep DEF SubmitMarkAs
<1>6. CASE SubmitAudit(p) \/ SubmitPriorAudit(p) \/ SubmitDefer(p)
  <2>1. PICK here \in {"sb_audit", "sb_prioraudit", "sb_defer"},
             action \in {"submit", "submit_ambiguous", "submit_deferred"} :
          /\ AuditStep(p, here, action) /\ Continue(p, "sb_call")
          /\ here = "sb_defer" => action = "submit_deferred"
          /\ here = "sb_prioraudit" => action = "submit_ambiguous"
    BY <1>6 DEF SubmitAudit, SubmitPriorAudit, SubmitDefer, AuditAndContinue
  <2>2. pc[p] = here BY <2>1 DEF AuditStep, At
  <2>3. OnlyRun(p) /\ HandMoves(p) /\ Labelled(p, "sb_call") BY <2>1, ContinueRun DEF WorkPcs
  <2>4. RunInv(p)' BY <2>3 DEF Labelled, RunInv, ListedPcs, ReconcilePcs
  <2>5. /\ action = "submit" => tx[cur[p]] \notin Unknown
        /\ action \in {"submit", "submit_ambiguous"} => Reconciled(cur[p])
    BY <1>r, <2>1, <2>2 DEF RunInv
  <2>6. QED BY <1>i, <2>1, <2>3, <2>4, <2>5, AuditEvent
<1>7. QED BY <1>1, <1>2, <1>3, <1>4, <1>5, <1>6 DEF Submit

(***************************************************************************)
(* reconcile-payouts: a batch on its list was submitted, and the verdict   *)
(* of the chain is final, so runs that overlap agree on how it ends.       *)
(***************************************************************************)
LEMMA ListedBatch ==
  ASSUME SettlingInv, NEW p \in Procs, NEW b \in todo[p], pc[p] \in ListedPcs
  PROVE  /\ tx[b] = "confirmed" => status[b] \in {"submitted", "confirmed"}
         /\ tx[b] = "failed" => status[b] \in {"submitted", "failed"}
<1>1. b \in Batches BY DEF SettlingInv, SigningInv, TypeOK, RunType
<1>2. status[b] \in {"submitted", "confirmed", "failed"} BY DEF SettlingInv, RunInv
<1>3. ~Untouched(b) BY DEF Untouched, Handles
<1>4. BatchInv(b) BY <1>1 DEF SettlingInv
<1>5. QED BY <1>2, <1>3, <1>4 DEF BatchInv

LEMMA ReconcileSettling ==
  ASSUME SettlingInv, NEW p \in Procs, Reconcile(p)
  PROVE  SettlingInv'
<1>i. SigningInv' BY ReconcileSigning DEF SettlingInv
<1>s. SigningInv BY DEF SettlingInv
<1>r. RunInv(p) BY DEF SettlingInv
<1>t. /\ status \in [Batches -> BatchStatus] /\ pc \in [Procs -> Pcs]
      /\ todo \in [Procs -> SUBSET Batches]
  BY <1>s DEF SigningInv, TypeOK, StoreType, RunType
<1>c. pc[p] \in WithBatch => cur[p] \in Batches BY <1>s DEF SigningInv, BatchInHand
<1>1. CASE ReconcileStart(p)
  <2>1. OnlyRun(p) /\ HandMoves(p) /\ Labelled(p, "rc_list")
    BY <1>1, ContinueRun DEF ReconcileStart, Start, WorkPcs
  <2>2. RunInv(p)' BY <2>1 DEF Labelled, RunInv, ListedPcs, ReconcilePcs
  <2>3. QED BY <1>1, <1>i, <2>1, <2>2, QuietStep DEF ReconcileStart, dbVars
<1>2. CASE ReconcileList(p)
  <2>1. /\ OnlyRun(p) /\ pc'[p] = "rc_query" /\ todo'[p] = WithStatus({"submitted"})
    BY <1>2, <1>t DEF ReconcileList, ListBatches, Goto, OnlyRun
  <2>2. HandMoves(p) BY <2>1 DEF HandMoves, Handles, WorkPcs, WithStatus, Inflight
  <2>3. UNCHANGED <<status, amount, ledger, audit, tx>>
    BY <1>2 DEF ReconcileList, ListBatches, dbVars
  <2>4. RunInv(p)' BY <2>1, <2>3 DEF RunInv, WithStatus
  <2>5. QED BY <1>i, <2>1, <2>2, <2>3, <2>4, QuietStep
<1>3. CASE ReconcileEnd(p)
  BY <1>3, <1>i, FinishRun, QuietStep DEF ReconcileEnd, EndOfList, dbVars
<1>4. CASE ReconcileQuery(p)
  <2>1. PICK b \in todo[p], label \in {"rc_confirm", "rc_fail", "rc_query"} :
          /\ TakeNext(p, b, label)
          /\ label = "rc_confirm" => tx[b] = "confirmed"
          /\ label = "rc_fail" => tx[b] = "failed"
    BY <1>4 DEF ReconcileQuery, NextInList
  <2>2. /\ OnlyRun(p) /\ HandMoves(p)
        /\ pc'[p] = label /\ cur'[p] = b /\ todo'[p] \subseteq todo[p]
    BY <2>1, TakeNextRun
  <2>3. UNCHANGED <<status, amount, ledger, audit, tx>> BY <1>4 DEF ReconcileQuery, dbVars
  <2>4. pc[p] \in ListedPcs BY <1>4 DEF ReconcileQuery, At, ListedPcs, ReconcilePcs
  <2>5. /\ label = "rc_confirm" => status[b] \in {"submitted", "confirmed"}
        /\ label = "rc_fail" => status[b] \in {"submitted", "failed"}
    BY <2>1, <2>4, ListedBatch
  <2>6. \A c \in todo[p] : status[c] \in {"submitted", "confirmed", "failed"}
    BY <1>r, <2>4 DEF RunInv
  <2>7. RunInv(p)' BY <2>1, <2>2, <2>3, <2>5, <2>6 DEF RunInv, ListedPcs, ReconcilePcs
  <2>8. QED BY <1>i, <2>2, <2>3, <2>7, QuietStep
<1>5. CASE ReconcileConfirm(p) \/ ReconcileFail(p)
  <2>1. PICK here \in {"rc_confirm", "rc_fail"}, next \in {"rc_pay", "rc_unlock"},
             new \in {"confirmed", "failed"} :
          /\ pc[p] = here /\ Continue(p, next)
          /\ status' = [status EXCEPT ![cur[p]] = IF @ \in Inflight \cup {"needs_approval", "created"}
                                                     /\ (@ \in Inflight \/ new = "failed")
                                                    THEN new ELSE @]
          /\ here = "rc_confirm" => next = "rc_pay" /\ new = "confirmed"
          /\ here = "rc_fail" => next = "rc_unlock" /\ new = "failed"
    <3>1. CASE ReconcileConfirm(p)
      BY <3>1 DEF ReconcileConfirm, mark_payout_confirmed, UpdateStatus, At
    <3>2. CASE ReconcileFail(p)
      BY <3>2 DEF ReconcileFail, FailMark, mark_payout_failed, UpdateStatus, At
    <3>3. QED BY <1>5, <3>1, <3>2
  <2>2. UNCHANGED <<amount, ledger, audit, tx>>
    BY <1>5 DEF ReconcileConfirm, ReconcileFail, FailMark
  <2>3. OnlyRun(p) /\ HandMoves(p) /\ Labelled(p, next) BY <2>1, ContinueRun DEF WorkPcs
  <2>4. PICK b \in Batches : b = cur[p] BY <1>c, <2>1 DEF WithBatch
  <2>5. tx[b] = new /\ status[b] \in {"submitted", new} BY <1>r, <2>1, <2>4 DEF RunInv
  <2>6. status'[b] = new /\ \A c \in Batches \ {b} : status'[c] = status[c]
    BY <1>t, <2>1, <2>4, <2>5 DEF Inflight
  <2>7. StatusMoves(p) /\ (\A c \in Batches : status[c] = "none" => status'[c] = "none")
    BY <2>1, <2>5, <2>6 DEF StatusMoves
  <2>8. \A c \in todo[p] : status[c] \in {"submitted", "confirmed", "failed"}
    BY <1>r, <2>1 DEF RunInv, ListedPcs, ReconcilePcs
  <2>9. \A c \in todo[p] : status'[c] \in {"submitted", "confirmed", "failed"}
    BY <1>t, <2>6, <2>8
  <2>10. RunInv(p)' BY <2>1, <2>3, <2>4, <2>6, <2>9 DEF Labelled, RunInv, ListedPcs, ReconcilePcs
  <2>11. QED BY <1>i, <2>2, <2>3, <2>7, <2>10, StatusMoveStep
<1>6. CASE ReconcilePay(p)
  <2>1. PICK label \in {"rc_audit", "rc_query"} : Continue(p, label) /\ pc[p] = "rc_pay"
    BY <1>6 DEF ReconcilePay, At
  <2>2. OnlyRun(p) /\ HandMoves(p) /\ Labelled(p, label) BY <2>1, ContinueRun DEF WorkPcs
  <2>3. PICK b \in Batches : b = cur[p] BY <1>c, <2>1 DEF WithBatch
  <2>4. status[b] = "confirmed" BY <1>r, <2>1, <2>3 DEF RunInv
  <2>5. AppendForBatch(b, "payout_sent") BY <1>6, <2>3 DEF ReconcilePay, mark_payout_paid
  <2>6. Recipients(b) # {} BY <2>4 DEF SettlingInv, BatchInv
  <2>7. HasRow(b, "payout_sent")' BY <2>5, <2>6, AppendRows
  <2>8. HasRow(cur[p], "payout_sent")' BY <2>2, <2>3, <2>7 DEF Labelled
  <2>9. UNCHANGED <<status, amount, audit, tx>> BY <1>6 DEF ReconcilePay
  <2>10. \A c \in todo[p] : status[c] \in {"submitted", "confirmed", "failed"}
    BY <1>r, <2>1 DEF RunInv, ListedPcs, ReconcilePcs
  <2>11. RunInv(p)' BY <2>1, <2>2, <2>3, <2>4, <2>8, <2>9, <2>10 DEF Labelled, RunInv, ListedPcs, ReconcilePcs
  <2>12. QED BY <1>i, <2>2, <2>4, <2>5, <2>9, <2>11, RowStep
<1>7. CASE ReconcileUnlock(p)
  <2>1. Continue(p, "rc_failaudit") /\ pc[p] = "rc_unlock"
    BY <1>7 DEF ReconcileUnlock, FailUnlock, At
  <2>2. OnlyRun(p) /\ HandMoves(p) /\ Labelled(p, "rc_failaudit") BY <2>1, ContinueRun DEF WorkPcs
  <2>3. PICK b \in Batches : b = cur[p] BY <1>c, <2>1 DEF WithBatch
  <2>4. status[b] = "failed" BY <1>r, <2>1, <2>3 DEF RunInv
  <2>5. AppendForBatch(b, "payout_failed_unlock")
    BY <1>7, <2>3 DEF ReconcileUnlock, FailUnlock, unlock_failed_payout
  <2>6. Recipients(b) # {} BY <2>4 DEF SettlingInv, BatchInv
  <2>7. HasRow(b, "payout_failed_unlock")' BY <2>5, <2>6, AppendRows
  <2>8. HasRow(cur[p], "payout_failed_unlock")' BY <2>2, <2>3, <2>7 DEF Labelled
  <2>9. UNCHANGED <<status, amount, audit, tx>> BY <1>7 DEF ReconcileUnlock, FailUnlock
  <2>10. \A c \in todo[p] : status[c] \in {"submitted", "confirmed", "failed"}
    BY <1>r, <2>1 DEF RunInv, ListedPcs, ReconcilePcs
  <2>11. RunInv(p)' BY <2>2, <2>3, <2>4, <2>8, <2>9, <2>10 DEF Labelled, RunInv, ListedPcs, ReconcilePcs
  <2>12. QED BY <1>i, <2>2, <2>4, <2>5, <2>9, <2>11, RowStep
<1>8. CASE ReconcileAudit(p) \/ ReconcileFailAudit(p)
  <2>1. PICK here \in {"rc_audit", "rc_failaudit"}, action \in {"confirm", "fail"} :
          /\ AuditStep(p, here, action) /\ Continue(p, "rc_query")
          /\ action = "confirm" => here = "rc_audit"
          /\ action = "fail" => here = "rc_failaudit"
    BY <1>8 DEF ReconcileAudit, ReconcileFailAudit, AuditAndContinue
  <2>2. pc[p] = here /\ status' = status BY <2>1 DEF AuditStep, At
  <2>3. OnlyRun(p) /\ HandMoves(p) /\ Labelled(p, "rc_query") BY <2>1, ContinueRun DEF WorkPcs
  <2>4. \A c \in todo[p] : status[c] \in {"submitted", "confirmed", "failed"}
    BY <1>r, <2>2 DEF RunInv, ListedPcs, ReconcilePcs
  <2>5. RunInv(p)' BY <2>2, <2>3, <2>4 DEF Labelled, RunInv, ListedPcs, ReconcilePcs
  <2>6. cur[p] \in Batches BY <1>c, <2>2 DEF WithBatch
  <2>7. BatchInv(cur[p]) BY <2>6 DEF SettlingInv
  <2>8. action = "confirm" => HasRow(cur[p], "payout_sent") /\ tx[cur[p]] = "confirmed"
    BY <1>r, <2>1, <2>2, <2>7 DEF RunInv, BatchInv
  <2>9. action = "fail" => HasRow(cur[p], "payout_failed_unlock")
    BY <1>r, <2>1, <2>2 DEF RunInv
  <2>10. QED BY <1>i, <2>1, <2>3, <2>5, <2>8, <2>9, AuditEvent
<1>9. QED BY <1>1, <1>2, <1>3, <1>4, <1>5, <1>6, <1>7, <1>8 DEF Reconcile

-----------------------------------------------------------------------------
(***************************************************************************)
(* The operator's requests.  A cancel that loses the race with a           *)
(* submission changes nothing, since its update is guarded; whatever       *)
(* CancelPolicy is, a cancelled batch never becomes submitted.             *)
(***************************************************************************)
LEMMA OperatorSettling ==
  ASSUME SettlingInv, NEW p \in Procs, Operator(p)
  PROVE  SettlingInv'
<1>i. SigningInv' BY OperatorSigning DEF SettlingInv
<1>s. SigningInv BY DEF SettlingInv
<1>r. RunInv(p) BY DEF SettlingInv
<1>w. OperatorPcs \cap (WorkPcs \cup ListedPcs) = {}
  BY DEF OperatorPcs, WorkPcs, ListedPcs, ReconcilePcs
<1>t. status \in [Batches -> BatchStatus] /\ amount \in [Batches -> [Miners -> Nat]]
  BY <1>s DEF SigningInv, TypeOK, StoreType
<1>c. pc[p] \in WithBatch => cur[p] \in Batches BY <1>s DEF SigningInv, BatchInHand
<1>1. CASE CancelRead(p) \/ RetryRead(p)
  <2>1. PICK b \in Batches, label \in {"cn_update", "rt_insert"} :
          Take(p, b, label) /\ (label = "rt_insert" => status[b] # "none")
    BY <1>1 DEF CancelRead, RetryRead, WithStatus
  <2>2. UNCHANGED <<status, amount, ledger, audit, tx>> BY <1>1 DEF CancelRead, RetryRead, dbVars
  <2>3. OnlyRun(p) /\ HandMoves(p) /\ pc'[p] = label /\ cur'[p] = b
    BY <1>w, <2>1, TakeRun DEF OperatorPcs
  <2>4. RunInv(p)' BY <1>w, <2>1, <2>2, <2>3 DEF RunInv, OperatorPcs
  <2>5. QED BY <1>i, <2>2, <2>3, <2>4, QuietStep
<1>2. CASE CancelUpdate(p)
  <2>1. PICK b \in Batches : b = cur[p] BY <1>2, <1>c DEF CancelUpdate, At, WithBatch
  <2>2. /\ status'[b] = IF status[b] \in Cancellable THEN "cancelled" ELSE status[b]
        /\ \A c \in Batches \ {b} : status'[c] = status[c]
    BY <1>2, <1>t, <2>1 DEF CancelUpdate, UpdateStatus
  <2>3. StatusMoves(p) /\ (\A c \in Batches : status[c] = "none" => status'[c] = "none")
    BY <2>2 DEF StatusMoves, Cancellable
  <2>4. OnlyRun(p) /\ HandMoves(p) /\ RunInv(p)'
    <3>1. CASE status[b] \in Cancellable
      <4>1. OnlyRun(p) /\ HandMoves(p) /\ Labelled(p, "cn_unlock")
        BY <1>2, <1>w, <2>1, <3>1, ContinueRun DEF CancelUpdate, OperatorPcs
      <4>2. RunInv(p)' BY <1>w, <2>1, <2>2, <3>1, <4>1 DEF Labelled, RunInv, OperatorPcs
      <4>3. QED BY <4>1, <4>2
    <3>2. CASE status[b] \notin Cancellable BY <1>2, <2>1, <3>2, FinishRun DEF CancelUpdate
    <3>3. QED BY <3>1, <3>2
  <2>5. QED BY <1>2, <1>i, <2>3, <2>4, StatusMoveStep DEF CancelUpdate
<1>3. CASE CancelUnlock(p)
  <2>1. Continue(p, "cn_audit") /\ pc[p] = "cn_unlock" BY <1>3 DEF CancelUnlock, FailUnlock, At
  <2>2. OnlyRun(p) /\ HandMoves(p) /\ Labelled(p, "cn_audit")
    BY <1>w, <2>1, ContinueRun DEF OperatorPcs
  <2>3. PICK b \in Batches : b = cur[p] BY <1>c, <2>1 DEF WithBatch
  <2>4. status[b] = "cancelled" BY <1>r, <2>1, <2>3 DEF RunInv
  <2>5. AppendForBatch(b, "payout_failed_unlock")
    BY <1>3, <2>3 DEF CancelUnlock, FailUnlock, unlock_failed_payout
  <2>6. Recipients(b) # {} BY <2>4 DEF SettlingInv, BatchInv
  <2>7. HasRow(b, "payout_failed_unlock")' BY <2>5, <2>6, AppendRows
  <2>8. HasRow(cur[p], "payout_failed_unlock")' BY <2>2, <2>3, <2>7 DEF Labelled
  <2>9. RunInv(p)' BY <1>w, <2>2, <2>8 DEF Labelled, RunInv, OperatorPcs
  <2>10. QED BY <1>3, <1>i, <2>2, <2>4, <2>5, <2>9, RowStep DEF CancelUnlock, FailUnlock
<1>4. CASE RetryInsert(p)
  <2>1. pc[p] = "rt_insert" BY <1>4 DEF RetryInsert, At
  <2>2. cur[p] \in Batches /\ status[cur[p]] # "none" BY <1>c, <1>r, <2>1 DEF WithBatch, RunInv
  <2>3. Recipients(cur[p]) # {} BY <2>2 DEF SettlingInv, BatchInv
  <2>4. amount[cur[p]] \in [Miners -> Nat] /\ \E m \in Miners : amount[cur[p]][m] > 0
    BY <1>t, <2>2, <2>3 DEF Recipients
  <2>5. PICK b \in Batches : /\ FreshBatch(b)
                             /\ create_locked_payout_batch(b, amount[cur[p]], "created")
                             /\ Take(p, b, "rt_readback")
    BY <1>4 DEF RetryInsert
  <2>6. OnlyRun(p) /\ HandMoves(p) /\ pc'[p] = "rt_readback"
    BY <1>w, <2>5, TakeRun DEF OperatorPcs
  <2>7. RunInv(p)' BY <1>w, <2>6 DEF RunInv, OperatorPcs
  <2>8. QED BY <1>4, <1>i, <2>4, <2>5, <2>6, <2>7, NewBatchSettling DEF RetryInsert
<1>5. CASE RetryRollback(p)
  BY <1>5, <1>i, FinishRun, QuietStep DEF RetryRollback, dbVars
<1>6. CASE RetryReadback(p)
  <2>1. OnlyRun(p) /\ HandMoves(p) /\ RunInv(p)'
    <3>1. CASE Continue(p, "rt_audit")
      <4>1. OnlyRun(p) /\ HandMoves(p) /\ Labelled(p, "rt_audit")
        BY <1>w, <3>1, ContinueRun DEF OperatorPcs
      <4>2. RunInv(p)' BY <1>w, <4>1 DEF Labelled, RunInv, OperatorPcs
      <4>3. QED BY <4>1, <4>2
    <3>2. CASE Finish(p) BY <3>2, FinishRun
    <3>3. QED BY <1>6, <3>1, <3>2 DEF RetryReadback
  <2>2. QED BY <1>6, <1>i, <2>1, QuietStep DEF RetryReadback, dbVars
<1>7. CASE Approve(p)
  <2>1. PICK b \in Batches :
          status[b] = "needs_approval" /\ mark_payout_approved(b) /\ Take(p, b, "ap_audit")
    BY <1>7 DEF Approve, WithStatus
  <2>2. OnlyRun(p) /\ HandMoves(p) /\ pc'[p] = "ap_audit" BY <1>w, <2>1, TakeRun DEF OperatorPcs
  <2>3. RunInv(p)' BY <1>w, <2>2 DEF RunInv, OperatorPcs
  <2>4. StatusMoves(p) /\ (\A c \in Batches : status[c] = "none" => status'[c] = "none")
    BY <1>t, <2>1 DEF StatusMoves, mark_payout_approved, UpdateStatus
  <2>5. QED BY <1>7, <1>i, <2>2, <2>3, <2>4, StatusMoveStep DEF Approve
<1>8. CASE PausePayouts(p) \/ ResumePayouts(p)
  <2>1. PICK label \in {"ps_audit", "rs_audit"} : Continue(p, label)
    BY <1>8 DEF PausePayouts, ResumePayouts, Start
  <2>2. OnlyRun(p) /\ HandMoves(p) /\ Labelled(p, label)
    BY <1>w, <2>1, ContinueRun DEF OperatorPcs
  <2>3. RunInv(p)' BY <1>w, <2>2 DEF Labelled, RunInv, OperatorPcs
  <2>4. QED BY <1>8, <1>i, <2>2, <2>3, QuietStep DEF PausePayouts, ResumePayouts
<1>9. CASE CancelAudit(p) \/ RetryAudit(p) \/ ApproveAudit(p) \/ PauseAudit(p) \/ ResumeAudit(p)
  <2>1. PICK here \in OperatorPcs,
             action \in {"cancel", "retry", "approve", "pause_payouts", "resume_payouts"} :
          /\ AuditStep(p, here, action) /\ Finish(p)
          /\ action = "cancel" => here = "cn_audit"
    BY <1>9 DEF CancelAudit, RetryAudit, ApproveAudit, PauseAudit, ResumeAudit, AuditAndFinish,
                OperatorPcs
  <2>2. action = "cancel" => HasRow(cur[p], "payout_failed_unlock")
    BY <1>r, <2>1 DEF AuditStep, At, RunInv
  <2>3. QED BY <1>i, <2>1, <2>2, FinishRun, AuditEvent
<1>10. QED BY <1>1, <1>2, <1>3, <1>4, <1>5, <1>6, <1>7, <1>8, <1>9 DEF Operator

\* A run that dies leaves the database as it is.
LEMMA CrashSettling ==
  ASSUME SettlingInv, NEW p \in Procs, Crash(p)
  PROVE  SettlingInv'
<1>1. SigningInv' BY CrashSigning DEF SettlingInv
<1>2. QED BY <1>1, FinishRun, QuietStep DEF Crash, dbVars

\* The chain decides, blocks mature and midnight passes; no run moves.
LEMMA WorldSettling ==
  ASSUME SettlingInv,
         \/ \E b \in Batches : NodeReceives(b) \/ NodeDecides(b)
         \/ \E k \in Blocks : CreditBlock(k)
         \/ NewDay
  PROVE  SettlingInv'
<1>i. SigningInv' BY WorldSigning DEF SettlingInv
<1>n. NoProc \notin Procs BY PayoutsAssumption
<1>r. OnlyRun(NoProc) /\ HandMoves(NoProc)
  BY <1>n DEF NodeReceives, NodeDecides, CreditBlock, NewDay, runVars, OnlyRun, HandMoves
<1>1. CASE \E b \in Batches : NodeReceives(b) \/ NodeDecides(b)
  <2>1. TxMoves(NoProc)
    BY <1>1 DEF NodeReceives, NodeDecides, TxMoves, SettlingInv, SigningInv, TypeOK, StoreType
  <2>2. QED BY <1>1, <1>i, <1>n, <1>r, <2>1, TxStep DEF NodeReceives, NodeDecides, dbVars
<1>2. CASE \E k \in Blocks : CreditBlock(k)
  <2>1. PICK k \in Blocks : CreditBlock(k) BY <1>2
  <2>2. UNCHANGED <<status, amount, audit, tx>> BY <2>1 DEF CreditBlock
  <2>3. ledger \subseteq ledger' /\ \A e \in ledger' : e \in ledger \/ e.kind = "reward_mature"
    BY <2>1 DEF CreditBlock, Entry
  <2>4. RowMoves BY <2>3 DEF RowMoves, HasRow, BatchRef
  <2>5. StatusMoves(NoProc) /\ TxMoves(NoProc) /\ AuditMoves
    BY <2>2 DEF StatusMoves, TxMoves, AuditMoves
  <2>6. RecipientMoves
    <3>1. \A b \in Batches : Recipients(b)' = Recipients(b) BY <2>2 DEF Recipients
    <3>2. QED BY <2>2, <3>1 DEF RecipientMoves
  <2>7. QED BY <1>i, <1>n, <1>r, <2>4, <2>5, <2>6, StepKeeps DEF SafeStep
<1>3. CASE NewDay BY <1>3, <1>i, <1>n, <1>r, QuietStep DEF NewDay
<1>4. QED BY <1>1, <1>2, <1>3

LEMMA InitSettling == Init => SettlingInv
<1> SUFFICES ASSUME Init PROVE SettlingInv
  OBVIOUS
<1>1. SigningInv BY InitSigning
<1>2. \A p \in Procs : RunInv(p) BY DEF Init, RunInv, ListedPcs, ReconcilePcs
<1>3. \A b \in Batches : Untouched(b) BY DEF Init, Untouched, Handles, WorkPcs
<1>4. \A b \in Batches : \A k : ~HasRow(b, k) BY DEF Init, HasRow
<1>5. \A b \in Batches : BatchInv(b) BY <1>3, <1>4 DEF Init, BatchInv
<1>6. \A b \in Batches : AuditOK(b) BY DEF Init, AuditOK
<1>7. QED BY <1>1, <1>2, <1>5, <1>6 DEF SettlingInv

LEMMA NextSettling == SettlingInv /\ [Next]_vars => SettlingInv'
<1> SUFFICES ASSUME SettlingInv, [Next]_vars PROVE SettlingInv'
  OBVIOUS
<1>1. CASE \E p \in Procs : Run(p) \/ Crash(p)
  BY <1>1, CreateSettling, SignSettling, SubmitSettling, ReconcileSettling, OperatorSettling,
     CrashSettling DEF Run
<1>2. CASE (\E b \in Batches : NodeReceives(b) \/ NodeDecides(b)) \/ (\E k \in Blocks : CreditBlock(k)) \/ NewDay
  BY <1>2, WorldSettling
<1>3. CASE UNCHANGED vars
  <2>1. SigningInv' BY <1>3, NextSigning DEF SettlingInv
  <2>2. OnlyRun(NoProc) /\ HandMoves(NoProc)
    BY <1>3, PayoutsAssumption DEF vars, runVars, OnlyRun, HandMoves
  <2>3. QED BY <1>3, <2>1, <2>2, QuietStep, PayoutsAssumption DEF vars, dbVars
<1>4. QED BY <1>1, <1>2, <1>3 DEF Next

-----------------------------------------------------------------------------
\* The invariant of settling holds of every behaviour.
THEOREM SettlingInvariant == Spec => []SettlingInv
BY InitSettling, NextSettling, PTL DEF Spec

\* A batch is paid or refunded, never both, although the workers ignore whether
\* mark_payout_failed and mark_payout_confirmed changed a row: for any number of
\* overlapping and dying runs, and for an operator who cancels batches at any
\* moment, investigated or not.
THEOREM PaidOrRefunded == Spec => []SettledOnce
<1>1. SettlingInv => SettledOnce BY DEF SettlingInv, BatchInv, SettledOnce
<1>2. QED BY <1>1, SettlingInvariant, PTL

\* No event of the audit trail runs ahead of what it reports, although it is
\* written in a statement of its own.
THEOREM AuditIsTrue == Spec => []AuditTruthful
<1>1. SettlingInv => AuditTruthful BY DEF SettlingInv, AuditOK, AuditTruthful
<1>2. QED BY <1>1, SettlingInvariant, PTL

-----------------------------------------------------------------------------
(***************************************************************************)
(* The wallet is quiet when it chooses coins, if operators cancel only     *)
(* while payouts are paused, no sign-payouts or submit-payouts run is      *)
(* under way and no broadcast of the batch can still reach a node.         *)
(* Without that a cancelled batch may be broadcast.                        *)
(***************************************************************************)
CancelPcs == {"cn_update", "cn_unlock"}

CancelAlone ==
  \A p \in Procs : pc[p] \in CancelPcs => ~enabled /\ \A q \in Procs : pc[q] \notin SubmitPcs

CancelUnsent == \A p \in Procs : pc[p] = "cn_update" => tx[cur[p]] = "none"

ListedNotCancelled ==
  \A p \in Procs : pc[p] \in SubmitPcs \ {"sb_list"} => \A b \in todo[p] : status[b] # "cancelled"

CancelledUnsent == \A b \in Batches : status[b] = "cancelled" => tx[b] = "none"

QuietInv == SettlingInv /\ CancelAlone /\ CancelUnsent /\ ListedNotCancelled /\ CancelledUnsent

\* What a step of the run of p may do to pauses, cancels and submissions.
QuietMove(p) ==
  /\ OnlyRun(p)
  /\ p \in Procs =>
       /\ pc'[p] \in CancelPcs => \/ pc[p] \in CancelPcs
                                  \/ ~enabled /\ \A q \in Procs : pc[q] \notin SubmitPcs
       /\ pc'[p] \in SubmitPcs => pc[p] \in SubmitPcs \/ enabled
       /\ pc'[p] \notin CancelPcs \/ pc'[p] \notin SubmitPcs
       /\ pc'[p] = "cn_update" => tx'[cur'[p]] = "none"
       /\ pc'[p] \in SubmitPcs \ {"sb_list"} => \A b \in todo'[p] : status'[b] # "cancelled"
  /\ \/ enabled' => enabled
     \/ (\A q \in Procs : pc[q] \notin CancelPcs) /\ (p \in Procs => pc'[p] \notin CancelPcs)
  /\ \A b \in Batches : status'[b] = "cancelled" =>
       status[b] = "cancelled" \/ (p \in Procs /\ pc[p] = "cn_update" /\ cur[p] = b)
  /\ \A b \in Batches : tx[b] = "none" =>
       tx'[b] = "none" \/ (p \in Procs /\ pc[p] = "sb_call" /\ b \in todo[p])

LEMMA QuietKept ==
  ASSUME QuietInv, SettlingInv', NEW p, QuietMove(p)
  PROVE  QuietInv'
<1>t. \A q \in Procs : todo[q] \subseteq Batches /\ (pc[q] = "cn_update" => cur[q] \in Batches)
  BY DEF QuietInv, SettlingInv, SigningInv, TypeOK, RunType, BatchInHand, WithBatch
<1>1. CancelAlone'
  <2>1. SUFFICES ASSUME NEW q \in Procs, pc'[q] \in CancelPcs
        PROVE  ~enabled' /\ \A r \in Procs : pc'[r] \notin SubmitPcs
    BY DEF CancelAlone
  <2>2. ~enabled /\ \A r \in Procs : pc[r] \notin SubmitPcs
    BY <2>1 DEF QuietMove, OnlyRun, QuietInv, CancelAlone
  <2>3. ~enabled' BY <2>1, <2>2 DEF QuietMove, OnlyRun
  <2>4. ASSUME NEW r \in Procs PROVE pc'[r] \notin SubmitPcs
    BY <2>2 DEF QuietMove, OnlyRun
  <2>5. QED BY <2>3, <2>4
<1>2. CancelUnsent'
  <2>1. SUFFICES ASSUME NEW q \in Procs, pc'[q] = "cn_update" PROVE tx'[cur'[q]] = "none"
    BY DEF CancelUnsent
  <2>2. CASE q = p BY <2>1, <2>2 DEF QuietMove
  <2>3. CASE q # p
    <3>1. pc[q] = "cn_update" /\ cur'[q] = cur[q] BY <2>1, <2>3 DEF QuietMove, OnlyRun
    <3>2. tx[cur[q]] = "none" /\ cur[q] \in Batches BY <1>t, <3>1 DEF QuietInv, CancelUnsent
    <3>3. p \in Procs => pc[p] # "sb_call"
      BY <3>1 DEF QuietInv, CancelAlone, CancelPcs, SubmitPcs
    <3>4. QED BY <3>1, <3>2, <3>3 DEF QuietMove
  <2>4. QED BY <2>2, <2>3
<1>3. ListedNotCancelled'
  <2>1. SUFFICES ASSUME NEW q \in Procs, pc'[q] \in SubmitPcs \ {"sb_list"}, NEW b \in todo'[q]
        PROVE  status'[b] # "cancelled"
    BY DEF ListedNotCancelled
  <2>2. CASE q = p BY <2>1, <2>2 DEF QuietMove
  <2>3. CASE q # p
    <3>1. pc[q] \in SubmitPcs \ {"sb_list"} /\ b \in todo[q] BY <2>1, <2>3 DEF QuietMove, OnlyRun
    <3>2. status[b] # "cancelled" /\ b \in Batches BY <1>t, <3>1 DEF QuietInv, ListedNotCancelled
    <3>3. ~(p \in Procs /\ pc[p] = "cn_update")
      BY <3>1 DEF QuietInv, CancelAlone, CancelPcs
    <3>4. QED BY <3>2, <3>3 DEF QuietMove
  <2>4. QED BY <2>2, <2>3
<1>4. CancelledUnsent'
  <2>1. SUFFICES ASSUME NEW b \in Batches, status'[b] = "cancelled" PROVE tx'[b] = "none"
    BY DEF CancelledUnsent
  <2>2. CASE status[b] = "cancelled"
    <3>1. tx[b] = "none" BY <2>2 DEF QuietInv, CancelledUnsent
    <3>2. ~(p \in Procs /\ pc[p] = "sb_call" /\ b \in todo[p])
      BY <2>2 DEF QuietInv, ListedNotCancelled, SubmitPcs
    <3>3. QED BY <3>1, <3>2 DEF QuietMove
  <2>3. CASE p \in Procs /\ pc[p] = "cn_update" /\ cur[p] = b
    BY <2>3 DEF QuietInv, CancelUnsent, QuietMove
  <2>4. QED BY <2>1, <2>2, <2>3 DEF QuietMove
<1>5. QED BY <1>1, <1>2, <1>3, <1>4 DEF QuietInv

\* A run that is not cancelling or submitting afterwards.
LEMMA QuietElsewhere ==
  ASSUME NEW p \in Procs, OnlyRun(p), pc'[p] \notin CancelPcs \cup SubmitPcs, enabled' => enabled,
         tx' = tx, \A b \in Batches : status'[b] = "cancelled" => status[b] = "cancelled"
  PROVE  QuietMove(p)
BY DEF QuietMove, CancelPcs

\* A guarded update to anything but cancelled cancels nothing.
LEMMA NotCancelled ==
  ASSUME SettlingInv, NEW b, NEW from, NEW new, new # "cancelled", UpdateStatus(b, from, new)
  PROVE  \A c \in Batches : status'[c] = "cancelled" => status[c] = "cancelled"
BY DEF UpdateStatus, SettlingInv, SigningInv, TypeOK, StoreType

\* The label a run moves to.
LEMMA MovedRun ==
  ASSUME SettlingInv, NEW p \in Procs
  PROVE  /\ Finish(p) => OnlyRun(p) /\ pc'[p] = "idle"
         /\ \A label : Continue(p, label) =>
              OnlyRun(p) /\ pc'[p] = label /\ cur'[p] = cur[p] /\ todo'[p] = todo[p]
         /\ \A b, label : Take(p, b, label) => OnlyRun(p) /\ pc'[p] = label /\ cur'[p] = b
         /\ \A b, label : TakeNext(p, b, label) =>
              OnlyRun(p) /\ pc'[p] = label /\ todo'[p] \subseteq todo[p]
<1>t. /\ pc \in [Procs -> Pcs] /\ cur \in [Procs -> Batches \cup {NoBatch}]
      /\ todo \in [Procs -> SUBSET Batches] /\ draft \in [Procs -> [Miners -> Nat]]
  BY DEF SettlingInv, SigningInv, TypeOK, RunType
<1>1. Finish(p) => OnlyRun(p) /\ pc'[p] = "idle" BY <1>t DEF Finish, OnlyRun
<1>2. \A label : Continue(p, label) =>
        OnlyRun(p) /\ pc'[p] = label /\ cur'[p] = cur[p] /\ todo'[p] = todo[p]
  BY <1>t DEF Continue, Goto, OnlyRun
<1>3. \A b, label : Take(p, b, label) => OnlyRun(p) /\ pc'[p] = label /\ cur'[p] = b
  BY <1>t DEF Take, Goto, OnlyRun
<1>4. \A b, label : TakeNext(p, b, label) =>
        OnlyRun(p) /\ pc'[p] = label /\ todo'[p] \subseteq todo[p]
  BY <1>t DEF TakeNext, Goto, OnlyRun
<1>5. QED BY <1>1, <1>2, <1>3, <1>4

LEMMA CreateQuiet ==
  ASSUME SettlingInv, NEW p \in Procs, Create(p)
  PROVE  QuietMove(p)
<1>p. {"idle", "cr_daily", "cr_select", "cr_insert", "cr_audit"} \cap (CancelPcs \cup SubmitPcs) = {}
  BY DEF CancelPcs, SubmitPcs
<1>t. pc \in [Procs -> Pcs] /\ draft \in [Procs -> [Miners -> Nat]] /\ status \in [Batches -> BatchStatus]
  BY DEF SettlingInv, SigningInv, TypeOK, RunType, StoreType
<1>1. OnlyRun(p) /\ pc'[p] \in {"idle", "cr_daily", "cr_select", "cr_insert", "cr_audit"}
  <2>1. CASE CreateStart(p) BY <2>1, MovedRun DEF CreateStart, Start
  <2>2. CASE CreateReadDaily(p) BY <1>t, <2>2 DEF CreateReadDaily, Goto, OnlyRun
  <2>3. CASE CreateSelect(p) BY <1>t, <2>3 DEF CreateSelect, Goto, OnlyRun
  <2>4. CASE CreateSkip(p) \/ CreateRollback(p) \/ CreateAudit(p)
    BY <2>4, MovedRun DEF CreateSkip, CreateRollback, CreateAudit, AuditAndFinish
  <2>5. CASE CreateInsert(p) BY <2>5, MovedRun DEF CreateInsert
  <2>6. QED BY <2>1, <2>2, <2>3, <2>4, <2>5 DEF Create
<1>2. enabled' = enabled /\ tx' = tx
  BY DEF Create, CreateStart, CreateReadDaily, CreateSelect, CreateSkip, CreateInsert,
         CreateRollback, CreateAudit, AuditAndFinish, AuditStep, dbVars
<1>3. \A b \in Batches : status'[b] = "cancelled" => status[b] = "cancelled"
  <2>1. CASE CreateInsert(p)
    BY <1>t, <2>1 DEF CreateInsert, create_locked_payout_batch, InitialStatus
  <2>2. CASE ~CreateInsert(p)
    BY <2>2 DEF Create, CreateStart, CreateReadDaily, CreateSelect, CreateSkip,
                CreateRollback, CreateAudit, AuditAndFinish, AuditStep, dbVars
  <2>3. QED BY <2>1, <2>2
<1>4. QED BY <1>p, <1>1, <1>2, <1>3, QuietElsewhere

LEMMA SignQuiet ==
  ASSUME SettlingInv, NEW p \in Procs, Sign(p)
  PROVE  QuietMove(p)
<1>p. (SignPcs \cup {"idle"}) \cap (CancelPcs \cup SubmitPcs) = {}
  BY DEF CancelPcs, SubmitPcs, SignPcs
<1>1. OnlyRun(p) /\ pc'[p] \in SignPcs \cup {"idle"}
  <2>1. CASE SignStart(p) \/ SignLock(p) \/ SignCheckInflight(p) \/ SignCall(p) \/ SignMark(p)
    <3>1. \E label \in SignPcs : Continue(p, label)
      BY <2>1 DEF SignStart, SignLock, SignCheckInflight, SignCall, SignMark, Start, SignPcs
    <3>2. QED BY <3>1, MovedRun
  <2>2. CASE SignAudit(p) \/ SignFail(p) \/ SignUnlock(p) \/ SignFailAudit(p)
    <3>1. \E label \in SignPcs : Continue(p, label)
      BY <2>2 DEF SignAudit, SignFail, SignUnlock, SignFailAudit, AuditAndContinue, FailMark,
                  FailUnlock, SignPcs
    <3>2. QED BY <3>1, MovedRun
  <2>3. CASE SignList(p) BY <2>3, MovedRun DEF SignList, SignPcs
  <2>4. CASE SignCommit(p) BY <2>4, MovedRun DEF SignCommit
  <2>5. QED BY <2>1, <2>2, <2>3, <2>4 DEF Sign
<1>2. enabled' = enabled /\ tx' = tx
  BY DEF Sign, SignStart, SignLock, SignCheckInflight, SignList, SignCall, SignMark, SignAudit,
         SignFail, SignUnlock, SignFailAudit, SignCommit, FailMark, FailUnlock,
         AuditAndContinue, AuditStep, dbVars
<1>3. \A b \in Batches : status'[b] = "cancelled" => status[b] = "cancelled"
  <2>1. CASE SignMark(p) BY <2>1, NotCancelled DEF SignMark, mark_payout_signed
  <2>2. CASE SignFail(p) BY <2>2, NotCancelled DEF SignFail, FailMark, mark_payout_failed
  <2>3. CASE ~SignMark(p) /\ ~SignFail(p)
    BY <2>3 DEF Sign, SignStart, SignLock, SignCheckInflight, SignList, SignCall, SignAudit,
                SignUnlock, SignFailAudit, SignCommit, FailUnlock, AuditAndContinue, AuditStep, dbVars
  <2>4. QED BY <2>1, <2>2, <2>3
<1>4. QED BY <1>p, <1>1, <1>2, <1>3, QuietElsewhere

LEMMA ReconcileQuiet ==
  ASSUME SettlingInv, NEW p \in Procs, Reconcile(p)
  PROVE  QuietMove(p)
<1>p. (ReconcilePcs \cup {"idle"}) \cap (CancelPcs \cup SubmitPcs) = {}
  BY DEF CancelPcs, SubmitPcs, ReconcilePcs
<1>1. OnlyRun(p) /\ pc'[p] \in ReconcilePcs \cup {"idle"}
  <2>1. CASE ReconcileStart(p) \/ ReconcileConfirm(p) \/ ReconcilePay(p) \/ ReconcileAudit(p)
    <3>1. \E label \in ReconcilePcs : Continue(p, label)
      BY <2>1 DEF ReconcileStart, ReconcileConfirm, ReconcilePay, ReconcileAudit, Start,
                  AuditAndContinue, ReconcilePcs
    <3>2. QED BY <3>1, MovedRun
  <2>2. CASE ReconcileFail(p) \/ ReconcileUnlock(p) \/ ReconcileFailAudit(p)
    <3>1. \E label \in ReconcilePcs : Continue(p, label)
      BY <2>2 DEF ReconcileFail, ReconcileUnlock, ReconcileFailAudit, AuditAndContinue,
                  FailMark, FailUnlock, ReconcilePcs
    <3>2. QED BY <3>1, MovedRun
  <2>3. CASE ReconcileList(p)
    BY <2>3 DEF ReconcileList, ListBatches, Goto, OnlyRun, ReconcilePcs,
                SettlingInv, SigningInv, TypeOK, RunType
  <2>4. CASE ReconcileQuery(p)
    <3>1. \E b \in Batches, label \in {"rc_confirm", "rc_fail", "rc_query"} : TakeNext(p, b, label)
      BY <2>4 DEF ReconcileQuery
    <3>2. QED BY <3>1, MovedRun DEF ReconcilePcs
  <2>5. CASE ReconcileEnd(p) BY <2>5, MovedRun DEF ReconcileEnd, EndOfList
  <2>6. QED BY <2>1, <2>2, <2>3, <2>4, <2>5 DEF Reconcile
<1>2. enabled' = enabled /\ tx' = tx
  BY DEF Reconcile, ReconcileStart, ReconcileList, ReconcileEnd, ReconcileQuery, ReconcileConfirm,
         ReconcilePay, ReconcileAudit, ReconcileFail, ReconcileUnlock, ReconcileFailAudit,
         ListBatches, EndOfList, FailMark, FailUnlock, AuditAndContinue, AuditStep, dbVars
<1>3. \A b \in Batches : status'[b] = "cancelled" => status[b] = "cancelled"
  <2>1. CASE ReconcileConfirm(p) BY <2>1, NotCancelled DEF ReconcileConfirm, mark_payout_confirmed
  <2>2. CASE ReconcileFail(p) BY <2>2, NotCancelled DEF ReconcileFail, FailMark, mark_payout_failed
  <2>3. CASE ~ReconcileConfirm(p) /\ ~ReconcileFail(p)
    BY <2>3 DEF Reconcile, ReconcileStart, ReconcileList, ReconcileEnd, ReconcileQuery,
                ReconcilePay, ReconcileAudit, ReconcileUnlock, ReconcileFailAudit,
                ListBatches, EndOfList, FailUnlock, AuditAndContinue, AuditStep, dbVars
  <2>4. QED BY <2>1, <2>2, <2>3
<1>4. QED BY <1>p, <1>1, <1>2, <1>3, QuietElsewhere

\* submit-payouts starts only while payouts are enabled, and lists only signed
\* batches; none of them can be cancelled before it ends.
LEMMA SubmitQuiet ==
  ASSUME QuietInv, NEW p \in Procs, Submit(p)
  PROVE  QuietMove(p)
<1>s. SettlingInv BY DEF QuietInv
<1>p. (SubmitPcs \cup {"idle"}) \cap CancelPcs = {} /\ "idle" \notin SubmitPcs
  BY DEF CancelPcs, SubmitPcs
<1>t. /\ pc \in [Procs -> Pcs] /\ todo \in [Procs -> SUBSET Batches]
      /\ status \in [Batches -> BatchStatus]
      /\ tx \in [Batches -> TxState]
  BY <1>s DEF SettlingInv, SigningInv, TypeOK, RunType, StoreType
<1>l. pc[p] \in SubmitPcs \ {"sb_list"} => \A b \in todo[p] : status[b] # "cancelled"
  BY DEF QuietInv, ListedNotCancelled
<1>1. CASE SubmitStart(p)
  <2>1. OnlyRun(p) /\ pc'[p] = "sb_list" /\ enabled BY <1>1, <1>s, MovedRun DEF SubmitStart, Start
  <2>2. UNCHANGED <<status, tx, enabled>> BY <1>1 DEF SubmitStart, dbVars
  <2>3. QED BY <1>p, <2>1, <2>2 DEF QuietMove, SubmitPcs
<1>2. CASE SubmitList(p)
  <2>1. /\ OnlyRun(p) /\ pc'[p] = "sb_call" /\ pc[p] = "sb_list"
        /\ todo'[p] = WithStatus({"signed"})
    BY <1>2, <1>t DEF SubmitList, ListBatches, Goto, At, OnlyRun
  <2>2. UNCHANGED <<status, tx, enabled>> BY <1>2 DEF SubmitList, ListBatches, dbVars
  <2>3. \A b \in todo'[p] : status'[b] # "cancelled" BY <2>1, <2>2 DEF WithStatus
  <2>4. QED BY <1>p, <2>1, <2>2, <2>3 DEF QuietMove, SubmitPcs
<1>3. CASE SubmitEnd(p)
  <2>1. OnlyRun(p) /\ pc'[p] = "idle" BY <1>3, <1>s, MovedRun DEF SubmitEnd, EndOfList
  <2>2. UNCHANGED <<status, tx, enabled>> BY <1>3 DEF SubmitEnd, EndOfList, dbVars
  <2>3. QED BY <1>p, <2>1, <2>2, QuietElsewhere
<1>4. CASE SubmitAccepted(p) \/ SubmitAmbiguous(p) \/ SubmitUncertain(p)
  <2>1. PICK b \in Batches, label \in {"sb_mark", "sb_prior", "sb_defer"} :
          /\ b \in todo[p] /\ TakeNext(p, b, label) /\ pc[p] = "sb_call"
          /\ tx' = tx \/ \E new \in TxState : tx' = [tx EXCEPT ![b] = new]
    BY <1>4 DEF SubmitAccepted, SubmitAmbiguous, SubmitUncertain, GivenUp, TxState, NextInList, At
  <2>2. OnlyRun(p) /\ pc'[p] = label /\ todo'[p] \subseteq todo[p] BY <1>s, <2>1, MovedRun
  <2>3. UNCHANGED <<status, enabled>>
    BY <1>4 DEF SubmitAccepted, SubmitAmbiguous, SubmitUncertain, dbVars
  <2>4. \A c \in todo'[p] : status'[c] # "cancelled" BY <1>l, <2>1, <2>2, <2>3 DEF SubmitPcs
  <2>5. \A c \in Batches : tx[c] = "none" => tx'[c] = "none" \/ c \in todo[p] BY <1>t, <2>1
  <2>6. QED BY <1>p, <2>1, <2>2, <2>3, <2>4, <2>5 DEF QuietMove, SubmitPcs
<1>5. CASE SubmitMark(p) \/ SubmitMarkPrior(p) \/ SubmitAudit(p) \/ SubmitPriorAudit(p) \/ SubmitDefer(p)
  <2>1. PICK label \in SubmitPcs :
          Continue(p, label) /\ pc[p] \in SubmitPcs \ {"sb_list"} /\ label # "sb_list"
    BY <1>5 DEF SubmitMark, SubmitMarkPrior, SubmitMarkAs, SubmitAudit, SubmitPriorAudit,
                SubmitDefer, AuditAndContinue, AuditStep, At, SubmitPcs
  <2>2. OnlyRun(p) /\ pc'[p] = label /\ todo'[p] = todo[p] BY <1>s, <2>1, MovedRun
  <2>3. UNCHANGED <<tx, enabled>>
    BY <1>5 DEF SubmitMark, SubmitMarkPrior, SubmitMarkAs, SubmitAudit, SubmitPriorAudit,
                SubmitDefer, AuditAndContinue, AuditStep
  <2>4. \A c \in Batches : status'[c] = "cancelled" => status[c] = "cancelled"
    <3>1. CASE SubmitMark(p) \/ SubmitMarkPrior(p)
      BY <1>s, <3>1, NotCancelled DEF SubmitMark, SubmitMarkPrior, SubmitMarkAs, mark_payout_submitted
    <3>2. CASE SubmitAudit(p) \/ SubmitPriorAudit(p) \/ SubmitDefer(p)
      BY <3>2 DEF SubmitAudit, SubmitPriorAudit, SubmitDefer, AuditAndContinue, AuditStep
    <3>3. QED BY <1>5, <3>1, <3>2
  <2>5. \A c \in todo'[p] : status'[c] # "cancelled" BY <1>l, <1>t, <2>1, <2>2, <2>4
  <2>6. QED BY <1>p, <2>1, <2>2, <2>3, <2>4, <2>5 DEF QuietMove, SubmitPcs
<1>6. QED BY <1>1, <1>2, <1>3, <1>4, <1>5 DEF Submit

\* The one lemma that needs the operator's discipline.
LEMMA OperatorQuiet ==
  ASSUME QuietInv, CancelPolicy = "drained", NEW p \in Procs, Operator(p)
  PROVE  QuietMove(p)
<1>s. SettlingInv BY DEF QuietInv
<1>t. status \in [Batches -> BatchStatus] BY <1>s DEF SettlingInv, SigningInv, TypeOK, StoreType
<1>p. ({"idle", "cn_audit"} \cup (OperatorPcs \ CancelPcs)) \cap (CancelPcs \cup SubmitPcs) = {}
  BY DEF CancelPcs, SubmitPcs, OperatorPcs
<1>1. CASE CancelRead(p)
  <2>1. PICK b \in Batches : Investigated(b) /\ Take(p, b, "cn_update")
    BY <1>1 DEF CancelRead, WithStatus
  <2>2. OnlyRun(p) /\ pc'[p] = "cn_update" /\ cur'[p] = b BY <1>s, <2>1, MovedRun
  <2>3. UNCHANGED <<status, tx, enabled>> BY <1>1 DEF CancelRead, dbVars
  <2>4. tx[b] = "none" /\ ~enabled /\ \A q \in Procs : pc[q] \notin SubmitPcs
    BY <2>1 DEF Investigated, Unknown
  <2>5. QED BY <2>2, <2>3, <2>4 DEF QuietMove, SubmitPcs
<1>2. CASE CancelUpdate(p)
  <2>1. pc[p] = "cn_update" BY <1>2 DEF CancelUpdate, At
  <2>2. OnlyRun(p) /\ pc'[p] \in {"idle", "cn_unlock"} BY <1>2, <1>s, MovedRun DEF CancelUpdate
  <2>3. UNCHANGED <<tx, enabled>> BY <1>2 DEF CancelUpdate
  <2>4. \A b \in Batches : status'[b] = "cancelled" => status[b] = "cancelled" \/ cur[p] = b
    BY <1>2, <1>t DEF CancelUpdate, UpdateStatus
  <2>5. QED BY <2>1, <2>2, <2>3, <2>4 DEF QuietMove, SubmitPcs, CancelPcs
<1>3. CASE PausePayouts(p) \/ ResumePayouts(p)
  <2>1. OnlyRun(p) /\ pc'[p] \in {"ps_audit", "rs_audit"}
    BY <1>3, <1>s, MovedRun DEF PausePayouts, ResumePayouts, Start
  <2>2. UNCHANGED <<status, tx>> BY <1>3 DEF PausePayouts, ResumePayouts
  <2>3. ~enabled' \/ \A q \in Procs : pc[q] \notin CancelPcs
    BY <1>3 DEF PausePayouts, ResumePayouts, CancelUnderWay, CancelPcs
  <2>4. QED BY <2>1, <2>2, <2>3 DEF QuietMove, SubmitPcs, CancelPcs
<1>4. CASE CancelUnlock(p) \/ CancelAudit(p) \/ RetryRead(p) \/ RetryRollback(p) \/ RetryReadback(p)
           \/ RetryAudit(p) \/ ApproveAudit(p) \/ PauseAudit(p) \/ ResumeAudit(p)
  <2>1. OnlyRun(p) /\ pc'[p] \in {"idle", "cn_audit"} \cup (OperatorPcs \ CancelPcs)
    <3>1. CASE CancelUnlock(p) BY <1>s, <3>1, MovedRun DEF CancelUnlock, FailUnlock
    <3>2. CASE RetryRead(p) BY <1>s, <3>2, MovedRun DEF RetryRead, OperatorPcs, CancelPcs
    <3>3. CASE RetryReadback(p) BY <1>s, <3>3, MovedRun DEF RetryReadback, OperatorPcs, CancelPcs
    <3>4. CASE CancelAudit(p) \/ RetryRollback(p) \/ RetryAudit(p) \/ ApproveAudit(p)
               \/ PauseAudit(p) \/ ResumeAudit(p)
      BY <1>s, <3>4, MovedRun
         DEF CancelAudit, RetryRollback, RetryAudit, ApproveAudit, PauseAudit, ResumeAudit, AuditAndFinish
    <3>5. QED BY <1>4, <3>1, <3>2, <3>3, <3>4
  <2>2. UNCHANGED <<status, tx, enabled>>
    BY <1>4 DEF CancelUnlock, FailUnlock, CancelAudit, RetryRead, RetryRollback, RetryReadback,
                RetryAudit, ApproveAudit, PauseAudit, ResumeAudit, AuditAndFinish, AuditStep, dbVars
  <2>3. QED BY <1>p, <2>1, <2>2, QuietElsewhere
<1>5. CASE RetryInsert(p)
  <2>1. OnlyRun(p) /\ pc'[p] = "rt_readback" BY <1>5, <1>s, MovedRun DEF RetryInsert
  <2>2. UNCHANGED <<tx, enabled>> BY <1>5 DEF RetryInsert
  <2>3. \A b \in Batches : status'[b] = "cancelled" => status[b] = "cancelled"
    BY <1>5, <1>t DEF RetryInsert, create_locked_payout_batch
  <2>4. QED BY <2>1, <2>2, <2>3, QuietElsewhere DEF CancelPcs, SubmitPcs
<1>6. CASE Approve(p)
  <2>1. OnlyRun(p) /\ pc'[p] = "ap_audit" BY <1>6, <1>s, MovedRun DEF Approve
  <2>2. UNCHANGED <<tx, enabled>> BY <1>6 DEF Approve
  <2>3. \A b \in Batches : status'[b] = "cancelled" => status[b] = "cancelled"
    BY <1>6, <1>s, NotCancelled DEF Approve, mark_payout_approved
  <2>4. QED BY <2>1, <2>2, <2>3, QuietElsewhere DEF CancelPcs, SubmitPcs
<1>7. QED BY <1>1, <1>2, <1>3, <1>4, <1>5, <1>6 DEF Operator

LEMMA NextQuiet ==
  ASSUME CancelPolicy = "drained"
  PROVE  QuietInv /\ [Next]_vars => QuietInv'
<1> SUFFICES ASSUME QuietInv, [Next]_vars PROVE QuietInv'
  OBVIOUS
<1>s. SettlingInv BY DEF QuietInv
<1>i. SettlingInv' BY <1>s, NextSettling
<1>1. CASE \E p \in Procs : Run(p)
  BY <1>1, <1>s, <1>i, CreateQuiet, SignQuiet, SubmitQuiet, ReconcileQuiet, OperatorQuiet, QuietKept
     DEF Run
<1>2. ASSUME NEW p \in Procs, Crash(p) PROVE QuietInv'
  <2>1. OnlyRun(p) /\ pc'[p] = "idle" BY <1>2, <1>s, MovedRun DEF Crash
  <2>2. QuietMove(p) BY <1>2, <2>1, QuietElsewhere DEF Crash, CancelPcs, SubmitPcs, dbVars
  <2>3. QED BY <1>i, <2>2, QuietKept
<1>3. CASE \/ \E b \in Batches : NodeReceives(b) \/ NodeDecides(b)
           \/ \E k \in Blocks : CreditBlock(k)
           \/ NewDay
           \/ UNCHANGED vars
  <2>1. UNCHANGED <<runVars, status, enabled>>
    BY <1>3 DEF NodeReceives, NodeDecides, CreditBlock, NewDay, vars, dbVars
  <2>2. \A b \in Batches : tx[b] = "none" => tx'[b] = "none"
    BY <1>3, <1>s DEF NodeReceives, NodeDecides, CreditBlock, NewDay, vars, SettlingInv, SigningInv, TypeOK, StoreType
  <2>3. QuietMove(NoProc)
    BY <2>1, <2>2, PayoutsAssumption DEF QuietMove, OnlyRun, runVars
  <2>4. QED BY <1>i, <2>3, QuietKept
<1>4. QED BY <1>1, <1>2, <1>3 DEF Next

LEMMA QuietInvariant == CancelPolicy = "drained" => (Spec => []QuietInv)
<1> SUFFICES ASSUME CancelPolicy = "drained" PROVE Spec => []QuietInv
  OBVIOUS
<1>1. Init => QuietInv
  BY InitSettling
     DEF Init, QuietInv, CancelAlone, CancelUnsent, ListedNotCancelled, CancelledUnsent,
         CancelPcs, SubmitPcs
<1>2. QuietInv /\ [Next]_vars => QuietInv' BY NextQuiet
<1>3. QED BY <1>1, <1>2, PTL DEF Spec

\* When sign-payouts asks the wallet to choose coins, no earlier payout
\* transaction is waiting to be mined, if operators cancel the way the
\* "drained" policy says.  The hypothesis is needed: under "unseen" a cancelled
\* batch may still be broadcast, and under "quiesced" a broadcast that its client
\* gave up may reach a node after the cancel.
THEOREM WalletIsQuiet == CancelPolicy = "drained" => (Spec => []QuietWallet)
<1> SUFFICES ASSUME CancelPolicy = "drained" PROVE Spec => []QuietWallet
  OBVIOUS
<1>1. QuietInv => QuietWallet
  <2>1. SUFFICES ASSUME QuietInv, NEW p \in Procs, At(p, "sg_call"), NEW b \in Batches
        PROVE  tx[b] # "mempool"
    BY DEF QuietWallet
  <2>2. status[b] \notin Inflight
    BY <2>1 DEF QuietInv, SettlingInv, SigningInv, ClearToSign, At, WithStatus
  <2>3. status[b] \in BatchStatus BY <2>1 DEF QuietInv, SettlingInv, SigningInv, TypeOK, StoreType
  <2>4. BatchInv(b) BY <2>1 DEF QuietInv, SettlingInv
  <2>5. status[b] = "cancelled" => tx[b] = "none" BY <2>1 DEF QuietInv, CancelledUnsent
  <2>6. Untouched(b) => tx[b] = "none" BY DEF Untouched
  <2>7. QED BY <2>2, <2>3, <2>4, <2>5, <2>6 DEF BatchStatus, Inflight, BatchInv
<1>2. QED BY <1>1, QuietInvariant, PTL
-----------------------------------------------------------------------------
(***************************************************************************)
(* The balances.  That no greatest(.., 0) of append_ledger_entries cuts an *)
(* amount short is not visible in the sums over rows: the invariant also   *)
(* says which batches the locked funds of a miner are for, and which have  *)
(* taken from what the miner earned.                                       *)
(***************************************************************************)
\* The unique index holds a row of this kind for miner and batch.
Booked(m, b, kind) == \E e \in ledger : e.miner = m /\ e.kind = kind /\ e.ref = BatchRef(b)

Exists(b) == status[b] # "none"

\* The batches that hold funds of m, and the ones that have not given them back.
Open(m)  == {b \in Batches : /\ Exists(b) /\ ~Booked(m, b, "payout_sent")
                             /\ ~Booked(m, b, "payout_failed_unlock")}
Spent(m) == {b \in Batches : Exists(b) /\ ~Booked(m, b, "payout_failed_unlock")}

Pays(m) == [b \in Batches |-> amount[b][m]]

MoneyKinds == {"reward_mature", "payout_lock", "payout_sent", "payout_failed_unlock"}

RowsFinite(m) == \A kind \in MoneyKinds : IsFiniteSet(RowsOf(m, kind))

CacheOf(m) ==
  /\ balance[m]["confirmed"] + LedgerTotal(m, "payout_lock")
       = LedgerTotal(m, "reward_mature") + LedgerTotal(m, "payout_failed_unlock")
  /\ balance[m]["locked"] + LedgerTotal(m, "payout_sent") + LedgerTotal(m, "payout_failed_unlock")
       = LedgerTotal(m, "payout_lock")
  /\ balance[m]["paid"] = LedgerTotal(m, "payout_sent")

FundsOf(m) ==
  /\ balance[m]["locked"] = SumFunctionOnSet(Pays(m), Open(m))
  /\ balance[m]["confirmed"] + SumFunctionOnSet(Pays(m), Spent(m)) = LedgerTotal(m, "reward_mature")

\* A batch has no rows before it exists.
NoEarlyRows == \A b \in Batches : (\E e \in ledger : e.ref = BatchRef(b)) => Exists(b)

MoneyOf(m) == RowsFinite(m) /\ CacheOf(m) /\ FundsOf(m)

MoneyInv == SettlingInv /\ NoEarlyRows /\ \A m \in Miners : MoneyOf(m)

\* What the sums are made of.
LEMMA MoneyTypes ==
  ASSUME TypeOK, NEW m \in Miners
  PROVE  /\ \A b \in Batches : Pays(m)[b] = amount[b][m] /\ Pays(m)[b] \in Nat
         /\ \A S \in SUBSET Batches :
              IsFiniteSet(S) /\ Counts(Pays(m), S) /\ SumFunctionOnSet(Pays(m), S) \in Nat
         /\ \A k \in Buckets : balance[m][k] \in Nat
         /\ RowsFinite(m) => \A kind \in MoneyKinds : LedgerTotal(m, kind) \in Nat
<1>1. \A b \in Batches : Pays(m)[b] = amount[b][m] /\ Pays(m)[b] \in Nat
  BY DEF Pays, TypeOK, StoreType
<1>2. IsFiniteSet(Batches) BY PayoutsAssumption, FS_Interval DEF Batches
<1>3. ASSUME NEW S \in SUBSET Batches
      PROVE  IsFiniteSet(S) /\ Counts(Pays(m), S) /\ SumFunctionOnSet(Pays(m), S) \in Nat
  <2>1. IsFiniteSet(S) BY <1>2, FS_Subset
  <2>2. Counts(Pays(m), S) BY <1>1 DEF Counts
  <2>3. QED BY <2>1, <2>2, SumType
<1>4. \A k \in Buckets : balance[m][k] \in Nat BY DEF TypeOK, StoreType, Balance
<1>5. ASSUME RowsFinite(m), NEW kind \in MoneyKinds PROVE LedgerTotal(m, kind) \in Nat
  <2>1. IsFiniteSet(RowsOf(m, kind)) BY <1>5 DEF RowsFinite
  <2>2. \A e \in RowsOf(m, kind) : e.amount \in Nat BY DEF RowsOf, TypeOK, StoreType
  <2>3. QED BY <2>1, <2>2, TotalType DEF LedgerTotal
<1>6. QED BY <1>1, <1>3, <1>4, <1>5

\* A step that leaves the rows and the balances alone, and creates no batch.
LEMMA MoneyUntouched ==
  ASSUME NEW m \in Miners, MoneyOf(m), UNCHANGED <<ledger, balance, amount>>,
         \A b \in Batches : Exists(b)' = Exists(b)
  PROVE  MoneyOf(m)'
<1>1. \A kind : RowsOf(m, kind)' = RowsOf(m, kind) BY DEF RowsOf
<1>2. \A b \in Batches : \A kind : Booked(m, b, kind)' = Booked(m, b, kind) BY DEF Booked
<1>3. Open(m)' = Open(m) /\ Spent(m)' = Spent(m) BY <1>2 DEF Open, Spent
<1>4. Pays(m)' = Pays(m) BY DEF Pays
<1>5. \A kind : LedgerTotal(m, kind)' = LedgerTotal(m, kind) BY <1>1 DEF LedgerTotal
<1>6. QED BY <1>1, <1>3, <1>4, <1>5 DEF MoneyOf, RowsFinite, CacheOf, FundsOf

\* One row more of this kind, of an amount a, and no other row of m.
OneRow(m, kind, a) ==
  /\ LedgerTotal(m, kind)' = a + LedgerTotal(m, kind)
  /\ \A k \in MoneyKinds \ {kind} : LedgerTotal(m, k)' = LedgerTotal(m, k)
  /\ RowsFinite(m)'

LEMMA RowInserted ==
  ASSUME TypeOK, NEW m \in Miners, RowsFinite(m), NEW kind \in MoneyKinds, NEW e, e \notin ledger,
         e.miner = m, e.kind = kind, e.amount \in Nat,
         \A k \in MoneyKinds : RowsOf(m, k)' = IF k = kind THEN RowsOf(m, k) \cup {e} ELSE RowsOf(m, k)
  PROVE  OneRow(m, kind, e.amount)
<1>1. IsFiniteSet(RowsOf(m, kind)) BY DEF RowsFinite
<1>2. e \notin RowsOf(m, kind) BY DEF RowsOf
<1>3. \A x \in RowsOf(m, kind) \cup {e} : x.amount \in Nat BY DEF RowsOf, TypeOK, StoreType
<1>4. /\ IsFiniteSet(RowsOf(m, kind) \cup {e})
      /\ TotalOf(RowsOf(m, kind) \cup {e}) = e.amount + TotalOf(RowsOf(m, kind))
  BY <1>1, <1>2, <1>3, TotalAdd
<1>5. LedgerTotal(m, kind)' = e.amount + LedgerTotal(m, kind) BY <1>4 DEF LedgerTotal
<1>6. \A k \in MoneyKinds \ {kind} : LedgerTotal(m, k)' = LedgerTotal(m, k) BY DEF LedgerTotal
<1>7. RowsFinite(m)' BY <1>4 DEF RowsFinite
<1>8. QED BY <1>5, <1>6, <1>7 DEF OneRow

\* CreditBlock: the reward is confirmed, and nothing else moves.
LEMMA MoneyCredited ==
  ASSUME TypeOK, NEW m \in Miners, MoneyOf(m), NEW k \in Blocks, CreditBlock(k)
  PROVE  MoneyOf(m)'
<1> DEFINE e == Entry(m, "reward_mature", BlockRef(k), Reward[k][m])
<1>r. Reward[k][m] \in Nat BY PayoutsAssumption
<1>1. /\ e.miner = m /\ e.kind = "reward_mature" /\ e.amount = Reward[k][m] /\ e.ref = BlockRef(k)
  BY DEF Entry
<1>2. e \notin ledger BY <1>1 DEF CreditBlock
<1>3. ledger' = ledger \cup {Entry(n, "reward_mature", BlockRef(k), Reward[k][n]) : n \in Miners}
  BY DEF CreditBlock
<1>4. \A x \in MoneyKinds : RowsOf(m, x)' = IF x = "reward_mature" THEN RowsOf(m, x) \cup {e} ELSE RowsOf(m, x)
  BY <1>3 DEF RowsOf, Entry
<1>5. OneRow(m, "reward_mature", Reward[k][m])
  <2> HIDE DEF e
  <2>1. QED BY <1>1, <1>2, <1>4, <1>r, RowInserted DEF MoneyOf, MoneyKinds
<1>6. /\ balance'[m]["confirmed"] = balance[m]["confirmed"] + Reward[k][m]
      /\ balance'[m]["locked"] = balance[m]["locked"] /\ balance'[m]["paid"] = balance[m]["paid"]
  BY DEF CreditBlock, TypeOK, StoreType, Balance, Buckets
<1>7. \A b \in Batches, x \in {"payout_sent", "payout_failed_unlock"} : Booked(m, b, x)' = Booked(m, b, x)
  BY <1>3 DEF Booked, Entry, BatchRef
<1>8. Open(m)' = Open(m) /\ Spent(m)' = Spent(m) /\ Pays(m)' = Pays(m)
  BY <1>7 DEF Open, Spent, Exists, Pays, CreditBlock
<1>9. CacheOf(m)' /\ FundsOf(m)'
  <2>1. /\ LedgerTotal(m, "reward_mature")' = Reward[k][m] + LedgerTotal(m, "reward_mature")
        /\ LedgerTotal(m, "payout_lock")' = LedgerTotal(m, "payout_lock")
        /\ LedgerTotal(m, "payout_sent")' = LedgerTotal(m, "payout_sent")
        /\ LedgerTotal(m, "payout_failed_unlock")' = LedgerTotal(m, "payout_failed_unlock")
    BY <1>5 DEF OneRow, MoneyKinds
  <2>2. Open(m) \in SUBSET Batches /\ Spent(m) \in SUBSET Batches BY DEF Open, Spent
  <2>3. /\ LedgerTotal(m, "reward_mature") \in Nat /\ LedgerTotal(m, "payout_lock") \in Nat
        /\ LedgerTotal(m, "payout_sent") \in Nat /\ LedgerTotal(m, "payout_failed_unlock") \in Nat
        /\ balance[m]["confirmed"] \in Nat /\ balance[m]["locked"] \in Nat
        /\ SumFunctionOnSet(Pays(m), Spent(m)) \in Nat
    BY <2>2, MoneyTypes DEF MoneyOf, MoneyKinds, Buckets
  <2>4. CacheOf(m) /\ FundsOf(m) BY DEF MoneyOf
  <2>5. CacheOf(m)' BY <1>6, <1>r, <2>1, <2>3, <2>4 DEF CacheOf
  <2>6. FundsOf(m)' BY <1>6, <1>8, <1>r, <2>1, <2>3, <2>4 DEF FundsOf
  <2>7. QED BY <2>5, <2>6
<1>10. QED BY <1>5, <1>9 DEF MoneyOf, OneRow

\* create_locked_payout_batch moves the amount from confirmed to locked, which
\* covers it, and opens the batch.
LEMMA MoneyLocked ==
  ASSUME TypeOK, NoEarlyRows, NEW m \in Miners, MoneyOf(m), NEW b \in Batches, FreshBatch(b),
         NEW amounts \in [Miners -> Nat], NEW s \in BatchStatus \ {"none"},
         create_locked_payout_batch(b, amounts, s)
  PROVE  MoneyOf(m)'
<1> DEFINE a == amounts[m]
           e == Entry(m, "payout_lock", BatchRef(b), a)
<1>a. a \in Nat /\ a <= balance[m]["confirmed"] BY DEF create_locked_payout_batch, Covered
<1>n. ~Exists(b) BY DEF FreshBatch, Exists
<1>l. ledger' = ledger \cup {Entry(n, "payout_lock", BatchRef(b), amounts[n]) : n \in {x \in Miners : amounts[x] > 0}}
  BY DEF create_locked_payout_batch
<1>1. e.miner = m /\ e.kind = "payout_lock" /\ e.amount = a /\ e.ref = BatchRef(b) BY DEF Entry
<1>2. e \notin ledger BY <1>1, <1>n DEF NoEarlyRows
<1>3. OneRow(m, "payout_lock", a)
  <2>1. CASE a > 0
    <3>1. \A x \in MoneyKinds : RowsOf(m, x)' = IF x = "payout_lock" THEN RowsOf(m, x) \cup {e} ELSE RowsOf(m, x)
      BY <1>l, <2>1 DEF RowsOf, Entry
    <3> HIDE DEF e, a
    <3>2. QED BY <1>1, <1>2, <1>a, <3>1, RowInserted DEF MoneyOf, MoneyKinds
  <2>2. CASE a = 0
    <3>1. \A x \in MoneyKinds : RowsOf(m, x)' = RowsOf(m, x) BY <1>l, <2>2 DEF RowsOf, Entry
    <3>2. \A x \in MoneyKinds : LedgerTotal(m, x)' = LedgerTotal(m, x) BY <3>1 DEF LedgerTotal
    <3>3. LedgerTotal(m, "payout_lock") \in Nat BY MoneyTypes DEF MoneyOf, MoneyKinds
    <3>4. RowsFinite(m)' BY <3>1 DEF MoneyOf, RowsFinite
    <3> HIDE DEF a
    <3>5. QED BY <2>2, <3>2, <3>3, <3>4 DEF OneRow, MoneyKinds
  <2>3. QED BY <1>a, <2>1, <2>2
<1>4. /\ balance'[m]["confirmed"] = balance[m]["confirmed"] - a
      /\ balance'[m]["locked"] = balance[m]["locked"] + a /\ balance'[m]["paid"] = balance[m]["paid"]
  <2>1. balance'[m] = Move(balance[m], "confirmed", "locked", a) BY DEF create_locked_payout_batch
  <2> HIDE DEF a
  <2>2. QED BY <1>a, <2>1 DEF Move, Monus, Buckets
<1>5. /\ Exists(b)' /\ \A c \in Batches \ {b} : Exists(c)' = Exists(c)
  BY DEF create_locked_payout_batch, Exists, TypeOK, StoreType
<1>6. \A c \in Batches, x \in {"payout_sent", "payout_failed_unlock"} : Booked(m, c, x)' = Booked(m, c, x)
  BY <1>l DEF Booked, Entry
<1>7. \A x : ~Booked(m, b, x) BY <1>n DEF Booked, NoEarlyRows
<1>8. /\ Open(m)' = Open(m) \cup {b} /\ b \notin Open(m)
      /\ Spent(m)' = Spent(m) \cup {b} /\ b \notin Spent(m)
  BY <1>n, <1>5, <1>6, <1>7 DEF Open, Spent
<1>9. Pays(m)'[b] = a /\ \A c \in Batches \ {b} : Pays(m)'[c] = Pays(m)[c]
  BY DEF Pays, create_locked_payout_batch, TypeOK, StoreType
<1>10. ASSUME NEW S \in SUBSET Batches, b \notin S
       PROVE  SumFunctionOnSet(Pays(m)', S \cup {b}) = a + SumFunctionOnSet(Pays(m), S)
  <2>1. IsFiniteSet(S) /\ Counts(Pays(m), S) BY MoneyTypes
  <2>2. \A x \in S : Pays(m)'[x] = Pays(m)[x] BY <1>9, <1>10
  <2>3. Counts(Pays(m)', S \cup {b}) BY <1>9, <1>a, <2>1, <2>2 DEF Counts
  <2>4. SumFunctionOnSet(Pays(m)', S \cup {b}) = Pays(m)'[b] + SumFunctionOnSet(Pays(m)', S)
    BY <1>10, <2>1, <2>3, SumAdd
  <2>5. SumFunctionOnSet(Pays(m)', S) = SumFunctionOnSet(Pays(m), S) BY <2>1, <2>2, SumSame
  <2>6. QED BY <1>9, <2>4, <2>5
<1>11. Open(m) \in SUBSET Batches /\ Spent(m) \in SUBSET Batches BY DEF Open, Spent
<1>12. /\ SumFunctionOnSet(Pays(m)', Open(m)') = a + SumFunctionOnSet(Pays(m), Open(m))
       /\ SumFunctionOnSet(Pays(m)', Spent(m)') = a + SumFunctionOnSet(Pays(m), Spent(m))
  <2> HIDE DEF a
  <2>1. QED BY <1>8, <1>10, <1>11
<1>13. CacheOf(m)' /\ FundsOf(m)'
  <2> HIDE DEF a, e
  <2>1. /\ LedgerTotal(m, "payout_lock")' = a + LedgerTotal(m, "payout_lock")
        /\ LedgerTotal(m, "reward_mature")' = LedgerTotal(m, "reward_mature")
        /\ LedgerTotal(m, "payout_sent")' = LedgerTotal(m, "payout_sent")
        /\ LedgerTotal(m, "payout_failed_unlock")' = LedgerTotal(m, "payout_failed_unlock")
    BY <1>3 DEF OneRow, MoneyKinds
  <2>3. /\ LedgerTotal(m, "reward_mature") \in Nat /\ LedgerTotal(m, "payout_lock") \in Nat
        /\ LedgerTotal(m, "payout_sent") \in Nat /\ LedgerTotal(m, "payout_failed_unlock") \in Nat
        /\ balance[m]["confirmed"] \in Nat /\ balance[m]["locked"] \in Nat
        /\ SumFunctionOnSet(Pays(m), Spent(m)) \in Nat
    BY <1>11, MoneyTypes DEF MoneyOf, MoneyKinds, Buckets
  <2>4. CacheOf(m) /\ FundsOf(m) BY DEF MoneyOf
  <2>5. CacheOf(m)' BY <1>4, <1>a, <2>1, <2>3, <2>4 DEF CacheOf
  <2>6. FundsOf(m)' BY <1>4, <1>12, <1>a, <2>1, <2>3, <2>4 DEF FundsOf
  <2>7. QED BY <2>5, <2>6
<1>14. QED BY <1>3, <1>13 DEF MoneyOf, OneRow

SettleKinds == {"payout_sent", "payout_failed_unlock"}

\* mark_payout_paid and unlock_failed_payout of a batch that has no row of the
\* other kind: the first row of this kind takes what the batch has locked, any
\* later attempt takes nothing.
LEMMA MoneySettled ==
  ASSUME TypeOK, NEW m \in Miners, MoneyOf(m), NEW b \in Batches, Exists(b),
         NEW kind \in SettleKinds, \A x \in SettleKinds \ {kind} : ~HasRow(b, x),
         AppendForBatch(b, kind), UNCHANGED <<status, amount>>
  PROVE  MoneyOf(m)'
<1> DEFINE a == amount[b][m]
           e == BatchEntry(b, kind, m)
<1>t. a \in Nat BY DEF TypeOK, StoreType
<1>e. \A n : /\ BatchEntry(b, kind, n).miner = n /\ BatchEntry(b, kind, n).kind = kind
             /\ BatchEntry(b, kind, n).ref = BatchRef(b) /\ BatchEntry(b, kind, n).amount = amount[b][n]
  BY DEF BatchEntry, Entry
<1>l. ledger' = ledger \cup {x \in {BatchEntry(b, kind, n) : n \in Recipients(b)} : Inserts(ledger, x)}
  BY DEF AppendForBatch
<1>i. Inserts(ledger, e) <=> ~Booked(m, b, kind) BY <1>e DEF Inserts, SameKey, Booked
<1>k. kind \in MoneyKinds BY DEF SettleKinds, MoneyKinds
<1>p. Pays(m)' = Pays(m) BY DEF Pays
<1>1. CASE m \in Recipients(b) /\ Inserts(ledger, e)
  <2>1. e \notin ledger BY <1>1 DEF Inserts, SameKey
  <2>2. \A x \in MoneyKinds : RowsOf(m, x)' = IF x = kind THEN RowsOf(m, x) \cup {e} ELSE RowsOf(m, x)
    <3> HIDE DEF e
    <3>1. e \in ledger' BY <1>1, <1>l DEF e
    <3>2. \A x \in ledger' : x.miner = m => x \in ledger \/ x = e BY <1>e, <1>l DEF e
    <3>3. ledger \subseteq ledger' BY <1>l
    <3>4. e.miner = m /\ e.kind = kind BY <1>e DEF e
    <3>5. QED BY <3>1, <3>2, <3>3, <3>4 DEF RowsOf
  <2>3. OneRow(m, kind, a)
    <3>1. e.miner = m /\ e.kind = kind /\ e.amount = a BY <1>e
    <3> HIDE DEF e, a
    <3>2. QED BY <1>k, <1>t, <2>1, <2>2, <3>1, RowInserted DEF MoneyOf
  <2>4. b \in Open(m) /\ b \in Spent(m)
    <3>1. ~Booked(m, b, kind) BY <1>1, <1>i
    <3>2. \A x \in SettleKinds \ {kind} : ~Booked(m, b, x) BY DEF HasRow, Booked
    <3>3. QED BY <3>1, <3>2 DEF Open, Spent, SettleKinds
  <2>5. \A c \in Batches : \A x : Booked(m, c, x)' = (Booked(m, c, x) \/ (c = b /\ x = kind))
    <3> HIDE DEF e
    <3>1. e \in ledger' BY <1>1, <1>l DEF e
    <3>2. \A x \in ledger' : x.miner = m => x \in ledger \/ x = e BY <1>e, <1>l DEF e
    <3>3. ledger \subseteq ledger' BY <1>l
    <3>4. e.miner = m /\ e.kind = kind /\ e.ref = BatchRef(b) BY <1>e DEF e
    <3>5. \A c \in Batches : BatchRef(c) = BatchRef(b) => c = b BY DEF BatchRef
    <3>6. QED BY <3>1, <3>2, <3>3, <3>4, <3>5 DEF Booked, BatchRef
  <2>6. \A c \in Batches : Exists(c)' = Exists(c) BY DEF Exists
  <2>7. Open(m)' = Open(m) \ {b} BY <2>5, <2>6 DEF Open, SettleKinds
  <2>8. Spent(m)' = IF kind = "payout_failed_unlock" THEN Spent(m) \ {b} ELSE Spent(m)
    BY <2>5, <2>6 DEF Spent, SettleKinds
  <2>9. Open(m) \in SUBSET Batches /\ Spent(m) \in SUBSET Batches BY DEF Open, Spent
  <2>10. ASSUME NEW S \in SUBSET Batches, b \in S
         PROVE  SumFunctionOnSet(Pays(m), S) = a + SumFunctionOnSet(Pays(m), S \ {b})
    <3>1. IsFiniteSet(S) /\ Counts(Pays(m), S) /\ Pays(m)[b] = a BY MoneyTypes
    <3>2. SumFunctionOnSet(Pays(m), S) = Pays(m)[b] + SumFunctionOnSet(Pays(m), S \ {b})
      BY <2>10, <3>1, SumRemove
    <3>3. QED BY <3>1, <3>2
  <2>11. /\ SumFunctionOnSet(Pays(m), Open(m)) = a + SumFunctionOnSet(Pays(m), Open(m) \ {b})
         /\ SumFunctionOnSet(Pays(m), Spent(m)) = a + SumFunctionOnSet(Pays(m), Spent(m) \ {b})
    <3> HIDE DEF a
    <3>1. QED BY <2>4, <2>9, <2>10
  <2>12. Open(m) \ {b} \in SUBSET Batches /\ Spent(m) \ {b} \in SUBSET Batches BY <2>9
  <2>13. /\ LedgerTotal(m, "reward_mature") \in Nat /\ LedgerTotal(m, "payout_lock") \in Nat
         /\ LedgerTotal(m, "payout_sent") \in Nat /\ LedgerTotal(m, "payout_failed_unlock") \in Nat
         /\ balance[m]["confirmed"] \in Nat /\ balance[m]["locked"] \in Nat /\ balance[m]["paid"] \in Nat
         /\ SumFunctionOnSet(Pays(m), Spent(m)) \in Nat /\ SumFunctionOnSet(Pays(m), Open(m)) \in Nat
         /\ SumFunctionOnSet(Pays(m), Spent(m) \ {b}) \in Nat /\ SumFunctionOnSet(Pays(m), Open(m) \ {b}) \in Nat
    BY <2>9, <2>12, MoneyTypes DEF MoneyOf, MoneyKinds, Buckets
  <2>14. CacheOf(m) /\ FundsOf(m) BY DEF MoneyOf
  <2> HIDE DEF a
  <2>15. a <= balance[m]["locked"] BY <1>t, <2>11, <2>13, <2>14 DEF FundsOf
  <2>16. balance'[m] = Move(balance[m], "locked", AddsTo(e), a)
    <3>1. balance'[m] = ApplyEntry(ledger, balance[m], e) BY <1>1 DEF AppendForBatch
    <3>2. TakesFrom(ledger, e) = "locked" BY <1>e DEF TakesFrom, SettleKinds
    <3>3. e.amount = a BY <1>e DEF a
    <3> HIDE DEF e
    <3>4. QED BY <1>1, <3>1, <3>2, <3>3 DEF ApplyEntry
  <2>17. CASE kind = "payout_sent"
    <3>1. AddsTo(e) = "paid" BY <1>e, <2>17 DEF AddsTo
    <3>2. /\ balance'[m]["locked"] = balance[m]["locked"] - a
          /\ balance'[m]["paid"] = balance[m]["paid"] + a
          /\ balance'[m]["confirmed"] = balance[m]["confirmed"]
      BY <1>t, <2>15, <2>16, <3>1 DEF Move, Monus, Buckets
    <3>3. /\ LedgerTotal(m, "payout_sent")' = a + LedgerTotal(m, "payout_sent")
          /\ LedgerTotal(m, "reward_mature")' = LedgerTotal(m, "reward_mature")
          /\ LedgerTotal(m, "payout_lock")' = LedgerTotal(m, "payout_lock")
          /\ LedgerTotal(m, "payout_failed_unlock")' = LedgerTotal(m, "payout_failed_unlock")
      BY <2>3, <2>17 DEF OneRow, MoneyKinds
    <3>4. CacheOf(m)' BY <1>t, <2>13, <2>14, <3>2, <3>3 DEF CacheOf
    <3>5. FundsOf(m)' BY <1>p, <1>t, <2>7, <2>8, <2>11, <2>13, <2>14, <2>17, <3>2, <3>3 DEF FundsOf
    <3>6. QED BY <2>3, <3>4, <3>5 DEF MoneyOf, OneRow
  <2>18. CASE kind = "payout_failed_unlock"
    <3>1. AddsTo(e) = "confirmed" BY <1>e, <2>18 DEF AddsTo
    <3>2. /\ balance'[m]["locked"] = balance[m]["locked"] - a
          /\ balance'[m]["paid"] = balance[m]["paid"]
          /\ balance'[m]["confirmed"] = balance[m]["confirmed"] + a
      BY <1>t, <2>15, <2>16, <3>1 DEF Move, Monus, Buckets
    <3>3. /\ LedgerTotal(m, "payout_failed_unlock")' = a + LedgerTotal(m, "payout_failed_unlock")
          /\ LedgerTotal(m, "reward_mature")' = LedgerTotal(m, "reward_mature")
          /\ LedgerTotal(m, "payout_lock")' = LedgerTotal(m, "payout_lock")
          /\ LedgerTotal(m, "payout_sent")' = LedgerTotal(m, "payout_sent")
      BY <2>3, <2>18 DEF OneRow, MoneyKinds
    <3>4. CacheOf(m)'
      <4>1. /\ balance[m]["confirmed"] + LedgerTotal(m, "payout_lock")
                 = LedgerTotal(m, "reward_mature") + LedgerTotal(m, "payout_failed_unlock")
            /\ balance[m]["locked"] + LedgerTotal(m, "payout_sent") + LedgerTotal(m, "payout_failed_unlock")
                 = LedgerTotal(m, "payout_lock")
            /\ balance[m]["paid"] = LedgerTotal(m, "payout_sent")
        BY <2>14 DEF CacheOf
      <4>2. (balance[m]["confirmed"] + a) + LedgerTotal(m, "payout_lock")
              = LedgerTotal(m, "reward_mature") + (a + LedgerTotal(m, "payout_failed_unlock"))
        BY <1>t, <2>13, <4>1
      <4>3. (balance[m]["locked"] - a) + LedgerTotal(m, "payout_sent")
              + (a + LedgerTotal(m, "payout_failed_unlock")) = LedgerTotal(m, "payout_lock")
        BY <1>t, <2>13, <4>1
      <4>4. QED BY <3>2, <3>3, <4>1, <4>2, <4>3 DEF CacheOf
    <3>5. FundsOf(m)' BY <1>p, <1>t, <2>7, <2>8, <2>11, <2>13, <2>14, <2>18, <3>2, <3>3 DEF FundsOf
    <3>6. QED BY <2>3, <3>4, <3>5 DEF MoneyOf, OneRow
  <2>19. QED BY <2>17, <2>18 DEF SettleKinds
<1>2. CASE ~(m \in Recipients(b) /\ Inserts(ledger, e))
  <2>1. balance'[m] = balance[m]
    <3>1. m \in Recipients(b) => ApplyEntry(ledger, balance[m], e) = balance[m] BY <1>2 DEF ApplyEntry
    <3>2. QED BY <3>1 DEF AppendForBatch
  <2>2. \A x \in ledger' : x.miner = m => x \in ledger BY <1>2, <1>e, <1>l
  <2>3. ledger \subseteq ledger' BY <1>l
  <2>4. \A x : RowsOf(m, x)' = RowsOf(m, x) BY <2>2, <2>3 DEF RowsOf
  <2>5. \A c \in Batches : \A x : Booked(m, c, x)' = Booked(m, c, x) BY <2>2, <2>3 DEF Booked, BatchRef
  <2>6. Open(m)' = Open(m) /\ Spent(m)' = Spent(m) BY <2>5 DEF Open, Spent, Exists
  <2>7. \A x : LedgerTotal(m, x)' = LedgerTotal(m, x) BY <2>4 DEF LedgerTotal
  <2>8. QED BY <1>p, <2>1, <2>4, <2>6, <2>7 DEF MoneyOf, RowsFinite, CacheOf, FundsOf
<1>3. QED BY <1>1, <1>2

-----------------------------------------------------------------------------
\* A step that touches no money: statuses may move, but no batch is created.
NoMoney == UNCHANGED <<ledger, balance, amount>> /\ \A b \in Batches : Exists(b)' = Exists(b)

LEMMA NoMoneyStep ==
  ASSUME MoneyInv, SettlingInv', NoMoney
  PROVE  MoneyInv'
<1>1. NoEarlyRows' BY DEF MoneyInv, NoEarlyRows, NoMoney, BatchRef
<1>2. \A m \in Miners : MoneyOf(m)' BY MoneyUntouched DEF MoneyInv, NoMoney
<1>3. QED BY <1>1, <1>2 DEF MoneyInv

\* A guarded update of the status column creates no batch.
LEMMA UpdateCreatesNone ==
  ASSUME TypeOK, NEW b, NEW from, NEW new, UpdateStatus(b, from, new), "none" \notin from, new # "none"
  PROVE  \A c \in Batches : Exists(c)' = Exists(c)
BY DEF TypeOK, StoreType, UpdateStatus, Exists

LEMMA SettleMoney ==
  ASSUME MoneyInv, SettlingInv', NEW b \in Batches, NEW kind \in SettleKinds,
         AppendForBatch(b, kind), UNCHANGED <<status, amount>>,
         kind = "payout_sent" => status[b] = "confirmed",
         kind = "payout_failed_unlock" => status[b] \in {"failed", "cancelled"}
  PROVE  MoneyInv'
<1>1. TypeOK /\ BatchInv(b) BY DEF MoneyInv, SettlingInv, SigningInv
<1>2. Exists(b) BY DEF SettleKinds, Exists
<1>3. \A x \in SettleKinds \ {kind} : ~HasRow(b, x) BY <1>1 DEF BatchInv, SettleKinds
<1>4. \A m \in Miners : MoneyOf(m)' BY <1>1, <1>2, <1>3, MoneySettled DEF MoneyInv
<1>5. NoEarlyRows'
  <2>1. \A e \in ledger' : e \in ledger \/ e.ref = BatchRef(b)
    BY DEF AppendForBatch, BatchEntry, Entry
  <2>2. \A c \in Batches : BatchRef(c) = BatchRef(b) => c = b BY DEF BatchRef
  <2>3. \A c \in Batches : Exists(c)' = Exists(c) BY DEF Exists
  <2>4. QED BY <1>2, <2>1, <2>2, <2>3 DEF MoneyInv, NoEarlyRows, BatchRef
<1>6. QED BY <1>4, <1>5 DEF MoneyInv

LEMMA LockMoney ==
  ASSUME MoneyInv, SettlingInv', NEW b \in Batches, FreshBatch(b), NEW amounts \in [Miners -> Nat],
         NEW s \in BatchStatus \ {"none"}, create_locked_payout_batch(b, amounts, s)
  PROVE  MoneyInv'
<1>1. TypeOK /\ NoEarlyRows BY DEF MoneyInv, SettlingInv, SigningInv
<1>2. \A m \in Miners : MoneyOf(m)' BY <1>1, MoneyLocked DEF MoneyInv
<1>3. NoEarlyRows'
  <2>1. \A e \in ledger' : e \in ledger \/ e.ref = BatchRef(b)
    BY DEF create_locked_payout_batch, Entry
  <2>2. \A c \in Batches : BatchRef(c) = BatchRef(b) => c = b BY DEF BatchRef
  <2>3. Exists(b)' /\ \A c \in Batches : Exists(c) => Exists(c)'
    BY <1>1 DEF Exists, create_locked_payout_batch, TypeOK, StoreType
  <2>4. QED BY <1>1, <2>1, <2>2, <2>3 DEF NoEarlyRows, BatchRef
<1>4. QED BY <1>2, <1>3 DEF MoneyInv

LEMMA CreateMoney ==
  ASSUME MoneyInv, SettlingInv', NEW p \in Procs, Create(p)
  PROVE  MoneyInv'
<1>1. CASE CreateInsert(p)
  <2>1. PICK b \in Batches : FreshBatch(b) /\ create_locked_payout_batch(b, draft[p], InitialStatus(draft[p]))
    BY <1>1 DEF CreateInsert
  <2>2. draft[p] \in [Miners -> Nat] BY DEF MoneyInv, SettlingInv, SigningInv, TypeOK, RunType
  <2>3. InitialStatus(draft[p]) \in BatchStatus \ {"none"} BY DEF InitialStatus, BatchStatus
  <2>4. QED BY <2>1, <2>2, <2>3, LockMoney
<1>2. CASE ~CreateInsert(p)
  <2>1. UNCHANGED <<ledger, balance, amount, status>>
    BY <1>2 DEF Create, CreateStart, CreateReadDaily, CreateSelect, CreateSkip, CreateRollback,
                CreateAudit, AuditAndFinish, AuditStep, dbVars
  <2>2. QED BY <2>1, NoMoneyStep DEF NoMoney, Exists
<1>3. QED BY <1>1, <1>2

\* unlock_failed_payout, at the three places that call it.
LEMMA UnlockMoney ==
  ASSUME MoneyInv, SettlingInv', NEW p \in Procs, NEW here \in {"sg_unlock", "rc_unlock", "cn_unlock"},
         NEW next, FailUnlock(p, here, next)
  PROVE  MoneyInv'
<1>1. pc[p] = here /\ AppendForBatch(cur[p], "payout_failed_unlock") /\ UNCHANGED <<status, amount>>
  BY DEF FailUnlock, unlock_failed_payout, At
<1>2. cur[p] \in Batches BY <1>1 DEF MoneyInv, SettlingInv, SigningInv, BatchInHand, WithBatch
<1>3. RunInv(p) BY DEF MoneyInv, SettlingInv
<1>4. status[cur[p]] \in {"failed", "cancelled"} BY <1>1, <1>3 DEF RunInv
<1>5. QED BY <1>1, <1>2, <1>4, SettleMoney DEF SettleKinds

\* mark_payout_failed
LEMMA FailMoney ==
  ASSUME MoneyInv, SettlingInv', NEW p \in Procs, NEW here, NEW next, FailMark(p, here, next)
  PROVE  MoneyInv'
<1>1. UNCHANGED <<ledger, balance, amount>>
      /\ UpdateStatus(cur[p], {"needs_approval", "created"} \cup Inflight, "failed")
  BY DEF FailMark, mark_payout_failed
<1>2. TypeOK BY DEF MoneyInv, SettlingInv, SigningInv
<1>3. \A c \in Batches : Exists(c)' = Exists(c) BY <1>1, <1>2, UpdateCreatesNone DEF Inflight
<1>4. QED BY <1>1, <1>3, NoMoneyStep DEF NoMoney

LEMMA SignMoney ==
  ASSUME MoneyInv, SettlingInv', NEW p \in Procs, Sign(p)
  PROVE  MoneyInv'
<1>1. CASE SignUnlock(p) BY <1>1, UnlockMoney DEF SignUnlock
<1>2. CASE SignFail(p) BY <1>2, FailMoney DEF SignFail
<1>3. CASE SignMark(p)
  <2>1. UNCHANGED <<ledger, balance, amount>> /\ UpdateStatus(cur[p], {"created"}, "signed")
    BY <1>3 DEF SignMark, mark_payout_signed
  <2>2. TypeOK BY DEF MoneyInv, SettlingInv, SigningInv
  <2>3. QED BY <2>1, <2>2, UpdateCreatesNone, NoMoneyStep DEF NoMoney
<1>4. CASE \/ SignStart(p) \/ SignLock(p) \/ SignCheckInflight(p) \/ SignList(p) \/ SignCall(p)
           \/ SignAudit(p) \/ SignFailAudit(p) \/ SignCommit(p)
  <2>1. UNCHANGED <<ledger, balance, amount, status>>
    BY <1>4 DEF SignStart, SignLock, SignCheckInflight, SignList, SignCall, SignAudit, SignFailAudit,
                SignCommit, AuditAndContinue, AuditStep, dbVars
  <2>2. QED BY <2>1, NoMoneyStep DEF NoMoney, Exists
<1>5. QED BY <1>1, <1>2, <1>3, <1>4 DEF Sign

LEMMA SubmitMoney ==
  ASSUME MoneyInv, SettlingInv', NEW p \in Procs, Submit(p)
  PROVE  MoneyInv'
<1>1. CASE SubmitMark(p) \/ SubmitMarkPrior(p)
  <2>1. UNCHANGED <<ledger, balance, amount>> /\ UpdateStatus(cur[p], Inflight, "submitted")
    BY <1>1 DEF SubmitMark, SubmitMarkPrior, SubmitMarkAs, mark_payout_submitted
  <2>2. TypeOK BY DEF MoneyInv, SettlingInv, SigningInv
  <2>3. \A c \in Batches : Exists(c)' = Exists(c) BY <2>1, <2>2, UpdateCreatesNone DEF Inflight
  <2>4. QED BY <2>1, <2>3, NoMoneyStep DEF NoMoney
<1>2. CASE ~(SubmitMark(p) \/ SubmitMarkPrior(p))
  <2>1. UNCHANGED <<ledger, balance, amount, status>>
    BY <1>2 DEF Submit, SubmitStart, SubmitList, SubmitEnd, SubmitAccepted, SubmitAmbiguous,
                SubmitUncertain, SubmitAudit, SubmitPriorAudit, SubmitDefer, ListBatches, EndOfList,
                AuditAndContinue, AuditStep, dbVars
  <2>2. QED BY <2>1, NoMoneyStep DEF NoMoney, Exists
<1>3. QED BY <1>1, <1>2

LEMMA ReconcileMoney ==
  ASSUME MoneyInv, SettlingInv', NEW p \in Procs, Reconcile(p)
  PROVE  MoneyInv'
<1>1. CASE ReconcilePay(p)
  <2>1. pc[p] = "rc_pay" /\ AppendForBatch(cur[p], "payout_sent") /\ UNCHANGED <<status, amount>>
    BY <1>1 DEF ReconcilePay, mark_payout_paid, At
  <2>2. cur[p] \in Batches BY <2>1 DEF MoneyInv, SettlingInv, SigningInv, BatchInHand, WithBatch
  <2>3. RunInv(p) BY DEF MoneyInv, SettlingInv
  <2>4. status[cur[p]] = "confirmed" BY <2>1, <2>3 DEF RunInv
  <2>5. QED BY <2>1, <2>2, <2>4, SettleMoney DEF SettleKinds
<1>2. CASE ReconcileUnlock(p) BY <1>2, UnlockMoney DEF ReconcileUnlock
<1>3. CASE ReconcileFail(p) BY <1>3, FailMoney DEF ReconcileFail
<1>4. CASE ReconcileConfirm(p)
  <2>1. UNCHANGED <<ledger, balance, amount>> /\ UpdateStatus(cur[p], Inflight, "confirmed")
    BY <1>4 DEF ReconcileConfirm, mark_payout_confirmed
  <2>2. TypeOK BY DEF MoneyInv, SettlingInv, SigningInv
  <2>3. \A c \in Batches : Exists(c)' = Exists(c) BY <2>1, <2>2, UpdateCreatesNone DEF Inflight
  <2>4. QED BY <2>1, <2>3, NoMoneyStep DEF NoMoney
<1>5. CASE \/ ReconcileStart(p) \/ ReconcileList(p) \/ ReconcileEnd(p) \/ ReconcileQuery(p)
           \/ ReconcileAudit(p) \/ ReconcileFailAudit(p)
  <2>1. UNCHANGED <<ledger, balance, amount, status>>
    BY <1>5 DEF ReconcileStart, ReconcileList, ReconcileEnd, ReconcileQuery, ReconcileAudit,
                ReconcileFailAudit, ListBatches, EndOfList, AuditAndContinue, AuditStep, dbVars
  <2>2. QED BY <2>1, NoMoneyStep DEF NoMoney, Exists
<1>6. QED BY <1>1, <1>2, <1>3, <1>4, <1>5 DEF Reconcile

LEMMA OperatorMoney ==
  ASSUME MoneyInv, SettlingInv', NEW p \in Procs, Operator(p)
  PROVE  MoneyInv'
<1>t. TypeOK BY DEF MoneyInv, SettlingInv, SigningInv
<1>1. CASE CancelUnlock(p) BY <1>1, UnlockMoney DEF CancelUnlock
<1>2. CASE CancelUpdate(p)
  <2>1. UNCHANGED <<ledger, balance, amount>> /\ UpdateStatus(cur[p], Cancellable, "cancelled")
    BY <1>2 DEF CancelUpdate
  <2>2. \A c \in Batches : Exists(c)' = Exists(c) BY <1>t, <2>1, UpdateCreatesNone DEF Cancellable
  <2>3. QED BY <2>1, <2>2, NoMoneyStep DEF NoMoney
<1>3. CASE Approve(p)
  <2>1. /\ UNCHANGED <<ledger, balance, amount>>
        /\ \E b \in Batches : UpdateStatus(b, {"needs_approval"}, "created")
    BY <1>3 DEF Approve, mark_payout_approved, WithStatus
  <2>2. \A c \in Batches : Exists(c)' = Exists(c) BY <1>t, <2>1, UpdateCreatesNone
  <2>3. QED BY <2>1, <2>2, NoMoneyStep DEF NoMoney
<1>4. CASE RetryInsert(p)
  <2>1. PICK b \in Batches : FreshBatch(b) /\ create_locked_payout_batch(b, amount[cur[p]], "created")
    BY <1>4 DEF RetryInsert
  <2>2. cur[p] \in Batches
    BY <1>4 DEF RetryInsert, At, MoneyInv, SettlingInv, SigningInv, BatchInHand, WithBatch
  <2>3. amount[cur[p]] \in [Miners -> Nat] BY <1>t, <2>2 DEF TypeOK, StoreType
  <2>4. "created" \in BatchStatus \ {"none"} BY DEF BatchStatus
  <2>5. QED BY <2>1, <2>3, <2>4, LockMoney
<1>5. CASE ~(CancelUnlock(p) \/ CancelUpdate(p) \/ Approve(p) \/ RetryInsert(p))
  <2>1. UNCHANGED <<ledger, balance, amount, status>>
    BY <1>5 DEF Operator, CancelRead, CancelAudit, RetryRead, RetryRollback, RetryReadback, RetryAudit,
                ApproveAudit, PausePayouts, PauseAudit, ResumePayouts, ResumeAudit, AuditAndFinish,
                AuditStep, dbVars
  <2>2. QED BY <2>1, NoMoneyStep DEF NoMoney, Exists
<1>6. QED BY <1>1, <1>2, <1>3, <1>4, <1>5

LEMMA NextMoney == MoneyInv /\ [Next]_vars => MoneyInv'
<1> SUFFICES ASSUME MoneyInv, [Next]_vars PROVE MoneyInv'
  OBVIOUS
<1>i. SettlingInv' BY NextSettling DEF MoneyInv
<1>1. CASE \E p \in Procs : Run(p)
  BY <1>1, <1>i, CreateMoney, SignMoney, SubmitMoney, ReconcileMoney, OperatorMoney DEF Run
<1>2. CASE \E k \in Blocks : CreditBlock(k)
  <2>1. PICK k \in Blocks : CreditBlock(k) BY <1>2
  <2>2. TypeOK BY DEF MoneyInv, SettlingInv, SigningInv
  <2>3. \A m \in Miners : MoneyOf(m)' BY <2>1, <2>2, MoneyCredited DEF MoneyInv
  <2>4. \A e \in ledger' : e \in ledger \/ e.ref = BlockRef(k) BY <2>1 DEF CreditBlock, Entry
  <2>5. \A b \in Batches : BatchRef(b) # BlockRef(k) BY DEF BatchRef, BlockRef
  <2>6. \A b \in Batches : Exists(b)' = Exists(b) BY <2>1 DEF Exists, CreditBlock
  <2>7. NoEarlyRows' BY <2>4, <2>5, <2>6 DEF MoneyInv, NoEarlyRows, BatchRef
  <2>8. QED BY <1>i, <2>3, <2>7 DEF MoneyInv
<1>3. CASE \/ \E p \in Procs : Crash(p)
           \/ \E b \in Batches : NodeReceives(b) \/ NodeDecides(b)
           \/ NewDay
           \/ UNCHANGED vars
  <2>1. UNCHANGED <<ledger, balance, amount, status>>
    BY <1>3 DEF Crash, NodeReceives, NodeDecides, NewDay, vars, dbVars
  <2>2. QED BY <1>i, <2>1, NoMoneyStep DEF NoMoney, Exists
<1>4. QED BY <1>1, <1>2, <1>3 DEF Next

LEMMA InitMoney == Init => MoneyInv
<1> SUFFICES ASSUME Init PROVE MoneyInv
  OBVIOUS
<1>1. NoEarlyRows BY DEF Init, NoEarlyRows
<1>2. ASSUME NEW m \in Miners PROVE MoneyOf(m)
  <2>1. \A kind : RowsOf(m, kind) = {} BY DEF Init, RowsOf
  <2>2. TotalOf({}) = 0 BY SumEmpty DEF TotalOf
  <2>3. \A kind : LedgerTotal(m, kind) = 0 BY <2>1, <2>2 DEF LedgerTotal
  <2>4. Open(m) = {} /\ Spent(m) = {} BY DEF Init, Open, Spent, Exists
  <2>5. \A k \in Buckets : balance[m][k] = 0 BY <1>2 DEF Init, EmptyBalance
  <2>6. RowsFinite(m) BY <2>1, FS_EmptySet DEF RowsFinite
  <2>7. CacheOf(m) BY <2>3, <2>5 DEF CacheOf, Buckets
  <2>8. FundsOf(m) BY <2>3, <2>4, <2>5, SumEmpty DEF FundsOf, Buckets
  <2>9. QED BY <2>6, <2>7, <2>8 DEF MoneyOf
<1>3. QED BY <1>1, <1>2, InitSettling DEF MoneyInv

LEMMA MoneyInvariant == Spec => []MoneyInv
BY InitMoney, NextMoney, PTL DEF Spec

\* Every cached balance is what the ledger rows add up to, so that no
\* greatest(.., 0) of append_ledger_entries ever cuts an amount short: for any
\* number of miners and batches, however runs overlap and die, and whatever the
\* operator cancels or retries.
THEOREM BalancesAreSums == Spec => []CacheRecomputable
<1>1. MoneyInv => CacheRecomputable BY DEF MoneyInv, MoneyOf, CacheOf, CacheRecomputable
<1>2. QED BY <1>1, MoneyInvariant, PTL

\* What the chain paid a miner and what the pool would still pay it never exceed
\* what the miner earned, if operators cancel the way the "drained" policy says.
THEOREM NobodyIsPaidTwice == CancelPolicy = "drained" => (Spec => []NoDoublePay)
<1> SUFFICES ASSUME CancelPolicy = "drained" PROVE Spec => []NoDoublePay
  OBVIOUS
<1>1. MoneyInv /\ QuietInv => NoDoublePay
  <2> SUFFICES ASSUME MoneyInv, QuietInv, NEW m \in Miners
               PROVE  balance[m]["confirmed"] + PaidOnChain(m) <= LedgerTotal(m, "reward_mature")
    BY DEF NoDoublePay
  <2>t. TypeOK BY DEF MoneyInv, SettlingInv, SigningInv
  <2> DEFINE Mined == {b \in Batches : tx[b] = "confirmed"}
  <2>1. ASSUME NEW b \in Mined PROVE b \in Spent(m)
    <3>1. BatchInv(b) /\ (status[b] = "cancelled" => tx[b] = "none")
      BY DEF QuietInv, SettlingInv, CancelledUnsent
    <3>2. ~Untouched(b) BY DEF Untouched
    <3>3. status[b] \notin {"none", "failed", "cancelled"} BY <3>1, <3>2 DEF BatchInv
    <3>4. ~HasRow(b, "payout_failed_unlock") BY <3>1, <3>3 DEF BatchInv
    <3>5. QED BY <3>3, <3>4 DEF Spent, Exists, Booked, HasRow
  <2>2. Mined \in SUBSET Spent(m) BY <2>1
  <2>3. Spent(m) \in SUBSET Batches /\ Mined \in SUBSET Batches BY DEF Spent
  <2>4. PaidOnChain(m) = SumFunctionOnSet(Pays(m), Mined) BY DEF PaidOnChain, Pays
  <2> HIDE DEF Mined
  <2>5. SumFunctionOnSet(Pays(m), Mined) <= SumFunctionOnSet(Pays(m), Spent(m))
    BY <2>t, <2>2, <2>3, MoneyTypes, SumPart
  <2>6. /\ SumFunctionOnSet(Pays(m), Mined) \in Nat /\ SumFunctionOnSet(Pays(m), Spent(m)) \in Nat
        /\ balance[m]["confirmed"] \in Nat
    BY <2>t, <2>3, MoneyTypes DEF Buckets
  <2>7. balance[m]["confirmed"] + SumFunctionOnSet(Pays(m), Spent(m)) = LedgerTotal(m, "reward_mature")
    BY DEF MoneyInv, MoneyOf, FundsOf
  <2>8. QED BY <2>4, <2>5, <2>6, <2>7
<1>2. QED BY <1>1, MoneyInvariant, QuietInvariant, PTL

-----------------------------------------------------------------------------
(***************************************************************************)
(* The daily cap.  It is checked against a total read before, so it holds  *)
(* only while one process at a time creates batches, as the timer does,    *)
(* and no operator retries one, which passes no cap.                       *)
(***************************************************************************)
OneCreator ==
  /\ IsFiniteSet(Miners)
  /\ \A p, q \in Procs : "create" \in MayRun[p] /\ "create" \in MayRun[q] => p = q
  /\ \A p \in Procs : "retry" \notin MayRun[p]

\* The batches that count against today's cap, and what each of them pays.
Live == {"needs_approval", "created", "signed", "submitted", "confirmed"}
Active == today \cap WithStatus(Live)
Totals == [b \in Batches |-> SumFunction(amount[b])]

CreatorPcs == {"cr_daily", "cr_select", "cr_insert"}

\* Only the creator is at these labels, and nobody retries.
OnlyCreator ==
  \A p \in Procs : /\ pc[p] \in CreatorPcs => "create" \in MayRun[p]
                   /\ pc[p] # "rt_insert"

\* The total the creator has read is not below the real one, and its draft fits
\* under the cap.
DraftFits ==
  \A p \in Procs :
    /\ pc[p] = "cr_select" => active_payout_total_today <= used[p]
    /\ pc[p] = "cr_insert" => active_payout_total_today + SumFunction(draft[p]) <= MaxDaily

CapInv == TypeOK /\ used \in [Procs -> Nat] /\ OnlyCreator /\ DraftFits /\ DailyCap

LEMMA AmountsAddUp ==
  ASSUME IsFiniteSet(Miners), NEW f \in [Miners -> Nat]
  PROVE  SumFunction(f) \in Nat
<1>1. DOMAIN f = Miners /\ Counts(f, Miners) BY DEF Counts
<1>2. QED BY <1>1, SumType DEF SumFunction

LEMMA ActiveTypes ==
  ASSUME TypeOK, IsFiniteSet(Miners)
  PROVE  /\ active_payout_total_today = SumFunctionOnSet(Totals, Active)
         /\ \A b \in Batches : Totals[b] = SumFunction(amount[b])
         /\ \A S \in SUBSET Batches :
              IsFiniteSet(S) /\ Counts(Totals, S) /\ SumFunctionOnSet(Totals, S) \in Nat
         /\ Active \in SUBSET Batches
         /\ active_payout_total_today \in Nat
<1>1. active_payout_total_today = SumFunctionOnSet(Totals, Active)
  BY DEF active_payout_total_today, Totals, Active, Live
<1>2. \A b \in Batches : Totals[b] = SumFunction(amount[b]) /\ Totals[b] \in Nat
  BY AmountsAddUp DEF Totals, TypeOK, StoreType
<1>3. IsFiniteSet(Batches) BY PayoutsAssumption, FS_Interval DEF Batches
<1>4. ASSUME NEW S \in SUBSET Batches
      PROVE  IsFiniteSet(S) /\ Counts(Totals, S) /\ SumFunctionOnSet(Totals, S) \in Nat
  <2>1. IsFiniteSet(S) BY <1>3, FS_Subset
  <2>2. Counts(Totals, S) BY <1>2 DEF Counts
  <2>3. QED BY <2>1, <2>2, SumType
<1>5. Active \in SUBSET Batches BY DEF Active, WithStatus
<1>6. QED BY <1>1, <1>2, <1>4, <1>5

\* Batches that leave the day, fail or are cancelled only lower the total.
LEMMA TotalShrinks ==
  ASSUME TypeOK, IsFiniteSet(Miners), Active' \subseteq Active, amount' = amount
  PROVE  active_payout_total_today' <= active_payout_total_today
<1>1. Totals' = Totals BY DEF Totals
<1>2. active_payout_total_today' = SumFunctionOnSet(Totals', Active')
  BY DEF active_payout_total_today, Totals, Active, Live, WithStatus
<1>3. Active \in SUBSET Batches /\ IsFiniteSet(Active) /\ Counts(Totals, Active) BY ActiveTypes
<1>4. SumFunctionOnSet(Totals, Active') <= SumFunctionOnSet(Totals, Active)
  <2> DEFINE T == Active'
  <2> HIDE DEF T
  <2>1. T \in SUBSET Active BY DEF T
  <2>2. SumFunctionOnSet(Totals, T) <= SumFunctionOnSet(Totals, Active) BY <1>3, <2>1, SumPart
  <2>3. QED BY <2>2 DEF T
<1>5. QED BY <1>1, <1>2, <1>4, ActiveTypes

\* A step that lowers the total, or leaves it, and moves no run to a place
\* where more is asked of it.
LEMMA CapKept ==
  ASSUME OneCreator, CapInv, TypeOK', NEW p,
         active_payout_total_today' <= active_payout_total_today,
         used' \in [Procs -> Nat],
         \A q \in Procs \ {p} : pc'[q] = pc[q] /\ used'[q] = used[q] /\ draft'[q] = draft[q],
         p \in Procs => /\ pc'[p] \in CreatorPcs => pc'[p] = "cr_daily" /\ "create" \in MayRun[p]
                        /\ pc'[p] # "rt_insert"
  PROVE  CapInv'
<1>f. IsFiniteSet(Miners) BY DEF OneCreator
<1>t. TypeOK BY DEF CapInv
<1>n. active_payout_total_today \in Nat BY <1>f, <1>t, ActiveTypes
<1>m. active_payout_total_today' \in Nat
  <2>1. active_payout_total_today' = SumFunctionOnSet(Totals', Active')
    BY DEF active_payout_total_today, Totals, Active, Live, WithStatus
  <2>2. \A b \in Batches : amount'[b] \in [Miners -> Nat] BY DEF TypeOK, StoreType
  <2>3. \A b \in Batches : SumFunction(amount'[b]) \in Nat BY <1>f, <2>2, AmountsAddUp
  <2>4. \A b \in Batches : Totals'[b] = SumFunction(amount'[b]) BY DEF Totals
  <2>5. Active' \subseteq Batches BY DEF Active, WithStatus
  <2>6. IsFiniteSet(Batches) BY PayoutsAssumption, FS_Interval DEF Batches
  <2>7. IsFiniteSet(Active') BY <2>5, <2>6, FS_Subset
  <2>8. Counts(Totals', Active') BY <2>3, <2>4, <2>5 DEF Counts
  <2>9. SumFunctionOnSet(Totals', Active') \in Nat BY <2>7, <2>8, SumType
  <2>10. QED BY <2>1, <2>9
<1>1. OnlyCreator' BY DEF CapInv, OnlyCreator
<1>2. ASSUME NEW q \in Procs, pc'[q] = "cr_select" PROVE active_payout_total_today' <= used'[q]
  <2>1. q # p BY <1>2 DEF CreatorPcs
  <2>2. active_payout_total_today <= used[q] /\ used[q] \in Nat /\ used'[q] = used[q]
    BY <1>2, <2>1 DEF CapInv, DraftFits
  <2>3. QED BY <1>n, <1>m, <2>2
<1>3. ASSUME NEW q \in Procs, pc'[q] = "cr_insert"
      PROVE  active_payout_total_today' + SumFunction(draft'[q]) <= MaxDaily
  <2>1. q # p BY <1>3 DEF CreatorPcs
  <2>2. /\ active_payout_total_today + SumFunction(draft[q]) <= MaxDaily /\ draft'[q] = draft[q]
    BY <1>3, <2>1 DEF CapInv, DraftFits
  <2>3. SumFunction(draft[q]) \in Nat BY <1>f, <1>t, AmountsAddUp DEF TypeOK, RunType
  <2>4. QED BY <1>n, <1>m, <2>2, <2>3, PayoutsAssumption
<1>4. DailyCap' BY <1>n, <1>m, PayoutsAssumption DEF CapInv, DailyCap
<1>5. QED BY <1>1, <1>2, <1>3, <1>4 DEF CapInv, DraftFits

\* How the locals of the other runs stay as they are.
LEMMA RunMoves ==
  ASSUME CapInv, NEW p \in Procs,
         \/ Finish(p)
         \/ \E label : Continue(p, label) /\ label \notin CreatorPcs \cup {"rt_insert"}
         \/ \E b, label : (Take(p, b, label) \/ TakeNext(p, b, label)) /\ label \notin CreatorPcs \cup {"rt_insert"}
         \/ \E label : /\ Goto(p, label) /\ label \notin CreatorPcs \cup {"rt_insert"}
                       /\ UNCHANGED <<used, draft>>
  PROVE  /\ used' \in [Procs -> Nat]
         /\ \A q \in Procs \ {p} : pc'[q] = pc[q] /\ used'[q] = used[q] /\ draft'[q] = draft[q]
         /\ pc'[p] \notin CreatorPcs /\ pc'[p] # "rt_insert"
BY DEF CapInv, TypeOK, RunType, Finish, Continue, Goto, Take, TakeNext, CreatorPcs

\* A guarded update of the status column brings no batch back to life.
LEMMA UpdateShrinks ==
  ASSUME TypeOK, NEW b, NEW from, NEW new, UpdateStatus(b, from, new), from \subseteq Live, today' = today
  PROVE  Active' \subseteq Active
BY DEF TypeOK, StoreType, UpdateStatus, Active, WithStatus

LEMMA SameActive ==
  ASSUME UNCHANGED <<status, today>>
  PROVE  Active' \subseteq Active
BY DEF Active, WithStatus

LEMMA InsertFits ==
  ASSUME OneCreator, CapInv, TypeOK', NEW p \in Procs, CreateInsert(p)
  PROVE  CapInv'
<1>f. IsFiniteSet(Miners) BY DEF OneCreator
<1>t. TypeOK BY DEF CapInv
<1>1. PICK b \in Batches : /\ FreshBatch(b) /\ Take(p, b, "cr_audit")
                           /\ create_locked_payout_batch(b, draft[p], InitialStatus(draft[p]))
  BY DEF CreateInsert
<1>2. draft[p] \in [Miners -> Nat] /\ SumFunction(draft[p]) \in Nat
  BY <1>f, <1>t, AmountsAddUp DEF TypeOK, RunType
<1>3. /\ Active \subseteq Active' /\ Active' \subseteq Active \cup {b} /\ b \notin Active
  BY <1>1, <1>t DEF create_locked_payout_batch, FreshBatch, Active, WithStatus, Live, TypeOK, StoreType
<1>4. b \in Active'
  <2>1. status'[b] \in Live /\ b \in today' BY <1>1, <1>t
      DEF create_locked_payout_batch, InitialStatus, Live, TypeOK, StoreType
  <2>2. QED BY <2>1 DEF Active, WithStatus
<1>5. Active' = Active \cup {b} BY <1>3, <1>4
<1>6. /\ Totals'[b] = SumFunction(draft[p])
      /\ \A c \in Active : Totals'[c] = Totals[c]
  <2>1. amount'[b] = draft[p] /\ \A c \in Batches \ {b} : amount'[c] = amount[c]
    BY <1>1, <1>t DEF create_locked_payout_batch, TypeOK, StoreType
  <2>2. Active \subseteq Batches BY DEF Active, WithStatus
  <2>3. QED BY <1>3, <2>1, <2>2 DEF Totals
<1>7. active_payout_total_today' = SumFunction(draft[p]) + active_payout_total_today
  <2>1. IsFiniteSet(Active) /\ Counts(Totals, Active) BY <1>f, <1>t, ActiveTypes
  <2>2. Counts(Totals', Active \cup {b}) BY <1>2, <1>6, <2>1 DEF Counts
  <2>3. SumFunctionOnSet(Totals', Active \cup {b}) = Totals'[b] + SumFunctionOnSet(Totals', Active)
    BY <1>3, <2>1, <2>2, SumAdd
  <2>4. SumFunctionOnSet(Totals', Active) = SumFunctionOnSet(Totals, Active) BY <1>6, <2>1, SumSame
  <2>5. active_payout_total_today' = SumFunctionOnSet(Totals', Active')
    BY DEF active_payout_total_today, Totals, Active, Live, WithStatus
  <2>6. QED BY <1>5, <1>6, <2>3, <2>4, <2>5, <1>f, <1>t, ActiveTypes
<1>8. pc[p] = "cr_insert" BY DEF CreateInsert, At
<1>9. DailyCap'
  <2>1. active_payout_total_today + SumFunction(draft[p]) <= MaxDaily BY <1>8 DEF CapInv, DraftFits
  <2>2. active_payout_total_today \in Nat BY <1>f, <1>t, ActiveTypes
  <2>3. QED BY <1>2, <1>7, <2>1, <2>2, PayoutsAssumption DEF DailyCap
<1>10. /\ used' = used /\ pc'[p] = "cr_audit" /\ \A q \in Procs \ {p} : pc'[q] = pc[q]
  BY <1>1, <1>t DEF Take, Goto, TypeOK, RunType
<1>11. \A q \in Procs : pc'[q] \notin CreatorPcs \/ pc'[q] = "cr_daily"
  <2>1. "create" \in MayRun[p] BY <1>8 DEF CapInv, OnlyCreator, CreatorPcs
  <2>2. \A q \in Procs \ {p} : pc[q] \notin CreatorPcs BY <2>1 DEF OneCreator, CapInv, OnlyCreator
  <2>3. QED BY <1>10, <2>2 DEF CreatorPcs
<1>12. OnlyCreator' BY <1>10 DEF CapInv, OnlyCreator, CreatorPcs
<1>13. DraftFits' BY <1>11 DEF DraftFits, CreatorPcs
<1>14. QED BY <1>9, <1>10, <1>12, <1>13 DEF CapInv

LEMMA CreateCapped ==
  ASSUME OneCreator, CapInv, TypeOK', NEW p \in Procs, Create(p)
  PROVE  CapInv'
<1>f. IsFiniteSet(Miners) BY DEF OneCreator
<1>t. TypeOK BY DEF CapInv
<1>n. active_payout_total_today \in Nat BY <1>f, <1>t, ActiveTypes
<1>1. CASE CreateInsert(p) BY <1>1, InsertFits
<1>2. CASE CreateStart(p)
  <2>1. active_payout_total_today' <= active_payout_total_today
    BY <1>2, <1>f, <1>t, SameActive, TotalShrinks DEF CreateStart, dbVars
  <2>2. /\ used' = used /\ pc'[p] = "cr_daily" /\ "create" \in MayRun[p]
        /\ \A q \in Procs \ {p} : pc'[q] = pc[q] /\ draft'[q] = draft[q]
    BY <1>2, <1>t DEF CreateStart, Start, Continue, Goto, TypeOK, RunType
  <2>3. QED BY <2>1, <2>2, CapKept DEF CapInv
<1>3. CASE CreateReadDaily(p)
  <2>1. /\ UNCHANGED <<status, today, amount, draft>> /\ pc' = [pc EXCEPT ![p] = "cr_select"]
        /\ used' = [used EXCEPT ![p] = active_payout_total_today] /\ pc[p] = "cr_daily"
    BY <1>3 DEF CreateReadDaily, Goto, dbVars, At
  <2>2. active_payout_total_today' = active_payout_total_today
    BY <2>1 DEF active_payout_total_today, WithStatus
  <2>3. used' \in [Procs -> Nat] BY <1>n, <2>1 DEF CapInv
  <2>4. OnlyCreator' BY <2>1, <1>t DEF CapInv, OnlyCreator, CreatorPcs, TypeOK, RunType
  <2>5. pc \in [Procs -> Pcs] /\ used \in [Procs -> Nat] BY <1>t DEF CapInv, TypeOK, RunType
  <2>6. DraftFits'
    <3>1. ASSUME NEW q \in Procs, pc'[q] = "cr_select" PROVE active_payout_total_today' <= used'[q]
      <4>1. CASE q = p BY <1>n, <2>1, <2>2, <2>5, <4>1
      <4>2. CASE q # p BY <2>1, <2>2, <2>5, <3>1, <4>2 DEF CapInv, DraftFits
      <4>3. QED BY <4>1, <4>2
    <3>2. ASSUME NEW q \in Procs, pc'[q] = "cr_insert"
          PROVE  active_payout_total_today' + SumFunction(draft'[q]) <= MaxDaily
      <4>1. q # p BY <2>1, <2>5, <3>2
      <4>2. QED BY <2>1, <2>2, <2>5, <3>2, <4>1 DEF CapInv, DraftFits
    <3>3. QED BY <3>1, <3>2 DEF DraftFits
  <2>7. DailyCap' BY <2>2 DEF CapInv, DailyCap
  <2>8. QED BY <2>3, <2>4, <2>6, <2>7 DEF CapInv
<1>4. CASE CreateSelect(p)
  <2>1. /\ UNCHANGED <<status, today, amount, used>> /\ pc' = [pc EXCEPT ![p] = "cr_insert"]
        /\ draft' = [draft EXCEPT ![p] = select_payouts] /\ pc[p] = "cr_select"
        /\ WithinCaps(p)
    BY <1>4 DEF CreateSelect, Goto, dbVars, At
  <2>2. active_payout_total_today' = active_payout_total_today
    BY <2>1 DEF active_payout_total_today, WithStatus
  <2>3. select_payouts \in [Miners -> Nat]
    BY <1>t DEF select_payouts, TypeOK, StoreType, Balance, Buckets
  <2>4. SumFunction(select_payouts) \in Nat BY <1>f, <2>3, AmountsAddUp
  <2>5. used[p] \in Nat /\ active_payout_total_today <= used[p] BY <2>1 DEF CapInv, DraftFits
  <2>6. active_payout_total_today + SumFunction(select_payouts) <= MaxDaily
    BY <1>n, <2>1, <2>4, <2>5, PayoutsAssumption DEF WithinCaps
  <2>7. OnlyCreator' BY <2>1, <1>t DEF CapInv, OnlyCreator, CreatorPcs, TypeOK, RunType
  <2>8. pc \in [Procs -> Pcs] /\ draft \in [Procs -> [Miners -> Nat]] BY <1>t DEF TypeOK, RunType
  <2>9. DraftFits'
    <3>1. ASSUME NEW q \in Procs, pc'[q] = "cr_select" PROVE active_payout_total_today' <= used'[q]
      BY <2>1, <2>2, <2>8, <3>1 DEF CapInv, DraftFits
    <3>2. ASSUME NEW q \in Procs, pc'[q] = "cr_insert"
          PROVE  active_payout_total_today' + SumFunction(draft'[q]) <= MaxDaily
      <4>1. CASE q = p
        <5>1. draft'[q] = select_payouts BY <2>1, <2>8, <4>1
        <5>2. QED BY <2>2, <2>6, <5>1
      <4>2. CASE q # p
        <5>1. draft'[q] = draft[q] /\ pc[q] = "cr_insert" BY <2>1, <2>8, <3>2, <4>2
        <5>2. QED BY <2>2, <5>1 DEF CapInv, DraftFits
      <4>3. QED BY <4>1, <4>2
    <3>3. QED BY <3>1, <3>2 DEF DraftFits
  <2>10. DailyCap' BY <2>2 DEF CapInv, DailyCap
  <2>11. QED BY <2>1, <2>7, <2>9, <2>10 DEF CapInv
<1>5. CASE CreateSkip(p) \/ CreateRollback(p) \/ CreateAudit(p)
  <2>1. Finish(p) /\ UNCHANGED <<status, today, amount>>
    BY <1>5 DEF CreateSkip, CreateRollback, CreateAudit, AuditAndFinish, AuditStep, dbVars
  <2>2. active_payout_total_today' <= active_payout_total_today
    BY <2>1, <1>f, <1>t, SameActive, TotalShrinks
  <2>3. QED BY <2>1, <2>2, RunMoves, CapKept DEF CreatorPcs
<1>6. QED BY <1>1, <1>2, <1>3, <1>4, <1>5 DEF Create

\* The workers' other steps: what a run of p may have done to the batches, and
\* where it stands after the step.
LEMMA SignCapped ==
  ASSUME OneCreator, CapInv, TypeOK', NEW p \in Procs, Sign(p)
  PROVE  CapInv'
<1>f. IsFiniteSet(Miners) BY DEF OneCreator
<1>t. TypeOK BY DEF CapInv
<1>1. \/ Finish(p)
      \/ \E label : Continue(p, label) /\ label \notin CreatorPcs \cup {"rt_insert"}
      \/ \E b, label : Take(p, b, label) /\ label \notin CreatorPcs \cup {"rt_insert"}
  <2>1. CASE SignMark(p)
    <3>1. PICK label \in {"sg_audit", "sg_commit"} : Continue(p, label) BY <2>1 DEF SignMark
    <3>2. QED BY <3>1 DEF CreatorPcs
  <2>2. CASE SignCheckInflight(p)
    <3>1. PICK label \in {"sg_list", "sg_commit"} : Continue(p, label) BY <2>2 DEF SignCheckInflight
    <3>2. QED BY <3>1 DEF CreatorPcs
  <2>3. CASE SignList(p)
    <3>1. CASE Continue(p, "sg_commit") BY <3>1 DEF CreatorPcs
    <3>2. CASE \E b : Take(p, b, "sg_call") BY <3>2 DEF CreatorPcs
    <3>3. QED BY <2>3, <3>1, <3>2 DEF SignList
  <2>4. CASE SignCommit(p) BY <2>4 DEF SignCommit
  <2>5. CASE \/ SignStart(p) \/ SignLock(p) \/ SignCall(p) \/ SignAudit(p) \/ SignFail(p)
             \/ SignUnlock(p) \/ SignFailAudit(p)
    <3>1. PICK label \in SignPcs : Continue(p, label)
      BY <2>5 DEF SignStart, Start, SignLock, SignCall, SignAudit, SignFail, SignUnlock, SignFailAudit,
                  AuditAndContinue, FailMark, FailUnlock, SignPcs
    <3>2. QED BY <3>1 DEF CreatorPcs, SignPcs
  <2>6. QED BY <2>1, <2>2, <2>3, <2>4, <2>5 DEF Sign
<1>2. Active' \subseteq Active /\ amount' = amount
  <2>1. CASE SignMark(p)
    <3>1. UpdateStatus(cur[p], {"created"}, "signed") /\ UNCHANGED <<amount, today>>
      BY <2>1 DEF SignMark, mark_payout_signed
    <3>2. QED BY <3>1, <1>t, UpdateShrinks DEF Live
  <2>2. CASE SignFail(p)
    <3>1. /\ UpdateStatus(cur[p], {"needs_approval", "created"} \cup Inflight, "failed")
          /\ UNCHANGED <<amount, today>>
      BY <2>2 DEF SignFail, FailMark, mark_payout_failed
    <3>2. QED BY <3>1, <1>t, UpdateShrinks DEF Live, Inflight
  <2>3. CASE ~SignMark(p) /\ ~SignFail(p)
    <3>1. UNCHANGED <<status, today, amount>>
      BY <2>3 DEF Sign, SignStart, SignLock, SignCheckInflight, SignList, SignCall, SignAudit,
                  SignUnlock, SignFailAudit, SignCommit, AuditAndContinue, AuditStep, FailUnlock, dbVars
    <3>2. QED BY <3>1, SameActive
  <2>4. QED BY <2>1, <2>2, <2>3
<1>3. QED BY <1>f, <1>t, <1>1, <1>2, RunMoves, TotalShrinks, CapKept

LEMMA SubmitCapped ==
  ASSUME OneCreator, CapInv, TypeOK', NEW p \in Procs, Submit(p)
  PROVE  CapInv'
<1>f. IsFiniteSet(Miners) BY DEF OneCreator
<1>t. TypeOK BY DEF CapInv
<1>1. \/ Finish(p)
      \/ \E label : Continue(p, label) /\ label \notin CreatorPcs \cup {"rt_insert"}
      \/ \E b, label : TakeNext(p, b, label) /\ label \notin CreatorPcs \cup {"rt_insert"}
      \/ \E label : /\ Goto(p, label) /\ label \notin CreatorPcs \cup {"rt_insert"}
                    /\ UNCHANGED <<used, draft>>
  <2>1. CASE SubmitMark(p) \/ SubmitMarkPrior(p)
    <3>1. PICK label \in {"sb_audit", "sb_prioraudit", "sb_call"} : Continue(p, label)
      BY <2>1 DEF SubmitMark, SubmitMarkPrior, SubmitMarkAs
    <3>2. QED BY <3>1 DEF CreatorPcs
  <2>2. CASE SubmitList(p) BY <2>2 DEF SubmitList, ListBatches, CreatorPcs
  <2>3. CASE SubmitEnd(p) BY <2>3 DEF SubmitEnd, EndOfList
  <2>4. CASE SubmitAccepted(p) \/ SubmitAmbiguous(p) \/ SubmitUncertain(p)
    <3>1. PICK b \in Batches, label \in {"sb_mark", "sb_prior", "sb_defer"} : TakeNext(p, b, label)
      BY <2>4 DEF SubmitAccepted, SubmitAmbiguous, SubmitUncertain
    <3>2. QED BY <3>1 DEF CreatorPcs
  <2>5. CASE SubmitStart(p) \/ SubmitAudit(p) \/ SubmitPriorAudit(p) \/ SubmitDefer(p)
    <3>1. PICK label \in SubmitPcs : Continue(p, label)
      BY <2>5 DEF SubmitStart, Start, SubmitAudit, SubmitPriorAudit, SubmitDefer, AuditAndContinue,
                  SubmitPcs
    <3>2. QED BY <3>1 DEF CreatorPcs, SubmitPcs
  <2>6. QED BY <2>1, <2>2, <2>3, <2>4, <2>5 DEF Submit
<1>2. Active' \subseteq Active /\ amount' = amount
  <2>1. CASE SubmitMark(p) \/ SubmitMarkPrior(p)
    <3>1. UpdateStatus(cur[p], Inflight, "submitted") /\ UNCHANGED <<amount, today>>
      BY <2>1 DEF SubmitMark, SubmitMarkPrior, SubmitMarkAs, mark_payout_submitted
    <3>2. QED BY <3>1, <1>t, UpdateShrinks DEF Live, Inflight
  <2>2. CASE ~SubmitMark(p) /\ ~SubmitMarkPrior(p)
    <3>1. UNCHANGED <<status, today, amount>>
      BY <2>2 DEF Submit, SubmitStart, SubmitList, SubmitEnd, SubmitAccepted, SubmitAmbiguous,
                  SubmitUncertain, SubmitAudit, SubmitPriorAudit, SubmitDefer, AuditAndContinue,
                  AuditStep, ListBatches, EndOfList, dbVars
    <3>2. QED BY <3>1, SameActive
  <2>3. QED BY <2>1, <2>2
<1>3. QED BY <1>f, <1>t, <1>1, <1>2, RunMoves, TotalShrinks, CapKept

LEMMA ReconcileCapped ==
  ASSUME OneCreator, CapInv, TypeOK', NEW p \in Procs, Reconcile(p)
  PROVE  CapInv'
<1>f. IsFiniteSet(Miners) BY DEF OneCreator
<1>t. TypeOK BY DEF CapInv
<1>1. \/ Finish(p)
      \/ \E label : Continue(p, label) /\ label \notin CreatorPcs \cup {"rt_insert"}
      \/ \E b, label : TakeNext(p, b, label) /\ label \notin CreatorPcs \cup {"rt_insert"}
      \/ \E label : /\ Goto(p, label) /\ label \notin CreatorPcs \cup {"rt_insert"}
                    /\ UNCHANGED <<used, draft>>
  <2>1. CASE ReconcileList(p) BY <2>1 DEF ReconcileList, ListBatches, CreatorPcs
  <2>2. CASE ReconcileEnd(p) BY <2>2 DEF ReconcileEnd, EndOfList
  <2>3. CASE ReconcileQuery(p)
    <3>1. PICK b \in Batches, label \in {"rc_confirm", "rc_fail", "rc_query"} : TakeNext(p, b, label)
      BY <2>3 DEF ReconcileQuery
    <3>2. QED BY <3>1 DEF CreatorPcs
  <2>4. CASE \/ ReconcileStart(p) \/ ReconcileConfirm(p) \/ ReconcilePay(p) \/ ReconcileAudit(p)
             \/ ReconcileFail(p) \/ ReconcileUnlock(p) \/ ReconcileFailAudit(p)
    <3>1. PICK label \in {"rc_list", "rc_pay", "rc_audit", "rc_query", "rc_unlock", "rc_failaudit"} :
            Continue(p, label)
      BY <2>4 DEF ReconcileStart, Start, ReconcileConfirm, ReconcilePay, ReconcileAudit, ReconcileFail,
                  ReconcileUnlock, ReconcileFailAudit, AuditAndContinue, FailMark, FailUnlock
    <3>2. QED BY <3>1 DEF CreatorPcs
  <2>5. QED BY <2>1, <2>2, <2>3, <2>4 DEF Reconcile
<1>2. Active' \subseteq Active /\ amount' = amount
  <2>1. CASE ReconcileConfirm(p)
    <3>1. UpdateStatus(cur[p], Inflight, "confirmed") /\ UNCHANGED <<amount, today>>
      BY <2>1 DEF ReconcileConfirm, mark_payout_confirmed
    <3>2. QED BY <3>1, <1>t, UpdateShrinks DEF Live, Inflight
  <2>2. CASE ReconcileFail(p)
    <3>1. /\ UpdateStatus(cur[p], {"needs_approval", "created"} \cup Inflight, "failed")
          /\ UNCHANGED <<amount, today>>
      BY <2>2 DEF ReconcileFail, FailMark, mark_payout_failed
    <3>2. QED BY <3>1, <1>t, UpdateShrinks DEF Live, Inflight
  <2>3. CASE ~ReconcileConfirm(p) /\ ~ReconcileFail(p)
    <3>1. UNCHANGED <<status, today, amount>>
      BY <2>3 DEF Reconcile, ReconcileStart, ReconcileList, ReconcileEnd, ReconcileQuery, ReconcilePay,
                  ReconcileAudit, ReconcileUnlock, ReconcileFailAudit, AuditAndContinue, AuditStep,
                  FailUnlock, ListBatches, EndOfList, dbVars
    <3>2. QED BY <3>1, SameActive
  <2>4. QED BY <2>1, <2>2, <2>3
<1>3. QED BY <1>f, <1>t, <1>1, <1>2, RunMoves, TotalShrinks, CapKept

LEMMA OperatorCapped ==
  ASSUME OneCreator, CapInv, TypeOK', NEW p \in Procs, Operator(p)
  PROVE  CapInv'
<1>f. IsFiniteSet(Miners) BY DEF OneCreator
<1>t. TypeOK BY DEF CapInv
<1>r. ~RetryRead(p) /\ ~RetryInsert(p) /\ ~RetryRollback(p)
  BY DEF OneCreator, CapInv, OnlyCreator, RetryRead, RetryInsert, RetryRollback, At
<1>1. \/ Finish(p)
      \/ \E label : Continue(p, label) /\ label \notin CreatorPcs \cup {"rt_insert"}
      \/ \E b, label : Take(p, b, label) /\ label \notin CreatorPcs \cup {"rt_insert"}
  <2>1. CASE CancelUpdate(p)
    <3>1. CASE Finish(p) BY <3>1
    <3>2. CASE Continue(p, "cn_unlock") BY <3>2 DEF CreatorPcs
    <3>3. QED BY <2>1, <3>1, <3>2 DEF CancelUpdate
  <2>2. CASE RetryReadback(p)
    <3>1. CASE Finish(p) BY <3>1
    <3>2. CASE Continue(p, "rt_audit") BY <3>2 DEF CreatorPcs
    <3>3. QED BY <2>2, <3>1, <3>2 DEF RetryReadback
  <2>3. CASE CancelRead(p) \/ Approve(p)
    <3>1. PICK b \in Batches, label \in {"cn_update", "ap_audit"} : Take(p, b, label)
      BY <2>3 DEF CancelRead, Approve, WithStatus
    <3>2. QED BY <3>1 DEF CreatorPcs
  <2>4. CASE CancelAudit(p) \/ RetryAudit(p) \/ ApproveAudit(p) \/ PauseAudit(p) \/ ResumeAudit(p)
    BY <2>4 DEF CancelAudit, RetryAudit, ApproveAudit, PauseAudit, ResumeAudit, AuditAndFinish
  <2>5. CASE CancelUnlock(p) \/ PausePayouts(p) \/ ResumePayouts(p)
    <3>1. PICK label \in {"cn_audit", "ps_audit", "rs_audit"} : Continue(p, label)
      BY <2>5 DEF CancelUnlock, FailUnlock, PausePayouts, ResumePayouts, Start
    <3>2. QED BY <3>1 DEF CreatorPcs
  <2>6. QED BY <1>r, <2>1, <2>2, <2>3, <2>4, <2>5 DEF Operator
<1>2. Active' \subseteq Active /\ amount' = amount
  <2>1. CASE CancelUpdate(p)
    <3>1. UpdateStatus(cur[p], Cancellable, "cancelled") /\ UNCHANGED <<amount, today>>
      BY <2>1 DEF CancelUpdate
    <3>2. QED BY <3>1, <1>t, UpdateShrinks DEF Live, Cancellable
  <2>2. CASE Approve(p)
    <3>1. PICK b : UpdateStatus(b, {"needs_approval"}, "created") BY <2>2 DEF Approve, mark_payout_approved
    <3>2. UNCHANGED <<amount, today>> BY <2>2 DEF Approve
    <3>3. QED BY <3>1, <3>2, <1>t, UpdateShrinks DEF Live
  <2>3. CASE ~CancelUpdate(p) /\ ~Approve(p)
    <3>1. UNCHANGED <<status, today, amount>>
      BY <1>r, <2>3 DEF Operator, CancelRead, CancelUnlock, CancelAudit, RetryReadback, RetryAudit,
                  ApproveAudit, PausePayouts, PauseAudit, ResumePayouts, ResumeAudit, AuditAndFinish,
                  AuditStep, FailUnlock, dbVars
    <3>2. QED BY <3>1, SameActive
  <2>4. QED BY <2>1, <2>2, <2>3
<1>3. QED BY <1>f, <1>t, <1>1, <1>2, RunMoves, TotalShrinks, CapKept

\* A run that dies, the node, a matured block and midnight.
LEMMA WorldCapped ==
  ASSUME OneCreator, CapInv, TypeOK',
         \/ \E p \in Procs : Crash(p)
         \/ \E b \in Batches : NodeReceives(b) \/ NodeDecides(b)
         \/ \E k \in Blocks : CreditBlock(k)
         \/ NewDay
         \/ UNCHANGED vars
  PROVE  CapInv'
<1>f. IsFiniteSet(Miners) BY DEF OneCreator
<1>t. TypeOK BY DEF CapInv
<1>1. Active' \subseteq Active /\ amount' = amount
  <2>1. CASE NewDay BY <2>1 DEF NewDay, Active
  <2>2. CASE ~NewDay
    <3>1. UNCHANGED <<status, today, amount>>
      BY <2>2 DEF Crash, NodeReceives, NodeDecides, CreditBlock, dbVars, vars
    <3>2. QED BY <3>1, SameActive
  <2>3. QED BY <2>1, <2>2
<1>2. active_payout_total_today' <= active_payout_total_today BY <1>f, <1>t, <1>1, TotalShrinks
<1>3. CASE \E p \in Procs : Crash(p)
  <2>1. PICK p \in Procs : Finish(p) BY <1>3 DEF Crash
  <2>2. QED BY <1>2, <2>1, RunMoves, CapKept
<1>4. CASE ~\E p \in Procs : Crash(p)
  <2>1. UNCHANGED <<pc, used, draft>> BY <1>4 DEF NodeReceives, NodeDecides, CreditBlock, NewDay, runVars, vars
  <2>2. NoProc \notin Procs BY PayoutsAssumption
  <2>3. used' \in [Procs -> Nat] BY <2>1 DEF CapInv
  <2>4. QED BY <1>2, <2>1, <2>2, <2>3, CapKept
<1>5. QED BY <1>3, <1>4

LEMMA InitCap == ASSUME OneCreator, Init PROVE CapInv
<1>1. TypeOK BY InitSigning DEF SigningInv
<1>2. used \in [Procs -> Nat] /\ OnlyCreator BY DEF Init, OnlyCreator, CreatorPcs
<1>3. active_payout_total_today = 0
  <2>1. Active = {} BY DEF Init, Active
  <2>2. active_payout_total_today = SumFunctionOnSet(Totals, Active)
    BY DEF active_payout_total_today, Totals, Active, Live
  <2>3. QED BY <2>1, <2>2, SumEmpty
<1>4. DailyCap BY <1>3, PayoutsAssumption DEF DailyCap
<1>5. DraftFits BY DEF Init, DraftFits
<1>6. QED BY <1>1, <1>2, <1>4, <1>5 DEF CapInv

LEMMA NextCap == ASSUME OneCreator, SigningInv, CapInv, [Next]_vars PROVE CapInv'
<1>1. TypeOK' BY NextSigning DEF SigningInv
<1>2. CASE \E p \in Procs : Run(p)
  BY <1>1, <1>2, CreateCapped, SignCapped, SubmitCapped, ReconcileCapped, OperatorCapped DEF Run
<1>3. CASE ~\E p \in Procs : Run(p) BY <1>1, <1>3, WorldCapped DEF Next
<1>4. QED BY <1>2, <1>3

\* What today's live batches pay stays under max_daily_payout_csd, whatever is
\* signed, submitted, cancelled or dies in between, as long as create-payouts
\* never runs twice at the same time and no batch is retried: the total is read
\* in one statement and used in a later one, and payout retry has no cap.
THEOREM CapHolds == OneCreator => (Spec => []DailyCap)
<1> SUFFICES ASSUME OneCreator PROVE Spec => []DailyCap
  OBVIOUS
<1>1. Init => CapInv BY InitCap
<1>2. SigningInv /\ CapInv /\ [Next]_vars => CapInv' BY NextCap
<1>3. CapInv => DailyCap BY DEF CapInv
<1>4. QED BY <1>1, <1>2, <1>3, SigningInvariant, PTL DEF Spec

\* Both: no batch is paid and refunded, and every cached balance is what its rows
\* add up to, however runs of append_ledger_entries overlap and die.
THEOREM LedgerIsSound == Spec => []LedgerSound
<1>1. SettledOnce /\ CacheRecomputable => LedgerSound BY DEF LedgerSound
<1>2. QED BY <1>1, PaidOrRefunded, BalancesAreSums, PTL

\* The four together: also an operator's pause, approve, cancel or retry at any
\* point of any run neither settles a batch twice, loses track of a balance,
\* pays a miner twice nor disturbs the wallet, if cancels are made as carefully
\* as CancelPolicy = "drained" says: payouts paused, no sign or submit run under
\* way, and no broadcast given up that could still arrive.
THEOREM OperatorsAreSafe == CancelPolicy = "drained" => (Spec => []MoneySound)
<1>1. LedgerSound /\ NoDoublePay /\ QuietWallet => MoneySound BY DEF MoneySound
<1>2. QED BY <1>1, LedgerIsSound, NobodyIsPaidTwice, WalletIsQuiet, PTL
=============================================================================
