--------------------------- MODULE ServicesProofs ---------------------------
(***************************************************************************)
(* What is proved of the parts around the money: for any number of         *)
(* processes, releases and starts, every migration takes effect once and   *)
(* in order; for any alerts and runs, a run that nothing disturbs repairs  *)
(* what was wrong; for any blocks, relays and deliveries, receipts are     *)
(* conserved and an acknowledgement is one of an accepted announcement;    *)
(* for any request and answer, what is sent pays what was asked; for any   *)
(* window and list, the divisions and the selection are exact; and for any *)
(* settings and balances, a preview says what a run would do.              *)
(***************************************************************************)
EXTENDS Migrations, Alerts, Relay, Signing, PayoutPolicy, MCAccounting, AccountingProofs

-----------------------------------------------------------------------------
(***************************************************************************)
(* Migrations.                                                             *)
(***************************************************************************)

MigrationsTypeOK ==
    /\ known \in [Processes -> MIGRATIONS]
    /\ applied \subseteq MIGRATIONS
    /\ enabled \in {"true", "false"}
    /\ effects \in [MIGRATIONS -> Nat]
    /\ wish \in {"none", "true", "false"}
    /\ turn \in [Processes -> {"idle", "lock", "check", "execute", "record", "ready"}]
    /\ at \in [Processes -> Nat \ {0}]
    /\ own \in [Processes -> SUBSET MIGRATIONS]
    /\ holder \in Processes \cup {Nobody}
    /\ row_lock \in Processes \cup {Nobody}
    /\ starts \in Nat

\* A run inside its transaction.
Working(p) == turn[p] \in {"check", "execute", "record"}

\* The advisory lock: one transaction at a time.
OneTransaction == \A p \in Processes : Working(p) => holder = p

Prefix(s) == \E last \in 0 .. Versions : s = 1 .. last

\* What a run sees, its own rows included, has no gap below the migration it is at;
\* and it executes and records what it has found missing.
RunInOrder ==
    \A p \in Processes : Working(p) =>
      /\ own[p] \cap applied = {}
      /\ Prefix(applied \cup own[p])
      /\ 1 .. at[p] - 1 \subseteq applied \cup own[p]
      /\ turn[p] \in {"execute", "record"} => at[p] <= known[p] /\ ~ Exists(p)

EffectsOnce == \A v \in MIGRATIONS : effects[v] = IF v \in applied THEN 1 ELSE 0

ReadyHasAll == \A p \in Processes : turn[p] = "ready" => migrate_complete(p)

WishHolds == wish # "none" => enabled = wish

MigrationsInv ==
    /\ MigrationsTypeOK
    /\ OneTransaction
    /\ Prefix(applied)
    /\ RunInOrder
    /\ EffectsOnce
    /\ ReadyHasAll
    /\ WishHolds

-----------------------------------------------------------------------------
\* A prefix to which the first missing number is added is a prefix.
LEMMA PrefixGrows ==
  ASSUME MigrationsAssumption, NEW s, Prefix(s), NEW n \in 1 .. Versions, n \notin s,
         1 .. n - 1 \subseteq s
  PROVE  Prefix(s \cup {n})
<1>1. PICK last \in 0 .. Versions : s = 1 .. last
  BY DEF Prefix
<1>2. n = last + 1
  <2>1. n > last
    BY <1>1 DEF MigrationsAssumption
  <2>2. n > 1 => n - 1 \in s
    BY DEF MigrationsAssumption
  <2>3. QED
    BY <1>1, <2>1, <2>2 DEF MigrationsAssumption
<1>3. s \cup {n} = 1 .. n
  BY <1>1, <1>2 DEF MigrationsAssumption
<1>4. QED
  BY <1>3 DEF Prefix, MigrationsAssumption

\* The largest version of a prefix is its last one.
LEMMA LatestOfPrefix ==
  ASSUME NEW last \in Nat, last > 0
  PROVE  Max(1 .. last) = last
<1>1. \A x \in 1 .. last : (\A y \in 1 .. last : x >= y) <=> x = last
  OBVIOUS
<1>2. QED
  BY <1>1 DEF Max

\* The steps of a run that change nothing that is committed.
LEMMA RunKeepsInv ==
  ASSUME MigrationsAssumption, MigrationsInv, NEW p \in Processes,
         Start(p) \/ Lock(p) \/ Check(p) \/ Execute(p) \/ Stop(p)
  PROVE  MigrationsInv'
<1> USE DEF MigrationsInv, MigrationsAssumption, MIGRATIONS, Nobody, database
<1>1. MigrationsTypeOK'
  <2> HIDE DEF MigrationsInv, MigrationsAssumption, MIGRATIONS
  <2> USE DEF Nobody
  <2>0. MigrationsTypeOK
    BY DEF MigrationsInv
  <2>1. CASE Start(p)
    BY <2>0, <2>1 DEF Start, MigrationsTypeOK
  <2>2. CASE Lock(p)
    BY <2>0, <2>2 DEF Lock, MigrationsTypeOK
  <2>3. CASE Check(p)
    BY <2>0, <2>3 DEF Check, MigrationsTypeOK
  <2>4. CASE Execute(p)
    BY <2>0, <2>4 DEF Execute, MigrationsTypeOK
  <2>5. CASE Stop(p)
    BY <2>0, <2>5 DEF Stop, Released, MigrationsTypeOK
  <2>6. QED
    BY <2>1, <2>2, <2>3, <2>4, <2>5
<1>2. OneTransaction'
  <2>1. CASE Start(p)
    BY <2>1 DEF Start, MigrationsTypeOK, OneTransaction, Working
  <2>2. CASE Lock(p)
    BY <2>2 DEF Lock, LockFree, MigrationsTypeOK, OneTransaction, Working
  <2>3. CASE Check(p)
    BY <2>3 DEF Check, MigrationsTypeOK, OneTransaction, Working
  <2>4. CASE Execute(p)
    BY <2>4 DEF Execute, MigrationsTypeOK, OneTransaction, Working
  <2>5. CASE Stop(p)
    BY <2>5 DEF Stop, Released, MigrationsTypeOK, OneTransaction, Working
  <2>6. QED
    BY <2>1, <2>2, <2>3, <2>4, <2>5
<1>3. applied' = applied /\ effects' = effects /\ known' = known /\ wish' = wish /\ enabled' = enabled
  BY DEF Start, Lock, Check, Execute, Stop
<1>4. Prefix(applied)' /\ EffectsOnce' /\ WishHolds'
  BY <1>3 DEF Prefix, EffectsOnce, WishHolds
<1>5. ReadyHasAll'
  <2>1. \A q \in Processes : turn'[q] = "ready" => turn[q] = "ready"
    BY DEF Start, Lock, Check, Execute, Stop, MigrationsTypeOK
  <2>2. QED
    BY <1>3, <2>1 DEF ReadyHasAll, migrate_complete
<1>6. RunInOrder'
  <2> SUFFICES ASSUME NEW q \in Processes, Working(q)'
               PROVE  /\ own'[q] \cap applied = {}
                      /\ Prefix(applied \cup own'[q])
                      /\ 1 .. at'[q] - 1 \subseteq applied \cup own'[q]
                      /\ turn'[q] \in {"execute", "record"} =>
                           at'[q] <= known[q] /\ at'[q] \notin applied \cup own'[q]
    BY <1>3 DEF RunInOrder, Exists, Prefix
  <2>1. CASE q # p
    <3>1. turn'[q] = turn[q] /\ at'[q] = at[q] /\ own'[q] = own[q]
      BY <2>1 DEF Start, Lock, Check, Execute, Stop, MigrationsTypeOK
    <3>2. QED
      BY <3>1 DEF RunInOrder, Working, Exists
  <2>2. CASE q = p /\ Lock(p)
    <3>1. own'[p] = {} /\ at'[p] = 1 /\ turn'[p] = "check"
      BY <2>2 DEF Lock, MigrationsTypeOK
    <3>2. 1 .. at'[p] - 1 = {}
      BY <3>1
    <3>3. applied \cup own'[p] = applied
      BY <3>1
    <3>4. QED
      BY <2>2, <3>1, <3>2, <3>3
  <2>3. CASE q = p /\ Check(p)
    <3>1. own'[p] = own[p] /\ Working(p)
      BY <2>3 DEF Check, Working
    <3>2. CASE Exists(p)
      <4>1. at'[p] = at[p] + 1 /\ turn'[p] = "check"
        BY <2>3, <3>2 DEF Check, MigrationsTypeOK
      <4>2. 1 .. at[p] \subseteq applied \cup own[p]
        <5>1. at[p] \in Nat \ {0} /\ at[p] \in applied \cup own[p]
          BY <3>2 DEF Exists, MigrationsTypeOK
        <5>2. 1 .. at[p] - 1 \subseteq applied \cup own[p]
          BY <3>1 DEF RunInOrder
        <5>3. 1 .. at[p] = (1 .. at[p] - 1) \cup {at[p]}
          BY <5>1
        <5>4. QED
          BY <5>1, <5>2, <5>3
      <4>3. at'[p] - 1 = at[p]
        BY <4>1 DEF MigrationsTypeOK
      <4>4. QED
        BY <2>3, <3>1, <4>1, <4>2, <4>3 DEF RunInOrder
    <3>3. CASE ~ Exists(p)
      BY <2>3, <3>1, <3>3 DEF Check, RunInOrder, Exists, MigrationsTypeOK
    <3>4. QED
      BY <3>2, <3>3
  <2>4. CASE q = p /\ Execute(p)
    BY <2>4 DEF Execute, RunInOrder, Working, Exists, MigrationsTypeOK
  <2>5. CASE q = p /\ (Start(p) \/ Stop(p))
    BY <2>5 DEF Start, Stop, Working, MigrationsTypeOK
  <2>6. QED
    BY <2>1, <2>2, <2>3, <2>4, <2>5
<1>7. QED
  BY <1>1, <1>2, <1>4, <1>5, <1>6

\* A run records the version it found missing and executed.
LEMMA RecordKeepsInv ==
  ASSUME MigrationsAssumption, MigrationsInv, NEW p \in Processes, Record(p)
  PROVE  MigrationsInv'
<1> USE DEF MigrationsInv, MigrationsAssumption, MIGRATIONS, Nobody, database
<1>1. /\ Working(p) /\ at[p] \in 1 .. Versions /\ at[p] <= known[p]
      /\ at[p] \notin applied \cup own[p]
      /\ 1 .. at[p] - 1 \subseteq applied \cup own[p]
  <2>1. Working(p) /\ turn[p] = "record"
    BY DEF Record, Working
  <2>2. known[p] \in 1 .. Versions /\ at[p] \in Nat \ {0}
    BY DEF MigrationsTypeOK
  <2>3. /\ at[p] <= known[p] /\ at[p] \notin applied \cup own[p]
        /\ 1 .. at[p] - 1 \subseteq applied \cup own[p]
    BY <2>1 DEF RunInOrder, Exists
  <2>4. QED
    BY <2>1, <2>2, <2>3
<1>2. own' = [own EXCEPT ![p] = @ \cup {at[p]}] /\ at' = [at EXCEPT ![p] = @ + 1]
  BY DEF Record
<1>3. own'[p] = own[p] \cup {at[p]} /\ at'[p] = at[p] + 1 /\ turn'[p] = "check"
  BY DEF Record, MigrationsTypeOK
<1>4. MigrationsTypeOK'
  <2> HIDE DEF MigrationsInv, MigrationsAssumption, MIGRATIONS
  <2>1. MigrationsTypeOK
    BY DEF MigrationsInv
  <2>2. at[p] \in MIGRATIONS /\ at[p] \in Nat
    BY <1>1 DEF MIGRATIONS
  <2>3. at' \in [Processes -> Nat \ {0}] /\ own' \in [Processes -> SUBSET MIGRATIONS]
    BY <1>2, <2>1, <2>2 DEF MigrationsTypeOK
  <2>4. QED
    BY <2>1, <2>3 DEF Record, MigrationsTypeOK
<1>5. OneTransaction' /\ ReadyHasAll'
  BY <1>1 DEF Record, OneTransaction, Working, ReadyHasAll, migrate_complete, MigrationsTypeOK
<1>6. applied' = applied /\ effects' = effects /\ known' = known /\ wish' = wish /\ enabled' = enabled
  BY DEF Record
<1>7. Prefix(applied)' /\ EffectsOnce' /\ WishHolds'
  BY <1>6 DEF Prefix, EffectsOnce, WishHolds
<1>8. Prefix(applied \cup own'[p])
  <2>1. applied \cup own'[p] = (applied \cup own[p]) \cup {at[p]}
    BY <1>3
  <2>2. Prefix(applied \cup own[p])
    BY <1>1 DEF RunInOrder
  <2>3. QED
    BY <1>1, <2>1, <2>2, PrefixGrows
<1>9. 1 .. at'[p] - 1 \subseteq applied \cup own'[p]
  <2>1. 1 .. at'[p] - 1 = (1 .. at[p] - 1) \cup {at[p]}
    BY <1>1, <1>3
  <2>2. QED
    BY <1>1, <1>3, <2>1
<1>10. own'[p] \cap applied = {}
  BY <1>1, <1>3 DEF RunInOrder
<1>11. RunInOrder'
  <2> SUFFICES ASSUME NEW q \in Processes, Working(q)'
               PROVE  /\ own'[q] \cap applied = {}
                      /\ Prefix(applied \cup own'[q])
                      /\ 1 .. at'[q] - 1 \subseteq applied \cup own'[q]
                      /\ turn'[q] \in {"execute", "record"} =>
                           at'[q] <= known[q] /\ at'[q] \notin applied \cup own'[q]
    BY <1>6 DEF RunInOrder, Exists, Prefix
  <2>1. CASE q # p
    <3>1. turn'[q] = turn[q] /\ at'[q] = at[q] /\ own'[q] = own[q]
      BY <2>1 DEF Record, MigrationsTypeOK
    <3>2. QED
      BY <3>1 DEF RunInOrder, Working, Exists
  <2>2. CASE q = p
    BY <2>2, <1>3, <1>8, <1>9, <1>10
  <2>3. QED
    BY <2>1, <2>2
<1>12. QED
  BY <1>4, <1>5, <1>7, <1>11

\* The commit: nobody else is inside a transaction, so nobody's view of the table
\* becomes stale by it.
LEMMA CommitKeepsInv ==
  ASSUME MigrationsAssumption, MigrationsInv, NEW p \in Processes, Commit(p)
  PROVE  MigrationsInv'
<1> USE DEF MigrationsInv, MigrationsAssumption, MIGRATIONS, Nobody
<1>1. Working(p) /\ turn[p] = "check" /\ at[p] > known[p]
  BY DEF Commit, Working
<1>2. /\ own[p] \cap applied = {} /\ Prefix(applied \cup own[p])
      /\ 1 .. at[p] - 1 \subseteq applied \cup own[p]
  BY <1>1 DEF RunInOrder
<1>3. \A q \in Processes : ~ Working(q)'
  <2>1. \A q \in Processes : q # p => ~ Working(q)
    BY <1>1 DEF OneTransaction
  <2>2. turn' = [turn EXCEPT ![p] = "ready"]
    BY DEF Commit
  <2>3. QED
    BY <2>1, <2>2 DEF Working, MigrationsTypeOK
<1>4. applied' = applied \cup own[p] /\ known' = known
  BY DEF Commit
<1>5. EffectsOnce'
  <2>1. effects' = [v \in 1 .. Versions |-> effects[v] + IF v \in own[p] THEN 1 ELSE 0]
    BY DEF Commit
  <2>2. \A v \in 1 .. Versions : effects[v] \in Nat /\ effects[v] = IF v \in applied THEN 1 ELSE 0
    BY DEF EffectsOnce, MigrationsTypeOK
  <2>3. QED
    BY <1>2, <1>4, <2>1, <2>2 DEF EffectsOnce
<1>6. MigrationsTypeOK'
  <2>1. effects' \in [1 .. Versions -> Nat]
    <3>1. effects' = [v \in 1 .. Versions |-> effects[v] + IF v \in own[p] THEN 1 ELSE 0]
      BY DEF Commit
    <3>2. \A v \in 1 .. Versions : effects[v] \in Nat
      BY Zenon DEF MigrationsTypeOK
    <3>3. \A n \in Nat : n + 1 \in Nat /\ n + 0 \in Nat
      OBVIOUS
    <3> HIDE DEF MigrationsInv
    <3>4. \A v \in 1 .. Versions : effects[v] + (IF v \in own[p] THEN 1 ELSE 0) \in Nat
      BY <3>2, <3>3, Zenon
    <3>5. QED
      BY <3>1, <3>4, Zenon
  <2>2. applied' \subseteq 1 .. Versions
    BY <1>4 DEF MigrationsTypeOK
  <2>3. QED
    BY <2>1, <2>2 DEF Commit, Released, MigrationsTypeOK
<1>7. Prefix(applied)'
  BY <1>2, <1>4 DEF Prefix
<1>8. ReadyHasAll'
  <2>1. 1 .. known[p] \subseteq applied'
    BY <1>1, <1>2, <1>4 DEF MigrationsTypeOK
  <2>2. turn' = [turn EXCEPT ![p] = "ready"]
    BY DEF Commit
  <2>3. QED
    BY <1>4, <2>1, <2>2 DEF ReadyHasAll, migrate_complete, MigrationsTypeOK
<1>9. WishHolds'
  BY DEF Commit, WishHolds
<1>10. QED
  BY <1>3, <1>5, <1>6, <1>7, <1>8, <1>9 DEF OneTransaction, RunInOrder

\* The operator's switch touches neither a run nor the table of migrations.
LEMMA SwitchKeepsInv ==
  ASSUME MigrationsAssumption, MigrationsInv, NEW value \in {"true", "false"},
         set_payouts_enabled(value)
  PROVE  MigrationsInv'
  BY DEF set_payouts_enabled, MigrationsInv, MigrationsTypeOK, OneTransaction, Working, Prefix,
         RunInOrder, Exists, EffectsOnce, ReadyHasAll, migrate_complete, WishHolds

LEMMA MigrationsStep ==
  ASSUME MigrationsAssumption, MigrationsInv, [MigrationsNext]_migrationVars
  PROVE  MigrationsInv'
<1>1. CASE UNCHANGED migrationVars
  BY <1>1 DEF migrationVars, MigrationsInv, MigrationsTypeOK, OneTransaction, Working, Prefix,
              RunInOrder, Exists, EffectsOnce, ReadyHasAll, migrate_complete, WishHolds
<1>2. CASE MigrationsNext
  BY <1>2, RunKeepsInv, RecordKeepsInv, CommitKeepsInv, SwitchKeepsInv DEF MigrationsNext
<1>3. QED
  BY <1>1, <1>2

LEMMA MigrationsBegin ==
  ASSUME MigrationsAssumption, MigrationsInit
  PROVE  MigrationsInv
<1> USE DEF MigrationsInit, MigrationsAssumption, MIGRATIONS, Nobody
<1>1. MigrationsTypeOK
  BY DEF MigrationsTypeOK
<1>2. applied = 1 .. 0
  OBVIOUS
<1>3. Prefix(applied)
  BY <1>2 DEF Prefix
<1>4. QED
  BY <1>1, <1>3 DEF MigrationsInv, OneTransaction, Working, RunInOrder, EffectsOnce, ReadyHasAll,
                    WishHolds

\* run_migrations ("Serialize the check/apply sequence so migrations cannot race"):
\* whatever number of processes of whatever releases start, die and start again, every
\* migration takes effect once and in order; a process that has started finds all of
\* its schema; check-database-runtime passes only on the schema of its own release;
\* payouts an operator has resumed stay resumed.
THEOREM MigrationsRunOnce == MigrationsAssumption => (MigrationsSpec => []MigratesOnce)
<1> SUFFICES ASSUME MigrationsAssumption PROVE MigrationsSpec => []MigratesOnce
  OBVIOUS
<1>1. MigrationsInit => MigrationsInv
  BY MigrationsBegin
<1>2. MigrationsInv /\ [MigrationsNext]_migrationVars => MigrationsInv'
  BY MigrationsStep
<1>3. MigrationsInv => MigratesOnce
  <2> SUFFICES ASSUME MigrationsInv PROVE MigratesOnce
    OBVIOUS
  <2>1. PICK last \in 0 .. Versions : applied = 1 .. last
    BY DEF MigrationsInv, Prefix
  <2>2. ASSUME NEW p \in Processes, check_database_runtime(p) PROVE applied = 1 .. known[p]
    <3>1. CASE last = 0
      BY <2>1, <2>2, <3>1 DEF check_database_runtime
    <3>2. CASE last > 0
      <4>1. applied # {} /\ Max(applied) = last
        <5>1. last \in Nat /\ last \in 1 .. last
          BY <3>2 DEF MigrationsAssumption
        <5>2. QED
          BY <2>1, <3>2, <5>1, LatestOfPrefix
      <4>2. QED
        BY <2>1, <2>2, <4>1 DEF check_database_runtime
    <3>3. QED
      BY <3>1, <3>2 DEF MigrationsAssumption
  <2>3. QED
    BY <2>1, <2>2 DEF MigratesOnce, MigrationsInv, EffectsOnce, ReadyHasAll, WishHolds
<1>4. QED
  BY <1>1, <1>2, <1>3, PTL DEF MigrationsSpec

-----------------------------------------------------------------------------
(***************************************************************************)
(* Alerts.                                                                 *)
(***************************************************************************)

AlertsTypeOK ==
    /\ failing \subseteq Alert
    /\ alerts \subseteq Alert /\ todo \subseteq Alert
    /\ place \in 0 .. Done
    /\ dirty \in BOOLEAN

\* What a run leaves of a kind: an alert for all that is wrong, and for nothing else
\* unless only the operator resolves them.
Repaired(k) ==
    /\ Of(k, failing) \subseteq alerts
    /\ k = "payout_stuck" \/ Of(k, alerts) \subseteq failing

\* How far a run has got with kind k while it opens alerts ...
Opening(k) ==
    IF k \in OneByOne
    THEN /\ todo \subseteq Of(k, Alert)
         /\ \A a \in Of(k, Alert) \ todo : a \in alerts <=> a \in failing
    ELSE /\ todo \subseteq Of(k, failing)
         /\ Of(k, failing) \ todo \subseteq alerts

\* ... and while it resolves the others.
Resolving(k) ==
    /\ k \in Listed
    /\ Of(k, failing) \subseteq alerts
    /\ todo \subseteq Of(k, Alert) \ failing
    /\ Of(k, alerts) \subseteq failing \cup todo

\* A run that nothing has disturbed knows what is wrong with the kind it is at, and
\* has repaired the kinds before.
QuietInv ==
    ~ dirty /\ place \in 1 .. Done =>
      /\ \A i \in 1 .. place - 1 : Repaired(Kinds[i])
      /\ Running =>
           /\ found = Of(kind, failing)
           /\ \/ stage = "open" /\ Opening(kind)
              \/ stage = "resolve" /\ Resolving(kind)

AlertsInv == AlertsTypeOK /\ QuietInv

-----------------------------------------------------------------------------
\* Kinds: seven of them, all different.
LEMMA KindsAre ==
  /\ Len(Kinds) = 7 /\ Done = 8
  /\ \A i, j \in 1 .. 7 : Kinds[i] = Kinds[j] => i = j
<1>1. Len(Kinds) = 7 /\ Done = 8
  BY DEF Kinds, Done
<1>2. ASSUME NEW i \in 1 .. 7, NEW j \in 1 .. 7, Kinds[i] = Kinds[j] PROVE i = j
  <2>1. i \in {1, 2, 3, 4, 5, 6, 7} /\ j \in {1, 2, 3, 4, 5, 6, 7}
    OBVIOUS
  <2>2. QED
    BY <1>2, <2>1 DEF Kinds
<1>3. QED
  BY <1>1, <1>2

\* Every alert is of one of the kinds.
LEMMA AlertKind ==
  ASSUME NEW a \in Alert
  PROVE  \E i \in 1 .. 7 : a[1] = Kinds[i]
  BY AlertsAssumption, KindsAre DEF Alert

\* The query of a kind: what is wrong with it, and all that is left to be done.
LEMMA QueryStarts ==
  ASSUME AlertsTypeOK, NEW i \in 1 .. 7, Query(i), failing' = failing, alerts' = alerts,
         ~ dirty' => \A j \in 1 .. i - 1 : Repaired(Kinds[j]), dirty' \in BOOLEAN
  PROVE  AlertsInv'
<1>1. Len(Kinds) = 7 /\ Done = 8
  BY KindsAre
<1>2. place' = i /\ stage' = "open" /\ kind' = Kinds[i]
  BY DEF Query, kind
<1>3. AlertsTypeOK'
  BY <1>1, <1>2 DEF AlertsTypeOK, Query, Of
<1>4. found' = Of(kind, failing)'
  BY <1>2 DEF Query
<1>5. Opening(kind)'
  <2>1. todo' = IF Kinds[i] \in OneByOne THEN Of(Kinds[i], Alert) ELSE Of(Kinds[i], failing)
    BY DEF Query
  <2>2. QED
    BY <1>2, <2>1 DEF Opening
<1>6. ~ dirty' => \A j \in 1 .. i - 1 : Repaired(Kinds[j])'
  BY DEF Repaired
<1>7. QED
  BY <1>2, <1>3, <1>4, <1>5, <1>6 DEF AlertsInv, QuietInv

\* A step that opens or resolves alerts of one kind leaves the other kinds repaired.
LEMMA OthersStayRepaired ==
  ASSUME NEW i \in 1 .. 7, NEW j \in 1 .. 7, i # j, Repaired(Kinds[j]), failing' = failing,
         NEW a, a[1] = Kinds[i], alerts' = alerts \cup {a} \/ alerts' = alerts \ {a}
  PROVE  Repaired(Kinds[j])'
<1>1. a[1] # Kinds[j]
  BY KindsAre
<1>2. QED
  BY <1>1 DEF Repaired, Of

\* One alert of the kind is opened or, if it is not found any more, resolved.
LEMMA OpenKeepsInv ==
  ASSUME AlertsInv, Open
  PROVE  AlertsInv'
<1>1. PICK a \in todo : /\ alerts' = (IF a \in found THEN alerts \cup {a} ELSE alerts \ {a})
                        /\ todo' = todo \ {a}
  BY DEF Open
<1>2. /\ failing' = failing /\ dirty' = dirty /\ place' = place /\ stage' = stage
      /\ found' = found /\ stage = "open" /\ Running
  BY DEF Open, world
<1>3. place \in 1 .. 7 /\ kind' = kind /\ kind = Kinds[place]
  BY <1>2, KindsAre DEF Running, kind
<1>4. AlertsTypeOK'
  BY <1>1, <1>2 DEF AlertsInv, AlertsTypeOK
<1>5. ASSUME ~ dirty PROVE Opening(kind)' /\ \A j \in 1 .. place - 1 : Repaired(Kinds[j])'
  <2>1. /\ found = Of(kind, failing) /\ Opening(kind)
        /\ \A j \in 1 .. place - 1 : Repaired(Kinds[j])
    BY <1>2, <1>3, <1>5, KindsAre DEF AlertsInv, QuietInv
  <2>2. a \in Alert /\ a[1] = kind
    BY <1>1, <2>1 DEF AlertsInv, AlertsTypeOK, Opening, Of
  <2>3. \A j \in 1 .. place - 1 : Repaired(Kinds[j])'
    BY <1>1, <1>2, <1>3, <2>1, <2>2, OthersStayRepaired
  <2>4. Opening(kind)'
    BY <1>1, <1>2, <1>3, <2>1, <2>2 DEF Opening, Of
  <2>5. QED
    BY <2>3, <2>4
<1>6. QED
  BY <1>2, <1>3, <1>4, <1>5 DEF AlertsInv, QuietInv

\* list_alerts: what the query had not found is left to be resolved.
LEMMA ListKeepsInv ==
  ASSUME AlertsInv, List
  PROVE  AlertsInv'
<1>1. PICK listed \in SUBSET alerts : todo' = Others(listed) /\ dirty' = (dirty \/ listed # alerts)
  BY DEF List
<1>2. /\ failing' = failing /\ alerts' = alerts /\ place' = place /\ stage' = "resolve"
      /\ found' = found /\ stage = "open" /\ Running /\ todo = {} /\ kind \in Listed
  BY DEF List
<1>3. place \in 1 .. 7 /\ kind' = kind
  BY <1>2, KindsAre DEF Running, kind
<1>4. AlertsTypeOK'
  BY <1>1, <1>2 DEF AlertsInv, AlertsTypeOK, Others, Of
<1>5. ASSUME ~ dirty' PROVE Resolving(kind)' /\ \A j \in 1 .. place - 1 : Repaired(Kinds[j])'
  <2>1. ~ dirty /\ todo' = Of(kind, alerts) \ found
    BY <1>1, <1>5 DEF Others
  <2>2. /\ found = Of(kind, failing) /\ Opening(kind)
        /\ \A j \in 1 .. place - 1 : Repaired(Kinds[j])
    BY <1>2, <1>3, <2>1, KindsAre DEF AlertsInv, QuietInv
  <2>3. kind \notin OneByOne
    BY <1>2 DEF Listed, OneByOne
  <2>4. Resolving(kind)'
    BY <1>2, <1>3, <2>1, <2>2, <2>3 DEF Resolving, Opening, Of, AlertsInv, AlertsTypeOK
  <2>5. \A j \in 1 .. place - 1 : Repaired(Kinds[j])'
    BY <1>2, <2>2 DEF Repaired
  <2>6. QED
    BY <2>4, <2>5
<1>6. ASSUME ~ dirty' PROVE found = Of(kind, failing)
  <2>1. ~ dirty
    BY <1>1, <1>6
  <2>2. place \in 1 .. Done
    BY <1>3, KindsAre
  <2>3. QED
    BY <1>2, <2>1, <2>2 DEF AlertsInv, QuietInv
<1>7. QED
  BY <1>2, <1>3, <1>4, <1>5, <1>6 DEF AlertsInv, QuietInv

\* resolve_alert of an alert that is not wrong any more.
LEMMA ResolveKeepsInv ==
  ASSUME AlertsInv, Resolve
  PROVE  AlertsInv'
<1>1. PICK a \in todo : alerts' = alerts \ {a} /\ todo' = todo \ {a}
  BY DEF Resolve
<1>2. /\ failing' = failing /\ dirty' = dirty /\ place' = place /\ stage' = stage
      /\ found' = found /\ stage = "resolve" /\ Running
  BY DEF Resolve, world
<1>3. place \in 1 .. 7 /\ kind' = kind /\ kind = Kinds[place]
  BY <1>2, KindsAre DEF Running, kind
<1>4. AlertsTypeOK'
  BY <1>1, <1>2 DEF AlertsInv, AlertsTypeOK
<1>5. ASSUME ~ dirty PROVE Resolving(kind)' /\ \A j \in 1 .. place - 1 : Repaired(Kinds[j])'
  <2>1. Resolving(kind) /\ \A j \in 1 .. place - 1 : Repaired(Kinds[j])
    BY <1>2, <1>3, <1>5, KindsAre DEF AlertsInv, QuietInv
  <2>2. a[1] = kind /\ a \notin failing
    BY <1>1, <2>1 DEF Resolving, Of
  <2>3. \A j \in 1 .. place - 1 : Repaired(Kinds[j])'
    BY <1>1, <1>2, <1>3, <2>1, <2>2, OthersStayRepaired
  <2>4. Resolving(kind)'
    BY <1>1, <1>2, <1>3, <2>1, <2>2 DEF Resolving, Of
  <2>5. QED
    BY <2>3, <2>4
<1>6. found = Of(kind, failing) \/ dirty
  BY <1>2, <1>3, KindsAre DEF AlertsInv, QuietInv
<1>7. QED
  BY <1>2, <1>3, <1>4, <1>5, <1>6 DEF AlertsInv, QuietInv

\* A kind with nothing left to do is repaired.
LEMMA KindIsRepaired ==
  ASSUME AlertsInv, Running, ~ dirty, todo = {}, kind \in Listed => stage = "resolve"
  PROVE  \A j \in 1 .. place : Repaired(Kinds[j])
<1>1. place \in 1 .. 7 /\ kind = Kinds[place] /\ place \in 1 .. Done
  BY KindsAre DEF Running, kind
<1>2. /\ \A j \in 1 .. place - 1 : Repaired(Kinds[j])
      /\ \/ stage = "open" /\ Opening(kind)
         \/ stage = "resolve" /\ Resolving(kind)
  BY <1>1 DEF AlertsInv, QuietInv
<1>3. kind \in OneByOne \cup Listed \cup {"payout_stuck"}
  <2>1. place \in {1, 2, 3, 4, 5, 6, 7}
    BY <1>1
  <2>2. QED
    BY <1>1, <2>1 DEF Kinds, OneByOne, Listed
<1>4. Repaired(kind)
  <2>1. CASE kind \in Listed
    BY <1>2, <2>1 DEF Resolving, Repaired, Of
  <2>2. CASE kind \in OneByOne
    <3>1. kind \notin Listed
      BY <2>2 DEF OneByOne, Listed
    <3>2. Opening(kind)
      BY <1>2, <3>1 DEF Resolving
    <3>3. QED
      BY <2>2, <3>2 DEF Opening, Repaired, Of, AlertsInv, AlertsTypeOK
  <2>3. CASE kind = "payout_stuck"
    <3>1. kind \notin Listed /\ kind \notin OneByOne
      BY <2>3 DEF OneByOne, Listed
    <3>2. Opening(kind)
      BY <1>2, <3>1 DEF Resolving
    <3>3. QED
      BY <2>3, <3>1, <3>2 DEF Opening, Repaired, Of
  <2>4. QED
    BY <1>3, <2>1, <2>2, <2>3
<1>5. QED
  BY <1>1, <1>2, <1>4

\* When a kind is done, it is repaired, and the next one begins with its query.
LEMMA AdvanceKeepsInv ==
  ASSUME AlertsInv, Advance
  PROVE  AlertsInv'
<1>1. Running /\ todo = {} /\ (kind \in Listed => stage = "resolve")
  BY DEF Advance
<1>2. failing' = failing /\ alerts' = alerts /\ dirty' = dirty
  BY DEF Advance, world
<1>3. place \in 1 .. 7 /\ Len(Kinds) = 7 /\ Done = 8
  BY <1>1, KindsAre DEF Running
<1>4. ~ dirty => \A j \in 1 .. place : Repaired(Kinds[j])
  BY <1>1, KindIsRepaired
<1>5. CASE place < 7
  <2>1. Query(place + 1) /\ place + 1 \in 1 .. 7 /\ (place + 1) - 1 = place
    BY <1>3, <1>5 DEF Advance
  <2>2. QED
    BY <1>2, <1>4, <2>1, QueryStarts DEF AlertsInv, AlertsTypeOK
<1>6. CASE place = 7
  <2>1. place' = 8 /\ todo' = todo
    BY <1>3, <1>6 DEF Advance
  <2>2. ~ Running'
    BY <1>3, <2>1 DEF Running
  <2>3. AlertsTypeOK'
    BY <1>2, <1>3, <2>1 DEF AlertsInv, AlertsTypeOK
  <2>4. ~ dirty => \A j \in 1 .. 7 : Repaired(Kinds[j])'
    BY <1>2, <1>4, <1>6 DEF Repaired
  <2>5. QED
    BY <1>2, <2>1, <2>2, <2>3, <2>4 DEF AlertsInv, QuietInv
<1>7. QED
  BY <1>3, <1>5, <1>6

\* Every step of a run or of the pool keeps the invariant.
LEMMA AlertsStep ==
  ASSUME AlertsInv, [AlertsNext]_alertVars
  PROVE  AlertsInv'
<1>1. CASE UNCHANGED alertVars
  BY <1>1 DEF alertVars, AlertsInv, AlertsTypeOK, QuietInv, Running, kind, Repaired, Opening, Resolving
<1>2. CASE PoolChanges
  BY <1>2 DEF PoolChanges, AlertsInv, AlertsTypeOK, QuietInv
<1>3. CASE \E a \in Alert : operator_resolve_alert(a)
  BY <1>3 DEF operator_resolve_alert, AlertsInv, AlertsTypeOK, QuietInv
<1>4. CASE BeginRun
  <2>1. Query(1) /\ failing' = failing /\ alerts' = alerts /\ dirty' = FALSE
    BY <1>4 DEF BeginRun
  <2>2. 1 \in 1 .. 7 /\ 1 .. 1 - 1 = {}
    OBVIOUS
  <2>3. QED
    BY <2>1, <2>2, QueryStarts DEF AlertsInv
<1>5. CASE Abort
  BY <1>5, KindsAre DEF Abort, world, AlertsInv, AlertsTypeOK, QuietInv
<1>6. QED
  BY <1>1, <1>2, <1>3, <1>4, <1>5, OpenKeepsInv, ListKeepsInv, ResolveKeepsInv, AdvanceKeepsInv
     DEF AlertsNext

\* check_alerts: for any number of subjects of any kind, and however the pool, the
\* operator and runs that were cut short came before, a run that nothing disturbed
\* leaves an alert for everything that is wrong, and for nothing else but batches
\* that were stuck.
THEOREM QuietRunsRepair == AlertsSpec => []QuietRunRepairs
<1>1. AlertsInit => AlertsInv
  <2> SUFFICES ASSUME AlertsInit PROVE AlertsInv
    OBVIOUS
  <2>0. 0 \in 0 .. Done
    BY KindsAre
  <2>1. AlertsTypeOK
    BY <2>0 DEF AlertsInit, AlertsTypeOK
  <2>2. place \notin 1 .. Done
    BY KindsAre DEF AlertsInit
  <2>3. QED
    BY <2>1, <2>2 DEF AlertsInv, QuietInv
<1>2. AlertsInv /\ [AlertsNext]_alertVars => AlertsInv'
  BY AlertsStep
<1>3. AlertsInv => QuietRunRepairs
  <2> SUFFICES ASSUME AlertsInv, place = Done, ~ dirty
               PROVE  failing \subseteq alerts /\ \A a \in alerts \ failing : a[1] = "payout_stuck"
    BY DEF QuietRunRepairs
  <2>1. \A i \in 1 .. 7 : Repaired(Kinds[i])
    BY KindsAre DEF AlertsInv, QuietInv
  <2>2. failing \subseteq Alert /\ alerts \subseteq Alert
    BY DEF AlertsInv, AlertsTypeOK
  <2>3. QED
    BY <2>1, <2>2, AlertKind DEF Repaired, Of
<1>4. QED
  BY <1>1, <1>2, <1>3, PTL DEF AlertsSpec

-----------------------------------------------------------------------------
(***************************************************************************)
(* The relay of the node adapter.                                          *)
(***************************************************************************)

Counters == {"scheduled", "outstanding"} \cup Stages \cup Ends
Lane == [Counters -> Nat]
Announcement == [relay : Relays, block : RelayBlocks, expires : Nat]
Delivery == [terminal : {"untracked", "none"} \cup Ends, noted : SUBSET Stages]

RelayTypeOK ==
    /\ now \in Nat
    /\ queue \in Seq(Announcement)
    /\ scheduled \subseteq RelayBlocks
    /\ deliveries \in [Keys -> Delivery]
    /\ tracked \in Seq(Keys)
    /\ lanes \in [Relays -> Lane]
    /\ wire \subseteq Announcement
    /\ acks \subseteq wire
    /\ taken \subseteq Keys
    /\ guard \subseteq acks
    /\ verified \in [Keys -> 0 .. 2]

\* Announcements that are waiting or on their way.
Sent == wire \cup Range(queue)

\* A block is announced to a relay once, so its key stands for the announcement.
AnnouncedOnce ==
    /\ \A a, b \in Sent : KeyOf(a) = KeyOf(b) => a = b
    /\ \A a \in Sent : a.block \in scheduled

\* What was verified is in the guard until it has expired.
GuardKnows ==
    \A k \in Keys : verified[k] # 0 =>
      /\ verified[k] = 1
      /\ \E a \in acks : KeyOf(a) = k /\ (a \in guard \/ a.expires < now)

AcksAreSigned == \A a \in acks : KeyOf(a) \in taken

NoDuplicates(s) == \A i, j \in 1 .. Len(s) : s[i] = s[j] => i = j

\* order and deliveries are about the same deliveries.
TrackedExact ==
    /\ NoDuplicates(tracked)
    /\ \A k \in Keys : IF k \in Range(tracked) THEN Tracks(k) ELSE deliveries[k] = Untracked

\* The blocks whose deliveries to a relay are open, and those among them for which a
\* stage is still to come.
OpenIn(ds, r) == {b \in RelayBlocks : ds[<<r, b>>].terminal = "none"}
UnnotedIn(ds, r, s) == {b \in RelayBlocks : ds[<<r, b>>].terminal = "none" /\ s \notin ds[<<r, b>>].noted}

Conserved(l) == l["scheduled"] = l["outstanding"] + SumFunctionOnSet(l, Ends)

\* Every delivery scheduled is open or counted under one end, and what a stage may
\* still be counted for has been scheduled.
LaneOK(ds, ls, r) ==
    /\ Conserved(ls[r])
    /\ ls[r]["outstanding"] = Cardinality(OpenIn(ds, r))
    /\ \A s \in Stages : ls[r][s] + Cardinality(UnnotedIn(ds, r, s)) <= ls[r]["scheduled"]

LanesOK(ds, ls) == \A r \in Relays : LaneOK(ds, ls, r)

RelayInv ==
    /\ RelayTypeOK
    /\ AnnouncedOnce
    /\ GuardKnows
    /\ AcksAreSigned
    /\ TrackedExact
    /\ AcceptedIfAcked
    /\ LanesOK(deliveries, lanes)

-----------------------------------------------------------------------------
(***************************************************************************)
(* Counters and sets of deliveries.                                        *)
(***************************************************************************)

\* The names of the counters are different.
LEMMA CounterNames ==
  /\ IsFiniteSet(Ends) /\ Ends \subseteq Counters /\ Stages \subseteq Counters
  /\ "scheduled" \in Counters /\ "outstanding" \in Counters
  /\ "scheduled" \notin Ends \cup Stages /\ "outstanding" \notin Ends \cup Stages
  /\ Stages \cap Ends = {} /\ "none" \notin Ends /\ "untracked" \notin Ends
  /\ "drop" \in Ends /\ "ack_verified" \in Ends /\ Failures \subseteq Ends
  /\ "ack_verified" \notin Failures
<1>1. Ends \subseteq {"ack_verified", "negative", "timeout", "transport", "drop", "abnormal"}
  BY RelayAssumption DEF Ends, Outcomes
<1>2. IsFiniteSet(Ends)
  <2>1. IsFiniteSet({"ack_verified", "negative", "timeout", "transport", "drop", "abnormal"})
    <3>1. \A x, S : IsFiniteSet(S) => IsFiniteSet(S \cup {x})
      BY FS_AddElement
    <3>2. IsFiniteSet({})
      BY FS_EmptySet
    <3>3. IsFiniteSet(((((({} \cup {"ack_verified"}) \cup {"negative"}) \cup {"timeout"})
                          \cup {"transport"}) \cup {"drop"}) \cup {"abnormal"})
      BY <3>1, <3>2, Zenon
    <3>4. {"ack_verified", "negative", "timeout", "transport", "drop", "abnormal"} =
            ((((({} \cup {"ack_verified"}) \cup {"negative"}) \cup {"timeout"})
                          \cup {"transport"}) \cup {"drop"}) \cup {"abnormal"}
      OBVIOUS
    <3>5. QED
      BY <3>3, <3>4, Zenon
  <2>2. QED
    BY <1>1, <2>1, FS_Subset
<1>3. QED
  BY <1>1, <1>2, RelayAssumption DEF Ends, Outcomes, Counters

\* A key is a relay and a block.
LEMMA KeyParts ==
  /\ \A k \in Keys : k[1] \in Relays /\ k[2] \in RelayBlocks /\ k = <<k[1], k[2]>>
  /\ \A r \in Relays, b \in RelayBlocks : <<r, b>> \in Keys
  /\ \A a \in Announcement : KeyOf(a) \in Keys /\ KeyOf(a)[1] = a.relay /\ KeyOf(a)[2] = a.block
  BY DEF Keys, Announcement, KeyOf

\* Counters that agree on the ends have the same sum.
LEMMA EndsSame ==
  ASSUME NEW l, NEW m, \A c \in Ends : m[c] = l[c]
  PROVE  SumFunctionOnSet(m, Ends) = SumFunctionOnSet(l, Ends)
  BY CounterNames, SumSame

\* Nothing adds up to nothing.
LEMMA EndsZero ==
  ASSUME NEW l, \A c \in Ends : l[c] = 0
  PROVE  SumFunctionOnSet(l, Ends) = 0
<1> DEFINE C == {s \in FiniteSubsetsOf(Ends) : SumFunctionOnSet(l, s) # 0}
<1>1. C \subseteq FiniteSubsetsOf(Ends)
  OBVIOUS
<1>2. ASSUME C # {} PROVE FALSE
  <2>1. IsFiniteSet(Ends)
    BY CounterNames
  <2>2. PICK s \in C : \A u \in C : ~(u \subseteq s /\ u # s)
    <3> HIDE DEF C
    <3>1. QED
      BY <1>1, <1>2, <2>1, SmallestSet
  <2>3. s \subseteq Ends /\ IsFiniteSet(s) /\ SumFunctionOnSet(l, s) # 0
    BY <2>2 DEF FiniteSubsetsOf
  <2>4. s # {}
    BY <2>3, SumEmpty
  <2>5. /\ Pick(s) \in s /\ Rest(s) \subseteq s /\ Rest(s) # s /\ IsFiniteSet(Rest(s))
        /\ SumFunctionOnSet(l, s) = l[Pick(s)] + SumFunctionOnSet(l, Rest(s))
    BY <2>3, <2>4, RestIsSmaller, SumUnfolds
  <2>6. Rest(s) \in FiniteSubsetsOf(Ends)
    BY <2>3, <2>5 DEF FiniteSubsetsOf
  <2>7. SumFunctionOnSet(l, Rest(s)) = 0
    BY <2>2, <2>5, <2>6
  <2>8. l[Pick(s)] = 0
    BY <2>3, <2>5
  <2>9. QED
    BY <2>3, <2>5, <2>7, <2>8
<1>3. Ends \in FiniteSubsetsOf(Ends)
  BY CounterNames DEF FiniteSubsetsOf
<1>4. QED
  BY <1>2, <1>3

\* One more of an end is one more of the sum.
LEMMA EndsMore ==
  ASSUME NEW l \in Lane, NEW m \in Lane, NEW e \in Ends, m[e] = l[e] + 1,
         \A c \in Ends \ {e} : m[c] = l[c]
  PROVE  SumFunctionOnSet(m, Ends) = SumFunctionOnSet(l, Ends) + 1
<1>1. IsFiniteSet(Ends) /\ IsFiniteSet(Ends \ {e}) /\ Ends \subseteq Counters
  BY CounterNames, FS_RemoveElement
<1>2. Counts(l, Ends) /\ Counts(m, Ends) /\ Counts(l, Ends \ {e})
  BY <1>1 DEF Counts, Lane
<1>3. SumFunctionOnSet(l, Ends) = l[e] + SumFunctionOnSet(l, Ends \ {e})
  BY <1>1, <1>2, SumRemove
<1>4. SumFunctionOnSet(m, Ends) = m[e] + SumFunctionOnSet(m, Ends \ {e})
  BY <1>1, <1>2, SumRemove
<1>5. SumFunctionOnSet(m, Ends \ {e}) = SumFunctionOnSet(l, Ends \ {e})
  BY <1>1, SumSame
<1>6. SumFunctionOnSet(l, Ends \ {e}) \in Nat /\ l[e] \in Nat
  BY <1>1, <1>2, SumType DEF Lane
<1>7. QED
  BY <1>3, <1>4, <1>5, <1>6

\* The ends of a lane add up to a number.
LEMMA EndsType ==
  ASSUME NEW l \in Lane
  PROVE  SumFunctionOnSet(l, Ends) \in Nat
<1>1. Counts(l, Ends)
  BY CounterNames DEF Counts, Lane
<1>2. QED
  BY <1>1, CounterNames, SumType

\* Count: one counter of one lane.
LEMMA CountIs ==
  ASSUME NEW ls \in [Relays -> Lane], NEW r \in Relays, NEW c \in Counters
  PROVE  /\ Count(ls, r, c) \in [Relays -> Lane]
         /\ Count(ls, r, c)[r][c] = ls[r][c] + 1
         /\ \A d \in Counters \ {c} : Count(ls, r, c)[r][d] = ls[r][d]
         /\ \A q \in Relays \ {r} : Count(ls, r, c)[q] = ls[q]
  BY DEF Count, Lane

\* CountOff: one fewer outstanding.
LEMMA CountOffIs ==
  ASSUME NEW ls \in [Relays -> Lane], NEW r \in Relays
  PROVE  /\ CountOff(ls, r) \in [Relays -> Lane]
         /\ ls[r]["outstanding"] > 0 => CountOff(ls, r)[r]["outstanding"] = ls[r]["outstanding"] - 1
         /\ \A d \in Counters \ {"outstanding"} : CountOff(ls, r)[r][d] = ls[r][d]
         /\ \A q \in Relays \ {r} : CountOff(ls, r)[q] = ls[q]
<1>1. "outstanding" \in Counters
  BY DEF Counters
<1>2. QED
  BY <1>1 DEF CountOff, Lane

\* There are finitely many deliveries.
LEMMA OpenCount ==
  ASSUME NEW ds, NEW r, NEW s
  PROVE  /\ IsFiniteSet(OpenIn(ds, r)) /\ Cardinality(OpenIn(ds, r)) \in Nat
         /\ IsFiniteSet(UnnotedIn(ds, r, s)) /\ Cardinality(UnnotedIn(ds, r, s)) \in Nat
<1>1. OpenIn(ds, r) \subseteq RelayBlocks /\ UnnotedIn(ds, r, s) \subseteq RelayBlocks
  BY DEF OpenIn, UnnotedIn
<1>2. QED
  BY <1>1, RelayAssumption, FS_Subset, FS_CardinalityType

\* A delivery that changes: nothing changes for the other relay, ...
LEMMA OpenElsewhere ==
  ASSUME NEW ds, NEW es, NEW k \in Keys, \A j \in Keys \ {k} : es[j] = ds[j],
         NEW r \in Relays, r # k[1], NEW s
  PROVE  OpenIn(es, r) = OpenIn(ds, r) /\ UnnotedIn(es, r, s) = UnnotedIn(ds, r, s)
<1>1. \A b \in RelayBlocks : es[<<r, b>>] = ds[<<r, b>>]
  BY KeyParts
<1>2. QED
  BY <1>1 DEF OpenIn, UnnotedIn

\* ... and for its own relay the counts follow it.
LEMMA OpenChanges ==
  ASSUME NEW ds, NEW es, NEW k \in Keys, \A j \in Keys \ {k} : es[j] = ds[j]
  PROVE  Cardinality(OpenIn(es, k[1])) =
           Cardinality(OpenIn(ds, k[1])) + (IF es[k].terminal = "none" THEN 1 ELSE 0)
                                         - (IF ds[k].terminal = "none" THEN 1 ELSE 0)
<1>1. k[1] \in Relays /\ k[2] \in RelayBlocks /\ k = <<k[1], k[2]>>
  BY KeyParts
<1>2. OpenIn(es, k[1]) \ {k[2]} = OpenIn(ds, k[1]) \ {k[2]}
  <2>1. \A b \in RelayBlocks : b # k[2] => es[<<k[1], b>>] = ds[<<k[1], b>>]
    BY <1>1, KeyParts
  <2>2. QED
    BY <2>1 DEF OpenIn
<1>3. /\ k[2] \in OpenIn(es, k[1]) <=> es[k].terminal = "none"
      /\ k[2] \in OpenIn(ds, k[1]) <=> ds[k].terminal = "none"
  BY <1>1 DEF OpenIn
<1>4. Cardinality(OpenIn(es, k[1])) =
        Cardinality(OpenIn(ds, k[1])) + (IF k[2] \in OpenIn(es, k[1]) THEN 1 ELSE 0)
                                      - (IF k[2] \in OpenIn(ds, k[1]) THEN 1 ELSE 0)
  BY <1>2, OpenCount, SetUpdate
<1>5. QED
  BY <1>3, <1>4

\* What a stage is still to come for stays the same but for it, ...
LEMMA UnnotedElsewhere ==
  ASSUME NEW ds, NEW es, NEW k \in Keys, \A j \in Keys \ {k} : es[j] = ds[j], NEW s
  PROVE  UnnotedIn(es, k[1], s) \ {k[2]} = UnnotedIn(ds, k[1], s) \ {k[2]}
<1>1. k[1] \in Relays /\ k[2] \in RelayBlocks /\ k = <<k[1], k[2]>>
  BY KeyParts
<1>2. \A b \in RelayBlocks : b # k[2] => es[<<k[1], b>>] = ds[<<k[1], b>>]
  BY <1>1, KeyParts
<1>3. QED
  BY <1>2 DEF UnnotedIn

\* ... and their number follows it.
LEMMA UnnotedChanges ==
  ASSUME NEW ds, NEW es, NEW k \in Keys, \A j \in Keys \ {k} : es[j] = ds[j], NEW s
  PROVE  Cardinality(UnnotedIn(es, k[1], s)) =
           Cardinality(UnnotedIn(ds, k[1], s))
             + (IF es[k].terminal = "none" /\ s \notin es[k].noted THEN 1 ELSE 0)
             - (IF ds[k].terminal = "none" /\ s \notin ds[k].noted THEN 1 ELSE 0)
<1>1. k[1] \in Relays /\ k[2] \in RelayBlocks /\ k = <<k[1], k[2]>>
  BY KeyParts
<1>2. /\ k[2] \in UnnotedIn(es, k[1], s) <=> es[k].terminal = "none" /\ s \notin es[k].noted
      /\ k[2] \in UnnotedIn(ds, k[1], s) <=> ds[k].terminal = "none" /\ s \notin ds[k].noted
  BY <1>1 DEF UnnotedIn
<1>3. UnnotedIn(es, k[1], s) \ {k[2]} = UnnotedIn(ds, k[1], s) \ {k[2]}
  <2>1. \A b \in RelayBlocks : b # k[2] => es[<<k[1], b>>] = ds[<<k[1], b>>]
    BY <1>1, KeyParts
  <2>2. QED
    BY <2>1 DEF UnnotedIn
<1>4. Cardinality(UnnotedIn(es, k[1], s)) =
        Cardinality(UnnotedIn(ds, k[1], s)) + (IF k[2] \in UnnotedIn(es, k[1], s) THEN 1 ELSE 0)
                                            - (IF k[2] \in UnnotedIn(ds, k[1], s) THEN 1 ELSE 0)
  BY <1>3, OpenCount, SetUpdate
<1>5. QED
  BY <1>2, <1>4

\* finish, and the eviction of an open delivery: one fewer outstanding, one more end.
LEMMA EndKeepsLanes ==
  ASSUME NEW ds, NEW es, NEW ls \in [Relays -> Lane], NEW k \in Keys, NEW e \in Ends,
         \A j \in Keys \ {k} : es[j] = ds[j],
         ds[k].terminal = "none", es[k].terminal # "none", LanesOK(ds, ls)
  PROVE  /\ Count(CountOff(ls, k[1]), k[1], e) \in [Relays -> Lane]
         /\ LanesOK(es, Count(CountOff(ls, k[1]), k[1], e))
<1> DEFINE r == k[1]
           ms == CountOff(ls, r)
           ns == Count(ms, r, e)
<1>1. r \in Relays /\ e \in Counters /\ e # "outstanding" /\ e # "scheduled" /\ e \notin Stages
  BY KeyParts, CounterNames
<1>2. LaneOK(ds, ls, r)
  BY <1>1 DEF LanesOK
<1>3. Cardinality(OpenIn(es, r)) = Cardinality(OpenIn(ds, r)) - 1 /\ Cardinality(OpenIn(ds, r)) \in Nat
  <2>1. Cardinality(OpenIn(ds, k[1])) \in Nat
    BY OpenCount
  <2>2. Cardinality(OpenIn(es, k[1])) =
          Cardinality(OpenIn(ds, k[1])) + (IF es[k].terminal = "none" THEN 1 ELSE 0)
                                        - (IF ds[k].terminal = "none" THEN 1 ELSE 0)
    BY OpenChanges, Zenon
  <2>3. QED
    BY <2>1, <2>2
<1>4. ls[r]["outstanding"] > 0 /\ ls[r]["outstanding"] \in Nat
  <2>1. Cardinality(OpenIn(es, r)) \in Nat
    BY OpenCount
  <2>2. QED
    BY <1>2, <1>3, <2>1 DEF LaneOK
<1>5. /\ ms \in [Relays -> Lane] /\ ms[r]["outstanding"] = ls[r]["outstanding"] - 1
      /\ \A d \in Counters \ {"outstanding"} : ms[r][d] = ls[r][d]
      /\ \A q \in Relays \ {r} : ms[q] = ls[q]
  BY <1>1, <1>4, CountOffIs
<1> HIDE DEF ms
<1>6. /\ ns \in [Relays -> Lane] /\ ns[r][e] = ms[r][e] + 1
      /\ \A d \in Counters \ {e} : ns[r][d] = ms[r][d]
      /\ \A q \in Relays \ {r} : ns[q] = ms[q]
  BY <1>1, <1>5, CountIs
<1> HIDE DEF ns
<1>7. /\ ns[r]["outstanding"] = ls[r]["outstanding"] - 1 /\ ns[r]["scheduled"] = ls[r]["scheduled"]
      /\ ns[r][e] = ls[r][e] + 1 /\ \A c \in Ends \ {e} : ns[r][c] = ls[r][c]
      /\ \A s \in Stages : ns[r][s] = ls[r][s]
  BY <1>1, <1>5, <1>6, CounterNames
<1>8. Conserved(ns[r])
  <2>1. ls[r] \in Lane /\ ns[r] \in Lane
    BY <1>1, <1>6
  <2>2. SumFunctionOnSet(ns[r], Ends) = SumFunctionOnSet(ls[r], Ends) + 1
    BY <1>7, <2>1, EndsMore
  <2>3. SumFunctionOnSet(ls[r], Ends) \in Nat
    BY <2>1, EndsType
  <2>4. ls[r]["scheduled"] = ls[r]["outstanding"] + SumFunctionOnSet(ls[r], Ends)
    BY <1>2 DEF LaneOK, Conserved
  <2>5. QED
    BY <1>4, <1>7, <2>2, <2>3, <2>4 DEF Conserved
<1>9. ASSUME NEW s \in Stages
      PROVE  ns[r][s] + Cardinality(UnnotedIn(es, r, s)) <= ns[r]["scheduled"]
  <2>1. ls[r][s] + Cardinality(UnnotedIn(ds, r, s)) <= ls[r]["scheduled"]
    BY <1>2 DEF LaneOK
  <2>2. /\ Cardinality(UnnotedIn(ds, r, s)) \in Nat
        /\ \/ Cardinality(UnnotedIn(es, r, s)) = Cardinality(UnnotedIn(ds, r, s))
           \/ Cardinality(UnnotedIn(es, r, s)) = Cardinality(UnnotedIn(ds, r, s)) - 1
    <3>1. Cardinality(UnnotedIn(ds, r, s)) \in Nat
      BY OpenCount
    <3>2. Cardinality(UnnotedIn(es, k[1], s)) =
            Cardinality(UnnotedIn(ds, k[1], s))
              + (IF es[k].terminal = "none" /\ s \notin es[k].noted THEN 1 ELSE 0)
              - (IF ds[k].terminal = "none" /\ s \notin ds[k].noted THEN 1 ELSE 0)
      BY UnnotedChanges
    <3>3. QED
      BY <3>1, <3>2
  <2>3. ls[r][s] \in Nat /\ ls[r]["scheduled"] \in Nat
    BY <1>1, CounterNames DEF Lane
  <2>4. QED
    BY <1>7, <2>1, <2>2, <2>3
<1>10. LaneOK(es, ns, r)
  BY <1>2, <1>3, <1>7, <1>8, <1>9 DEF LaneOK
<1>11. ASSUME NEW q \in Relays \ {r} PROVE LaneOK(es, ns, q)
  <2>1. LaneOK(ds, ls, q) /\ ns[q] = ls[q]
    BY <1>5, <1>6 DEF LanesOK
  <2>2. OpenIn(es, q) = OpenIn(ds, q) /\ \A s \in Stages : UnnotedIn(es, q, s) = UnnotedIn(ds, q, s)
    BY OpenElsewhere
  <2>3. QED
    BY <2>1, <2>2 DEF LaneOK
<1>12. ns = Count(CountOff(ls, k[1]), k[1], e)
  BY DEF ns, ms
<1>13. LanesOK(es, ns)
  BY <1>10, <1>11 DEF LanesOK
<1>14. QED
  BY <1>6, <1>12, <1>13

\* schedule: one more scheduled, and outstanding.
LEMMA OpenKeepsLanes ==
  ASSUME NEW ds, NEW es, NEW ls \in [Relays -> Lane], NEW k \in Keys,
         \A j \in Keys \ {k} : es[j] = ds[j],
         ds[k].terminal # "none", es[k] = [terminal |-> "none", noted |-> {}], LanesOK(ds, ls)
  PROVE  /\ Count(Count(ls, k[1], "scheduled"), k[1], "outstanding") \in [Relays -> Lane]
         /\ LanesOK(es, Count(Count(ls, k[1], "scheduled"), k[1], "outstanding"))
<1> DEFINE r == k[1]
           ms == Count(ls, r, "scheduled")
           ns == Count(ms, r, "outstanding")
<1>1. r \in Relays /\ "scheduled" \in Counters /\ "outstanding" \in Counters
  BY KeyParts, CounterNames
<1>2. LaneOK(ds, ls, r)
  BY <1>1 DEF LanesOK
<1>3. /\ ms \in [Relays -> Lane] /\ ms[r]["scheduled"] = ls[r]["scheduled"] + 1
      /\ \A d \in Counters \ {"scheduled"} : ms[r][d] = ls[r][d]
      /\ \A q \in Relays \ {r} : ms[q] = ls[q]
  BY <1>1, CountIs
<1> HIDE DEF ms
<1>4. /\ ns \in [Relays -> Lane] /\ ns[r]["outstanding"] = ms[r]["outstanding"] + 1
      /\ \A d \in Counters \ {"outstanding"} : ns[r][d] = ms[r][d]
      /\ \A q \in Relays \ {r} : ns[q] = ms[q]
  BY <1>1, <1>3, CountIs
<1> HIDE DEF ns
<1>5. /\ ns[r]["outstanding"] = ls[r]["outstanding"] + 1 /\ ns[r]["scheduled"] = ls[r]["scheduled"] + 1
      /\ \A c \in Ends : ns[r][c] = ls[r][c]
      /\ \A s \in Stages : ns[r][s] = ls[r][s]
  BY <1>1, <1>3, <1>4, CounterNames
<1>6. ls[r] \in Lane /\ ns[r] \in Lane /\ ls[r]["outstanding"] \in Nat /\ ls[r]["scheduled"] \in Nat
  BY <1>1, <1>4 DEF Lane
<1>7. Conserved(ns[r])
  <2>1. SumFunctionOnSet(ns[r], Ends) = SumFunctionOnSet(ls[r], Ends)
    BY <1>5, EndsSame
  <2>2. SumFunctionOnSet(ls[r], Ends) \in Nat
    BY <1>6, EndsType
  <2>3. ls[r]["scheduled"] = ls[r]["outstanding"] + SumFunctionOnSet(ls[r], Ends)
    BY <1>2 DEF LaneOK, Conserved
  <2>4. QED
    BY <1>5, <1>6, <2>1, <2>2, <2>3 DEF Conserved
<1>8. Cardinality(OpenIn(es, r)) = Cardinality(OpenIn(ds, r)) + 1
  <2>1. Cardinality(OpenIn(ds, k[1])) \in Nat
    BY OpenCount
  <2>2. Cardinality(OpenIn(es, k[1])) =
          Cardinality(OpenIn(ds, k[1])) + (IF es[k].terminal = "none" THEN 1 ELSE 0)
                                        - (IF ds[k].terminal = "none" THEN 1 ELSE 0)
    BY OpenChanges, Zenon
  <2>3. QED
    BY <2>1, <2>2
<1>9. ASSUME NEW s \in Stages
      PROVE  ns[r][s] + Cardinality(UnnotedIn(es, r, s)) <= ns[r]["scheduled"]
  <2>1. ls[r][s] + Cardinality(UnnotedIn(ds, r, s)) <= ls[r]["scheduled"]
    BY <1>2 DEF LaneOK
  <2>2. Cardinality(UnnotedIn(ds, r, s)) \in Nat
    BY OpenCount
  <2>3. Cardinality(UnnotedIn(es, k[1], s)) =
          Cardinality(UnnotedIn(ds, k[1], s)) + (IF k[2] \in UnnotedIn(es, k[1], s) THEN 1 ELSE 0)
                                              - (IF k[2] \in UnnotedIn(ds, k[1], s) THEN 1 ELSE 0)
    <3>1. UnnotedIn(es, k[1], s) \ {k[2]} = UnnotedIn(ds, k[1], s) \ {k[2]}
      BY UnnotedElsewhere, SMTT(30)
    <3>2. QED
      BY <3>1, OpenCount, SetUpdate
  <2>4. Cardinality(UnnotedIn(es, r, s)) = Cardinality(UnnotedIn(ds, r, s)) + 1
    <3>1. k[2] \in RelayBlocks /\ k = <<k[1], k[2]>>
      BY KeyParts
    <3>2. k[2] \in UnnotedIn(es, k[1], s) /\ k[2] \notin UnnotedIn(ds, k[1], s)
      BY <3>1 DEF UnnotedIn
    <3>3. QED
      BY <2>2, <2>3, <3>2
  <2>5. ls[r][s] \in Nat
    BY <1>6, CounterNames DEF Lane
  <2>6. QED
    BY <1>5, <1>6, <2>1, <2>2, <2>4, <2>5
<1>10. LaneOK(es, ns, r)
  BY <1>2, <1>5, <1>7, <1>8, <1>9 DEF LaneOK
<1>11. ASSUME NEW q \in Relays \ {r} PROVE LaneOK(es, ns, q)
  <2>1. LaneOK(ds, ls, q) /\ ns[q] = ls[q]
    BY <1>3, <1>4 DEF LanesOK
  <2>2. OpenIn(es, q) = OpenIn(ds, q) /\ \A s \in Stages : UnnotedIn(es, q, s) = UnnotedIn(ds, q, s)
    BY OpenElsewhere
  <2>3. QED
    BY <2>1, <2>2 DEF LaneOK
<1>12. ns = Count(Count(ls, k[1], "scheduled"), k[1], "outstanding")
  BY DEF ns, ms
<1>13. LanesOK(es, ns)
  BY <1>10, <1>11 DEF LanesOK
<1>14. QED
  BY <1>4, <1>12, <1>13

\* note_stage: one more of the stage, which cannot be noted again.
LEMMA NoteKeepsLanes ==
  ASSUME NEW ds, NEW es, NEW ls \in [Relays -> Lane], NEW k \in Keys, NEW st \in Stages,
         \A j \in Keys \ {k} : es[j] = ds[j],
         ds[k].terminal = "none", es[k].terminal = "none", st \notin ds[k].noted,
         es[k].noted = ds[k].noted \cup {st}, LanesOK(ds, ls)
  PROVE  /\ Count(ls, k[1], st) \in [Relays -> Lane]
         /\ LanesOK(es, Count(ls, k[1], st))
<1> DEFINE r == k[1]
           ns == Count(ls, r, st)
<1>1. r \in Relays /\ st \in Counters /\ st # "outstanding" /\ st # "scheduled" /\ st \notin Ends
  BY KeyParts, CounterNames
<1>2. LaneOK(ds, ls, r)
  BY <1>1 DEF LanesOK
<1>3. /\ ns \in [Relays -> Lane] /\ ns[r][st] = ls[r][st] + 1
      /\ \A d \in Counters \ {st} : ns[r][d] = ls[r][d]
      /\ \A q \in Relays \ {r} : ns[q] = ls[q]
  BY <1>1, CountIs
<1> HIDE DEF ns
<1>4. /\ ns[r]["outstanding"] = ls[r]["outstanding"] /\ ns[r]["scheduled"] = ls[r]["scheduled"]
      /\ \A c \in Ends : ns[r][c] = ls[r][c]
      /\ \A s \in Stages \ {st} : ns[r][s] = ls[r][s]
  BY <1>1, <1>3, CounterNames
<1>5. Conserved(ns[r])
  <2>1. SumFunctionOnSet(ns[r], Ends) = SumFunctionOnSet(ls[r], Ends)
    BY <1>4, EndsSame
  <2>2. QED
    BY <1>2, <1>4, <2>1 DEF LaneOK, Conserved
<1>6. Cardinality(OpenIn(es, r)) = Cardinality(OpenIn(ds, r))
  <2>1. Cardinality(OpenIn(ds, k[1])) \in Nat
    BY OpenCount
  <2>2. Cardinality(OpenIn(es, k[1])) =
          Cardinality(OpenIn(ds, k[1])) + (IF es[k].terminal = "none" THEN 1 ELSE 0)
                                        - (IF ds[k].terminal = "none" THEN 1 ELSE 0)
    BY OpenChanges, Zenon
  <2>3. QED
    BY <2>1, <2>2
<1>7. ASSUME NEW s \in Stages
      PROVE  ns[r][s] + Cardinality(UnnotedIn(es, r, s)) <= ns[r]["scheduled"]
  <2>1. ls[r][s] + Cardinality(UnnotedIn(ds, r, s)) <= ls[r]["scheduled"]
    BY <1>2 DEF LaneOK
  <2>2. Cardinality(UnnotedIn(ds, r, s)) \in Nat /\ ls[r][s] \in Nat /\ ls[r]["scheduled"] \in Nat
    BY <1>1, OpenCount, CounterNames DEF Lane
  <2>3. Cardinality(UnnotedIn(es, k[1], s)) =
          Cardinality(UnnotedIn(ds, k[1], s))
            + (IF es[k].terminal = "none" /\ s \notin es[k].noted THEN 1 ELSE 0)
            - (IF ds[k].terminal = "none" /\ s \notin ds[k].noted THEN 1 ELSE 0)
    BY UnnotedChanges
  <2>4. CASE s = st
    <3>1. Cardinality(UnnotedIn(es, r, s)) = Cardinality(UnnotedIn(ds, r, s)) - 1
      BY <2>2, <2>3, <2>4
    <3>2. QED
      BY <1>3, <1>4, <2>1, <2>2, <2>4, <3>1
  <2>5. CASE s # st
    <3>1. Cardinality(UnnotedIn(es, r, s)) = Cardinality(UnnotedIn(ds, r, s))
      BY <2>2, <2>3, <2>5
    <3>2. QED
      BY <1>4, <2>1, <2>5, <3>1
  <2>6. QED
    BY <2>4, <2>5
<1>8. LaneOK(es, ns, r)
  BY <1>2, <1>4, <1>5, <1>6, <1>7 DEF LaneOK
<1>9. ASSUME NEW q \in Relays \ {r} PROVE LaneOK(es, ns, q)
  <2>1. LaneOK(ds, ls, q) /\ ns[q] = ls[q]
    BY <1>3 DEF LanesOK
  <2>2. OpenIn(es, q) = OpenIn(ds, q) /\ \A s \in Stages : UnnotedIn(es, q, s) = UnnotedIn(ds, q, s)
    BY OpenElsewhere
  <2>3. QED
    BY <2>1, <2>2 DEF LaneOK
<1>10. LanesOK(es, ns)
  BY <1>8, <1>9 DEF LanesOK
<1>11. QED
  BY <1>3, <1>10 DEF ns

\* A delivery that has ended may be forgotten.
LEMMA ForgetKeepsLanes ==
  ASSUME NEW ds, NEW es, NEW ls, NEW k \in Keys, \A j \in Keys \ {k} : es[j] = ds[j],
         ds[k].terminal # "none", es[k].terminal # "none", LanesOK(ds, ls)
  PROVE  LanesOK(es, ls)
<1>1. \A j \in Keys : (es[j].terminal = "none" <=> ds[j].terminal = "none")
                      /\ (es[j].terminal = "none" => es[j] = ds[j])
  OBVIOUS
<1>2. \A r \in Relays, b \in RelayBlocks : <<r, b>> \in Keys
  BY KeyParts
<1>3. \A r \in Relays : OpenIn(es, r) = OpenIn(ds, r)
  BY <1>1, <1>2 DEF OpenIn
<1>4. \A r \in Relays, s \in Stages : UnnotedIn(es, r, s) = UnnotedIn(ds, r, s)
  BY <1>1, <1>2 DEF UnnotedIn
<1>5. QED
  BY <1>3, <1>4 DEF LanesOK, LaneOK

-----------------------------------------------------------------------------
(***************************************************************************)
(* The order of the deliveries.                                            *)
(***************************************************************************)

\* What Tail leaves, and what Append adds.
LEMMA TailRange ==
  ASSUME NEW S, NEW s \in Seq(S), s # <<>>
  PROVE  /\ Head(s) \in S /\ Tail(s) \in Seq(S)
         /\ Range(s) = {Head(s)} \cup Range(Tail(s))
         /\ NoDuplicates(s) => Head(s) \notin Range(Tail(s)) /\ NoDuplicates(Tail(s))
<1>1. /\ Head(s) \in S /\ Tail(s) \in Seq(S) /\ Len(Tail(s)) = Len(s) - 1
      /\ \A i \in 1 .. Len(Tail(s)) : Tail(s)[i] = s[i + 1]
  BY HeadTailProperties
<1>2. Head(s) = s[1] /\ Len(s) \in Nat /\ Len(s) >= 1
  BY EmptySeq
<1>3. Range(s) = {s[i] : i \in 1 .. Len(s)} /\ Range(Tail(s)) = {Tail(s)[i] : i \in 1 .. Len(Tail(s))}
  BY <1>1, RangeEquality
<1>4. \A i \in 1 .. Len(s) : i = 1 \/ (i - 1 \in 1 .. Len(Tail(s)) /\ Tail(s)[i - 1] = s[i])
  BY <1>1, <1>2
<1>5. Range(s) = {Head(s)} \cup Range(Tail(s))
  <2>1. ASSUME NEW x \in Range(s) PROVE x \in {Head(s)} \cup Range(Tail(s))
    BY <1>2, <1>3, <1>4, ZenonT(30)
  <2>2. ASSUME NEW x \in {Head(s)} \cup Range(Tail(s)) PROVE x \in Range(s)
    <3>1. CASE x = Head(s)
      BY <1>2, <1>3, <3>1
    <3>2. CASE x \in Range(Tail(s))
      <4>1. PICK i \in 1 .. Len(Tail(s)) : x = Tail(s)[i]
        BY <1>3, <3>2
      <4>2. i + 1 \in 1 .. Len(s) /\ x = s[i + 1]
        BY <1>1, <1>2, <4>1
      <4>3. QED
        BY <1>3, <4>2
    <3>3. QED
      BY <3>1, <3>2
  <2>3. QED
    BY <2>1, <2>2
<1>6. ASSUME NoDuplicates(s)
      PROVE  Head(s) \notin Range(Tail(s)) /\ NoDuplicates(Tail(s))
  <2>1. \A i \in 1 .. Len(Tail(s)) : i + 1 \in 1 .. Len(s) /\ Tail(s)[i] = s[i + 1]
    BY <1>1, <1>2
  <2>2. NoDuplicates(Tail(s))
    BY <1>6, <2>1 DEF NoDuplicates
  <2>3. ASSUME NEW i \in 1 .. Len(Tail(s)), Tail(s)[i] = s[1] PROVE FALSE
    <3>1. i + 1 \in 1 .. Len(s) /\ 1 \in 1 .. Len(s) /\ s[i + 1] = s[1]
      BY <1>2, <2>1, <2>3
    <3>2. i + 1 = 1
      BY <1>6, <3>1 DEF NoDuplicates
    <3>3. QED
      BY <3>2
  <2>4. QED
    BY <1>2, <1>3, <2>2, <2>3
<1>7. QED
  BY <1>1, <1>5, <1>6

\* What Append adds.
LEMMA AppendRange ==
  ASSUME NEW S, NEW s \in Seq(S), NEW e \in S
  PROVE  /\ Append(s, e) \in Seq(S)
         /\ Range(Append(s, e)) = Range(s) \cup {e}
         /\ NoDuplicates(s) /\ e \notin Range(s) => NoDuplicates(Append(s, e))
<1> DEFINE u == Append(s, e)
<1>1. /\ u \in Seq(S) /\ Len(u) = Len(s) + 1 /\ Len(s) \in Nat
      /\ \A i \in 1 .. Len(s) : u[i] = s[i]
      /\ u[Len(s) + 1] = e
  BY AppendProperties
<1> HIDE DEF u
<1>2. Range(u) = {u[i] : i \in 1 .. Len(u)} /\ Range(s) = {s[i] : i \in 1 .. Len(s)}
  BY <1>1, RangeEquality
<1>3. \A i \in 1 .. Len(u) : i \in 1 .. Len(s) \/ i = Len(s) + 1
  BY <1>1
<1>4. \A i \in 1 .. Len(s) : i \in 1 .. Len(u)
  BY <1>1
<1>5. Len(s) + 1 \in 1 .. Len(u)
  BY <1>1
<1>6. Range(u) = Range(s) \cup {e}
  BY <1>1, <1>2, <1>3, <1>4, <1>5
<1>7. ASSUME NoDuplicates(s), e \notin Range(s) PROVE NoDuplicates(u)
  <2>1. \A i \in 1 .. Len(s) : u[i] # e
    BY <1>1, <1>2, <1>7
  <2>2. QED
    BY <1>1, <1>3, <1>7, <2>1 DEF NoDuplicates
<1>8. QED
  BY <1>1, <1>6, <1>7 DEF u

-----------------------------------------------------------------------------
(***************************************************************************)
(* The steps.                                                              *)
(***************************************************************************)

\* Nothing is scheduled.
LEMMA RelayStarts ==
  RelayInit => RelayInv
<1> SUFFICES ASSUME RelayInit PROVE RelayInv
  OBVIOUS
<1> USE DEF RelayInit
<1>1. NoCounts \in Lane /\ \A c \in Counters : NoCounts[c] = 0
  BY DEF NoCounts, Lane, Counters
<1>2. Untracked \in Delivery /\ Untracked.terminal = "untracked"
  BY DEF Untracked, Delivery
<1>3. RelayTypeOK
  <2>1. queue \in Seq(Announcement) /\ tracked \in Seq(Keys)
    OBVIOUS
  <2>2. lanes \in [Relays -> Lane] /\ deliveries \in [Keys -> Delivery]
    BY <1>1, <1>2
  <2>3. QED
    BY <2>1, <2>2 DEF RelayTypeOK
<1>4. Range(queue) = {} /\ Range(tracked) = {} /\ Len(tracked) = 0
  BY DEF Range
<1>5. AnnouncedOnce /\ GuardKnows /\ AcksAreSigned
  BY <1>4 DEF AnnouncedOnce, Sent, GuardKnows, AcksAreSigned
<1>6. TrackedExact /\ AcceptedIfAcked
  BY <1>2, <1>4 DEF TrackedExact, AcceptedIfAcked, NoDuplicates
<1>7. ASSUME NEW r \in Relays PROVE LaneOK(deliveries, lanes, r)
  <2>1. OpenIn(deliveries, r) = {} /\ \A s \in Stages : UnnotedIn(deliveries, r, s) = {}
    BY <1>2, KeyParts DEF OpenIn, UnnotedIn
  <2>2. Cardinality({}) = 0
    BY FS_EmptySet
  <2>3. lanes[r] = NoCounts
    BY <1>7
  <2>4. SumFunctionOnSet(NoCounts, Ends) = 0
    BY <1>1, CounterNames, EndsZero
  <2>5. NoCounts["scheduled"] = 0 /\ NoCounts["outstanding"] = 0 /\ \A s \in Stages : NoCounts[s] = 0
    BY <1>1, CounterNames
  <2>6. Conserved(NoCounts)
    BY <2>4, <2>5 DEF Conserved
  <2>7. Conserved(lanes[r]) /\ lanes[r]["outstanding"] = Cardinality(OpenIn(deliveries, r))
    BY <2>1, <2>2, <2>3, <2>5, <2>6, Zenon
  <2>8. ASSUME NEW s \in Stages
        PROVE  lanes[r][s] + Cardinality(UnnotedIn(deliveries, r, s)) <= lanes[r]["scheduled"]
    <3>1. lanes[r][s] = 0 /\ Cardinality(UnnotedIn(deliveries, r, s)) = 0 /\ lanes[r]["scheduled"] = 0
      BY <2>1, <2>2, <2>3, <2>5, Zenon
    <3>2. QED
      BY <3>1
  <2>9. QED
    BY <2>7, <2>8 DEF LaneOK
<1>8. QED
  BY <1>3, <1>5, <1>6, <1>7 DEF RelayInv, LanesOK

\* A step that leaves the matrix alone leaves what is said of it alone.
LEMMA MatrixSame ==
  ASSUME RelayInv, UNCHANGED matrix, taken \subseteq taken'
  PROVE  TrackedExact' /\ LanesOK(deliveries, lanes)' /\ AcceptedIfAcked'
<1>1. deliveries' = deliveries /\ tracked' = tracked /\ lanes' = lanes
  BY DEF matrix
<1>2. QED
  BY <1>1 DEF RelayInv, TrackedExact, LanesOK, LaneOK, AcceptedIfAcked, Tracks

\* The clock.
LEMMA TickKeepsRelayInv ==
  ASSUME RelayInv, Tick
  PROVE  RelayInv'
<1>1. /\ now' = now + 1 /\ queue' = queue /\ scheduled' = scheduled /\ wire' = wire /\ acks' = acks
      /\ taken' = taken /\ guard' = guard /\ verified' = verified /\ UNCHANGED matrix
  BY DEF Tick
<1>2. RelayTypeOK'
  BY <1>1 DEF RelayInv, RelayTypeOK, matrix
<1>3. AnnouncedOnce' /\ AcksAreSigned'
  BY <1>1 DEF RelayInv, AnnouncedOnce, AcksAreSigned, Sent
<1>4. GuardKnows'
  <2>1. \A a \in acks : a.expires < now => a.expires < now + 1
    BY DEF RelayInv, RelayTypeOK, Announcement
  <2>2. QED
    BY <1>1, <2>1 DEF RelayInv, GuardKnows
<1>5. QED
  BY <1>1, <1>2, <1>3, <1>4, MatrixSame DEF RelayInv

\* A block is scheduled for both relays, and was for neither.
LEMMA ScheduleKeepsRelayInv ==
  ASSUME RelayInv, NEW b \in RelayBlocks, try_schedule(b)
  PROVE  RelayInv'
<1> DEFINE d == [relay |-> "D", block |-> b, expires |-> now + Lifetime]
           e == [relay |-> "E", block |-> b, expires |-> now + Lifetime]
<1>1. /\ now' = now /\ wire' = wire /\ acks' = acks /\ taken' = taken /\ guard' = guard
      /\ verified' = verified /\ UNCHANGED matrix /\ b \notin scheduled
  BY DEF try_schedule
<1>2. TrackedExact' /\ LanesOK(deliveries, lanes)' /\ AcceptedIfAcked'
  BY <1>1, MatrixSame
<1>3. GuardKnows' /\ AcksAreSigned'
  BY <1>1 DEF RelayInv, GuardKnows, AcksAreSigned
<1>4. CASE queue' = queue /\ scheduled' = scheduled
  BY <1>1, <1>2, <1>3, <1>4 DEF RelayInv, RelayTypeOK, AnnouncedOnce, Sent, matrix
<1>5. CASE queue' = queue \o <<d, e>> /\ scheduled' = scheduled \cup {b}
  <2>1. d \in Announcement /\ e \in Announcement
    BY RelayAssumption DEF RelayInv, RelayTypeOK, Announcement, Relays
  <2>2. d.block = b /\ e.block = b /\ KeyOf(d) # KeyOf(e)
    BY DEF KeyOf
  <2> HIDE DEF d, e
  <2>3. <<d, e>> \in Seq(Announcement) /\ Range(<<d, e>>) = {d, e}
    BY <2>1 DEF Range
  <2>4. queue \in Seq(Announcement)
    BY DEF RelayInv, RelayTypeOK
  <2>5. queue' \in Seq(Announcement)
    BY <1>5, <2>3, <2>4
  <2>6. Range(queue') = Range(queue) \cup {d, e}
    <3>1. Range(queue \o <<d, e>>) = Range(queue) \cup Range(<<d, e>>)
      BY <2>3, <2>4, RangeConcatenation, ZenonT(30)
    <3>2. QED
      BY <1>5, <2>3, <3>1, Zenon
  <2>7. Sent' = Sent \cup {d, e}
    BY <1>1, <2>6 DEF Sent
  <2>8. RelayTypeOK'
    BY <1>1, <1>5, <2>5 DEF RelayInv, RelayTypeOK, matrix
  <2>9. AnnouncedOnce'
    <3>1. \A x \in Sent : x.block # b
      BY <1>1 DEF RelayInv, AnnouncedOnce
    <3>2. \A x \in Sent : KeyOf(x) # KeyOf(d) /\ KeyOf(x) # KeyOf(e)
      BY <2>2, <3>1 DEF KeyOf
    <3>3. /\ \A x, y \in Sent : KeyOf(x) = KeyOf(y) => x = y
          /\ \A x \in Sent : x.block \in scheduled
      BY DEF RelayInv, AnnouncedOnce
    <3>4. \A x, y \in Sent' : KeyOf(x) = KeyOf(y) => x = y
      BY <2>2, <2>7, <3>2, <3>3
    <3>5. \A x \in Sent' : x.block \in scheduled'
      BY <1>5, <2>2, <2>7, <3>3
    <3>6. QED
      BY <3>4, <3>5 DEF AnnouncedOnce
  <2>10. QED
    BY <1>2, <1>3, <2>8, <2>9 DEF RelayInv
<1>6. QED
  BY <1>4, <1>5 DEF try_schedule

\* The oldest delivery makes room: if it was open, it is one more drop.
LEMMA EvictKeepsLanes ==
  ASSUME RelayInv, NEW h \in Keys, NEW mid, mid[h] = Untracked,
         \A k \in Keys \ {h} : mid[k] = deliveries[k]
  PROVE  Evicted(h) \in [Relays -> Lane] /\ LanesOK(mid, Evicted(h))
<1>1. lanes \in [Relays -> Lane] /\ LanesOK(deliveries, lanes)
  BY DEF RelayInv, RelayTypeOK
<1>2. mid[h].terminal # "none"
  BY DEF Untracked
<1>3. CASE deliveries[h].terminal = "none"
  <2>1. "drop" \in Ends
    BY CounterNames
  <2>2. Evicted(h) = Count(CountOff(lanes, h[1]), h[1], "drop")
    BY <1>3 DEF Evicted, Outstanding
  <2>3. /\ Count(CountOff(lanes, h[1]), h[1], "drop") \in [Relays -> Lane]
        /\ LanesOK(mid, Count(CountOff(lanes, h[1]), h[1], "drop"))
    BY <1>1, <1>2, <1>3, <2>1, EndKeepsLanes
  <2>4. QED
    BY <2>2, <2>3
<1>4. CASE deliveries[h].terminal # "none"
  <2>1. Evicted(h) = lanes
    BY <1>4 DEF Evicted, Outstanding
  <2>2. LanesOK(mid, lanes)
    BY <1>1, <1>2, <1>4, ForgetKeepsLanes
  <2>3. QED
    BY <1>1, <2>1, <2>2
<1>5. QED
  BY <1>3, <1>4

\* schedule of a delivery that is not tracked, with what has been kept of the others.
LEMMA OpenKeepsMatrix ==
  ASSUME RelayInv, NEW key \in Keys, NEW kept \in Seq(Keys), NEW mid, NEW after \in [Relays -> Lane],
         LanesOK(mid, after), NoDuplicates(kept), key \notin Range(kept),
         \A k \in Range(kept) : k \in Range(tracked),
         \A k \in Keys : mid[k] = IF k \in Range(kept) THEN deliveries[k] ELSE Untracked,
         tracked' = Append(kept, key),
         deliveries' = [k \in Keys |-> IF k = key THEN [terminal |-> "none", noted |-> {}]
                                       ELSE IF k \in Range(kept) THEN deliveries[k] ELSE Untracked],
         lanes' = Count(Count(after, key[1], "scheduled"), key[1], "outstanding"),
         taken' = taken
  PROVE  /\ deliveries' \in [Keys -> Delivery] /\ tracked' \in Seq(Keys) /\ lanes' \in [Relays -> Lane]
         /\ TrackedExact' /\ AcceptedIfAcked' /\ LanesOK(deliveries, lanes)'
<1> DEFINE opened == [terminal |-> "none", noted |-> {}]
<1>1. opened \in Delivery /\ Untracked \in Delivery /\ Untracked.terminal = "untracked"
  BY DEF Delivery, Untracked
<1>2. deliveries \in [Keys -> Delivery]
  BY DEF RelayInv, RelayTypeOK
<1>3. deliveries' \in [Keys -> Delivery]
  BY <1>1, <1>2
<1>4. /\ deliveries'[key] = opened
      /\ \A k \in Keys \ {key} : deliveries'[k] = mid[k]
      /\ \A k \in Range(kept) : k # key
  OBVIOUS
<1>5. /\ tracked' \in Seq(Keys) /\ Range(tracked') = Range(kept) \cup {key} /\ NoDuplicates(tracked')
  BY AppendRange
<1>6. TrackedExact'
  <2>1. ASSUME NEW k \in Keys
        PROVE  IF k \in Range(tracked') THEN deliveries'[k].terminal # "untracked"
               ELSE deliveries'[k] = Untracked
    <3>1. CASE k = key
      BY <1>4, <1>5, <3>1
    <3>2. CASE k # key /\ k \in Range(kept)
      <4>1. deliveries[k].terminal # "untracked"
        BY <3>2 DEF RelayInv, TrackedExact, Tracks
      <4>2. QED
        BY <1>4, <1>5, <3>2, <4>1
    <3>3. CASE k # key /\ k \notin Range(kept)
      BY <1>4, <1>5, <3>3
    <3>4. QED
      BY <3>1, <3>2, <3>3
  <2>2. QED
    BY <1>5, <2>1 DEF TrackedExact, Tracks
<1>7. AcceptedIfAcked'
  <2>1. ASSUME NEW k \in Keys, deliveries'[k].terminal = "ack_verified" PROVE k \in taken
    <3>1. k # key
      BY <1>4, <2>1
    <3>2. deliveries'[k] = deliveries[k]
      BY <1>1, <1>4, <2>1, <3>1
    <3>3. QED
      BY <2>1, <3>2 DEF RelayInv, AcceptedIfAcked
  <2>2. QED
    BY <2>1 DEF AcceptedIfAcked
<1>8. lanes' \in [Relays -> Lane] /\ LanesOK(deliveries', lanes')
  <2>1. mid[key] = Untracked
    OBVIOUS
  <2>2. mid[key].terminal # "none"
    BY <1>1, <2>1
  <2>3. \A es : es[key] = [terminal |-> "none", noted |-> {}] /\ (\A k \in Keys \ {key} : es[k] = mid[k])
          => /\ Count(Count(after, key[1], "scheduled"), key[1], "outstanding") \in [Relays -> Lane]
             /\ LanesOK(es, Count(Count(after, key[1], "scheduled"), key[1], "outstanding"))
    BY <2>2, OpenKeepsLanes
  <2>4. QED
    BY <1>4, <2>3
<1>9. LanesOK(deliveries, lanes)'
  BY <1>8 DEF LanesOK, LaneOK
<1>10. QED
  BY <1>3, <1>5, <1>6, <1>7, <1>8, <1>9

\* pop and schedule.
LEMMA AnnounceKeepsRelayInv ==
  ASSUME RelayInv, Announce
  PROVE  RelayInv'
<1> DEFINE a == Head(queue)
           full == Len(tracked) >= MaxDeliveries
           kept == IF full THEN Tail(tracked) ELSE tracked
           after == IF full THEN Evicted(Head(tracked)) ELSE lanes
<1>1. /\ queue # <<>> /\ queue' = Tail(queue) /\ wire' = wire \cup {a}
      /\ now' = now /\ scheduled' = scheduled /\ acks' = acks /\ taken' = taken /\ guard' = guard
      /\ verified' = verified
  BY DEF Announce
<1>2. queue \in Seq(Announcement)
  BY DEF RelayInv, RelayTypeOK
<1>3. a \in Announcement /\ queue' \in Seq(Announcement) /\ Range(queue) = {a} \cup Range(queue')
  BY <1>1, <1>2, TailRange
<1>4. Sent' = Sent
  BY <1>1, <1>3 DEF Sent
<1>5. AnnouncedOnce' /\ GuardKnows' /\ AcksAreSigned'
  BY <1>1, <1>4 DEF RelayInv, AnnouncedOnce, GuardKnows, AcksAreSigned
<1>6. /\ deliveries' \in [Keys -> Delivery] /\ tracked' \in Seq(Keys) /\ lanes' \in [Relays -> Lane]
      /\ TrackedExact' /\ AcceptedIfAcked' /\ LanesOK(deliveries, lanes)'
  <2>1. CASE UNCHANGED matrix
    <3>1. deliveries' = deliveries /\ tracked' = tracked /\ lanes' = lanes
      BY <2>1 DEF matrix
    <3>2. TrackedExact' /\ AcceptedIfAcked' /\ LanesOK(deliveries, lanes)'
      BY <1>1, <2>1, MatrixSame
    <3>3. QED
      BY <3>1, <3>2 DEF RelayInv, RelayTypeOK
  <2>2. CASE /\ ~ Tracks(KeyOf(a))
             /\ tracked' = Append(kept, KeyOf(a))
             /\ deliveries' = [k \in Keys |->
                                 IF k = KeyOf(a) THEN [terminal |-> "none", noted |-> {}]
                                 ELSE IF k \in Range(kept) THEN deliveries[k] ELSE Untracked]
             /\ lanes' = Count(Count(after, a.relay, "scheduled"), a.relay, "outstanding")
    <3>1. PICK key \in Keys : key = KeyOf(a) /\ key[1] = a.relay
      BY <1>3, KeyParts
    <3>2. PICK mid : mid = [k \in Keys |-> IF k \in Range(kept) THEN deliveries[k] ELSE Untracked]
      OBVIOUS
    <3>3. tracked \in Seq(Keys) /\ NoDuplicates(tracked) /\ lanes \in [Relays -> Lane]
      BY DEF RelayInv, RelayTypeOK, TrackedExact
    <3>4. \A k \in Keys : k \notin Range(tracked) => deliveries[k] = Untracked
      BY DEF RelayInv, TrackedExact
    <3>5. key \notin Range(tracked)
      BY <2>2, <3>1 DEF RelayInv, TrackedExact
    <3>6. /\ kept \in Seq(Keys) /\ NoDuplicates(kept) /\ (\A k \in Range(kept) : k \in Range(tracked))
          /\ after \in [Relays -> Lane] /\ LanesOK(mid, after)
      <4>1. CASE full
        <5>1. Len(tracked) >= 1
          BY <3>3, <4>1, RelayAssumption
        <5>2. tracked # <<>>
          BY <3>3, <5>1, EmptySeq
        <5>3. PICK h \in Keys : h = Head(tracked)
          BY <3>3, <5>2, TailRange
        <5>4. /\ Tail(tracked) \in Seq(Keys) /\ Range(tracked) = {h} \cup Range(Tail(tracked))
              /\ h \notin Range(Tail(tracked)) /\ NoDuplicates(Tail(tracked))
          BY <3>3, <5>2, <5>3, TailRange
        <5>5. kept = Tail(tracked) /\ after = Evicted(h)
          BY <4>1, <5>3
        <5> HIDE DEF kept, after, full
        <5>6. mid[h] = Untracked /\ \A k \in Keys \ {h} : mid[k] = deliveries[k]
          BY <3>2, <3>4, <5>4, <5>5
        <5>7. Evicted(h) \in [Relays -> Lane] /\ LanesOK(mid, Evicted(h))
          BY <5>6, EvictKeepsLanes
        <5>8. QED
          BY <5>4, <5>5, <5>7
      <4>2. CASE ~ full
        <5>1. kept = tracked /\ after = lanes
          BY <4>2
        <5> HIDE DEF kept, after, full
        <5>2. \A k \in Keys : mid[k] = deliveries[k]
          BY <3>2, <3>4, <5>1
        <5>3. LanesOK(mid, lanes)
          <6>1. LanesOK(deliveries, lanes)
            BY DEF RelayInv
          <6>2. \A r \in Relays : OpenIn(mid, r) = OpenIn(deliveries, r)
            BY <5>2, KeyParts DEF OpenIn
          <6>3. \A r \in Relays, s \in Stages : UnnotedIn(mid, r, s) = UnnotedIn(deliveries, r, s)
            BY <5>2, KeyParts DEF UnnotedIn
          <6>4. QED
            BY <6>1, <6>2, <6>3 DEF LanesOK, LaneOK
        <5>4. QED
          BY <3>3, <5>1, <5>3
      <4>3. QED
        BY <4>1, <4>2
    <3> HIDE DEF kept, after, full, a
    <3>7. PICK kp \in Seq(Keys) : kp = kept
      BY <3>6
    <3>8. PICK af \in [Relays -> Lane] : af = after
      BY <3>6
    <3>9. key \notin Range(kp)
      BY <3>5, <3>6, <3>7
    <3>10. \A k \in Keys : mid[k] = IF k \in Range(kp) THEN deliveries[k] ELSE Untracked
      BY <3>2, <3>7
    <3>11. /\ tracked' = Append(kp, key)
           /\ deliveries' = [k \in Keys |-> IF k = key THEN [terminal |-> "none", noted |-> {}]
                                            ELSE IF k \in Range(kp) THEN deliveries[k] ELSE Untracked]
           /\ lanes' = Count(Count(af, key[1], "scheduled"), key[1], "outstanding")
      BY <2>2, <3>1, <3>7, <3>8, Zenon
    <3>12. LanesOK(mid, af) /\ NoDuplicates(kp) /\ \A k \in Range(kp) : k \in Range(tracked)
      BY <3>6, <3>7, <3>8, Zenon
    <3>13. QED
      BY <1>1, <3>9, <3>10, <3>11, <3>12, OpenKeepsMatrix
  <2>3. QED
    BY <2>1, <2>2 DEF Announce
<1>7. RelayTypeOK'
  BY <1>1, <1>3, <1>6 DEF RelayInv, RelayTypeOK
<1>8. QED
  BY <1>5, <1>6, <1>7 DEF RelayInv

\* note_stage.
LEMMA NoteKeepsRelayInv ==
  ASSUME RelayInv, NEW a \in wire, NEW at_stage \in Stages, note_stage(a, at_stage)
  PROVE  RelayInv'
<1>1. /\ now' = now /\ queue' = queue /\ scheduled' = scheduled /\ tracked' = tracked /\ wire' = wire
      /\ acks' = acks /\ taken' = taken /\ guard' = guard /\ verified' = verified
  BY DEF note_stage
<1>2. a \in Announcement
  BY DEF RelayInv, RelayTypeOK
<1>3. PICK key \in Keys : key = KeyOf(a) /\ key[1] = a.relay
  BY <1>2, KeyParts
<1>4. deliveries \in [Keys -> Delivery] /\ lanes \in [Relays -> Lane]
  BY DEF RelayInv, RelayTypeOK
<1>5. /\ deliveries[key].terminal = "none" /\ at_stage \notin deliveries[key].noted
      /\ deliveries' = [deliveries EXCEPT ![key].noted = @ \cup {at_stage}]
      /\ lanes' = Count(lanes, key[1], at_stage)
  BY <1>3 DEF note_stage, Outstanding
<1>6. /\ deliveries' \in [Keys -> Delivery] /\ \A k \in Keys \ {key} : deliveries'[k] = deliveries[k]
      /\ deliveries'[key].terminal = "none"
      /\ deliveries'[key].noted = deliveries[key].noted \cup {at_stage}
  BY <1>4, <1>5 DEF Delivery
<1>7. lanes' \in [Relays -> Lane] /\ LanesOK(deliveries', lanes')
  <2>1. \A es : /\ \A k \in Keys \ {key} : es[k] = deliveries[k]
                /\ es[key].terminal = "none"
                /\ es[key].noted = deliveries[key].noted \cup {at_stage}
          => Count(lanes, key[1], at_stage) \in [Relays -> Lane] /\ LanesOK(es, Count(lanes, key[1], at_stage))
    BY <1>4, <1>5, NoteKeepsLanes DEF RelayInv
  <2>2. QED
    BY <1>5, <1>6, <2>1
<1>8. TrackedExact'
  <2>1. key \in Range(tracked)
    BY <1>5 DEF RelayInv, TrackedExact, Untracked
  <2>2. QED
    BY <1>1, <1>6, <2>1 DEF RelayInv, TrackedExact, Tracks
<1>9. AcceptedIfAcked'
  <2>1. \A k \in Keys : deliveries'[k].terminal = deliveries[k].terminal
    BY <1>5, <1>6
  <2>2. QED
    BY <1>1, <2>1 DEF RelayInv, AcceptedIfAcked
<1>10. RelayTypeOK'
  BY <1>1, <1>6, <1>7 DEF RelayInv, RelayTypeOK
<1>11. AnnouncedOnce' /\ GuardKnows' /\ AcksAreSigned'
  BY <1>1 DEF RelayInv, AnnouncedOnce, GuardKnows, AcksAreSigned, Sent
<1>12. LanesOK(deliveries, lanes)'
  BY <1>7 DEF LanesOK, LaneOK
<1>13. QED
  BY <1>8, <1>9, <1>10, <1>11, <1>12 DEF RelayInv

\* finish: an open delivery ends, and an end that says "acknowledged" is of a block
\* the relay took.
LEMMA FinishKeepsMatrix ==
  ASSUME RelayInv, NEW a \in wire, NEW e \in Ends, finish(a, e), taken' = taken,
         e = "ack_verified" => KeyOf(a) \in taken
  PROVE  /\ deliveries' \in [Keys -> Delivery] /\ tracked' = tracked /\ lanes' \in [Relays -> Lane]
         /\ TrackedExact' /\ AcceptedIfAcked' /\ LanesOK(deliveries, lanes)'
<1>1. a \in Announcement /\ deliveries \in [Keys -> Delivery] /\ lanes \in [Relays -> Lane]
  BY DEF RelayInv, RelayTypeOK
<1>2. PICK key \in Keys : key = KeyOf(a) /\ key[1] = a.relay
  BY <1>1, KeyParts
<1>3. CASE deliveries[key].terminal = "none"
  <2>1. /\ deliveries' = [deliveries EXCEPT ![key].terminal = e] /\ tracked' = tracked
        /\ lanes' = Count(CountOff(lanes, key[1]), key[1], e)
    BY <1>2, <1>3 DEF finish, Outstanding
  <2>2. e # "none" /\ e # "untracked"
    BY CounterNames
  <2>3. /\ deliveries' \in [Keys -> Delivery] /\ \A k \in Keys \ {key} : deliveries'[k] = deliveries[k]
        /\ deliveries'[key].terminal = e
    BY <1>1, <2>1 DEF Delivery
  <2>4. lanes' \in [Relays -> Lane] /\ LanesOK(deliveries', lanes')
    <3>1. \A es : (\A k \in Keys \ {key} : es[k] = deliveries[k]) /\ es[key].terminal # "none"
            => /\ Count(CountOff(lanes, key[1]), key[1], e) \in [Relays -> Lane]
               /\ LanesOK(es, Count(CountOff(lanes, key[1]), key[1], e))
      BY <1>1, <1>3, EndKeepsLanes DEF RelayInv
    <3>2. QED
      BY <2>1, <2>2, <2>3, <3>1
  <2>5. TrackedExact'
    <3>1. key \in Range(tracked)
      BY <1>3 DEF RelayInv, TrackedExact, Untracked
    <3>2. QED
      BY <2>1, <2>2, <2>3, <3>1 DEF RelayInv, TrackedExact, Tracks
  <2>6. AcceptedIfAcked'
    BY <1>2, <2>3 DEF RelayInv, AcceptedIfAcked
  <2>7. LanesOK(deliveries, lanes)'
    BY <2>4 DEF LanesOK, LaneOK
  <2>8. QED
    BY <2>1, <2>3, <2>4, <2>5, <2>6, <2>7
<1>4. CASE deliveries[key].terminal # "none"
  <2>1. UNCHANGED matrix
    BY <1>2, <1>4 DEF finish, Outstanding
  <2>2. TrackedExact' /\ LanesOK(deliveries, lanes)' /\ AcceptedIfAcked'
    BY <2>1, MatrixSame
  <2>3. QED
    BY <1>1, <2>1, <2>2 DEF matrix
<1>5. QED
  BY <1>3, <1>4

\* A delivery is given up.
LEMMA FailKeepsRelayInv ==
  ASSUME RelayInv, NEW a \in wire, NEW terminal \in Failures, Fail(a, terminal)
  PROVE  RelayInv'
<1>1. /\ now' = now /\ queue' = queue /\ scheduled' = scheduled /\ wire' = wire /\ finish(a, terminal)
      /\ acks' = acks /\ taken' = taken /\ guard' = guard /\ verified' = verified
  BY DEF Fail
<1>2. terminal \in Ends /\ terminal # "ack_verified"
  BY CounterNames
<1>3. /\ deliveries' \in [Keys -> Delivery] /\ tracked' = tracked /\ lanes' \in [Relays -> Lane]
      /\ TrackedExact' /\ AcceptedIfAcked' /\ LanesOK(deliveries, lanes)'
  BY <1>1, <1>2, FinishKeepsMatrix
<1>4. RelayTypeOK'
  BY <1>1, <1>3 DEF RelayInv, RelayTypeOK
<1>5. AnnouncedOnce' /\ GuardKnows' /\ AcksAreSigned'
  BY <1>1 DEF RelayInv, AnnouncedOnce, GuardKnows, AcksAreSigned, Sent
<1>6. QED
  BY <1>3, <1>4, <1>5 DEF RelayInv

\* The relay signs what it took.
LEMMA SignKeepsRelayInv ==
  ASSUME RelayInv, NEW a \in wire, NEW bytes \in RelayBlocks, receive_validate_accept_and_sign(a, bytes)
  PROVE  RelayInv'
<1>1. /\ now' = now /\ queue' = queue /\ scheduled' = scheduled /\ wire' = wire /\ UNCHANGED matrix
      /\ acks' = acks \cup {a} /\ taken' = taken \cup {KeyOf(a)} /\ guard' = guard
      /\ verified' = verified
  BY DEF receive_validate_accept_and_sign, ContentMatches, KeyOf
<1>2. a \in Announcement
  BY DEF RelayInv, RelayTypeOK
<1>3. KeyOf(a) \in Keys
  BY <1>2, KeyParts
<1>4. RelayTypeOK'
  BY <1>1, <1>3 DEF RelayInv, RelayTypeOK, matrix
<1>5. AnnouncedOnce' /\ AcksAreSigned'
  BY <1>1 DEF RelayInv, AnnouncedOnce, AcksAreSigned, Sent
<1>6. GuardKnows'
  BY <1>1 DEF RelayInv, GuardKnows
<1>7. TrackedExact' /\ LanesOK(deliveries, lanes)' /\ AcceptedIfAcked'
  BY <1>1, MatrixSame
<1>8. QED
  BY <1>4, <1>5, <1>6, <1>7 DEF RelayInv

\* verify_application_ack: what the guard has forgotten has expired.
LEMMA VerifyKeepsRelayInv ==
  ASSUME RelayInv, NEW a \in wire, NEW ack \in acks, verify_application_ack(a, ack)
  PROVE  RelayInv'
<1> DEFINE kept == {t \in guard : Unexpired(t)}
           fresh == ack \notin kept /\ Cardinality(kept) < MaxTokens
<1>1. /\ now' = now /\ queue' = queue /\ scheduled' = scheduled /\ wire' = wire /\ acks' = acks
      /\ taken' = taken /\ ack = a /\ now <= ack.expires
  BY DEF verify_application_ack
<1>2. /\ guard' = IF fresh THEN kept \cup {ack} ELSE kept
      /\ verified' = IF fresh THEN [verified EXCEPT ![KeyOf(ack)] = Min({@ + 1, 2})] ELSE verified
      /\ IF fresh THEN finish(a, "ack_verified") ELSE UNCHANGED matrix
  BY DEF verify_application_ack
<1>3. a \in Announcement /\ now \in Nat /\ verified \in [Keys -> 0 .. 2] /\ guard \subseteq acks
  BY DEF RelayInv, RelayTypeOK
<1>4. PICK key \in Keys : key = KeyOf(a)
  BY <1>3, KeyParts
<1>5. \A t \in guard : t \in kept \/ t.expires < now
  <2>1. \A t \in guard : t.expires \in Nat
    BY DEF RelayInv, RelayTypeOK, Announcement
  <2>2. QED
    BY <1>3, <2>1 DEF Unexpired
<1>6. kept \subseteq guard
  OBVIOUS
<1>7. AcksAreSigned' /\ AnnouncedOnce'
  BY <1>1 DEF RelayInv, AcksAreSigned, AnnouncedOnce, Sent
<1>8. /\ deliveries' \in [Keys -> Delivery] /\ tracked' = tracked /\ lanes' \in [Relays -> Lane]
      /\ TrackedExact' /\ AcceptedIfAcked' /\ LanesOK(deliveries, lanes)'
  <2>1. CASE fresh
    <3>1. KeyOf(a) \in taken /\ "ack_verified" \in Ends /\ finish(a, "ack_verified")
      BY <1>1, <1>2, <2>1, CounterNames DEF RelayInv, AcksAreSigned
    <3>2. QED
      BY <1>1, <3>1, FinishKeepsMatrix
  <2>2. CASE ~ fresh
    <3>1. UNCHANGED matrix
      BY <1>2, <2>2
    <3>2. TrackedExact' /\ LanesOK(deliveries, lanes)' /\ AcceptedIfAcked'
      BY <1>1, <3>1, MatrixSame
    <3>3. QED
      BY <3>1, <3>2 DEF matrix, RelayInv, RelayTypeOK
  <2>3. QED
    BY <2>1, <2>2
<1> HIDE DEF kept
<1>9. GuardKnows' /\ verified' \in [Keys -> 0 .. 2] /\ guard' \subseteq acks
  <2>1. ASSUME NEW k \in Keys, verified[k] # 0
        PROVE  verified[k] = 1 /\ \E t \in acks : KeyOf(t) = k /\ (t \in kept \/ t.expires < now)
    BY <1>5, <2>1 DEF RelayInv, GuardKnows
  <2>2. CASE fresh
    <3>1. guard' = kept \cup {ack} /\ verified' = [verified EXCEPT ![key] = Min({@ + 1, 2})]
      BY <1>1, <1>2, <1>4, <2>2
    <3>2. verified[key] = 0
      <4>1. SUFFICES ASSUME verified[key] # 0 PROVE FALSE
        OBVIOUS
      <4>2. PICK t \in acks : KeyOf(t) = key /\ (t \in kept \/ t.expires < now)
        BY <2>1, <4>1
      <4>3. t \in Sent /\ ack \in Sent /\ ack \in Announcement
        BY DEF RelayInv, RelayTypeOK, Sent
      <4>4. t = ack
        BY <1>1, <1>4, <4>2, <4>3 DEF RelayInv, AnnouncedOnce
      <4>5. ack \in kept
        BY <1>1, <1>3, <4>2, <4>3, <4>4 DEF Announcement
      <4>6. QED
        BY <2>2, <4>5
    <3>3. Min({0 + 1, 2}) = 1
      BY DEF Min
    <3>4. verified'[key] = 1 /\ \A k \in Keys \ {key} : verified'[k] = verified[k]
      BY <1>3, <3>1, <3>2, <3>3
    <3>5. verified' \in [Keys -> 0 .. 2]
      BY <1>3, <3>1, <3>2, <3>3
    <3>6. ASSUME NEW k \in Keys, verified'[k] # 0
          PROVE  verified'[k] = 1 /\ \E t \in acks : KeyOf(t) = k /\ (t \in guard' \/ t.expires < now)
      <4>1. CASE k = key
        BY <1>1, <1>4, <3>1, <3>4, <4>1
      <4>2. CASE k # key
        BY <2>1, <3>1, <3>4, <3>6, <4>2
      <4>3. QED
        BY <4>1, <4>2
    <3>7. GuardKnows'
      BY <1>1, <3>6 DEF GuardKnows
    <3>8. QED
      BY <1>3, <1>6, <3>1, <3>5, <3>7
  <2>3. CASE ~ fresh
    <3>1. guard' = kept /\ verified' = verified
      BY <1>2, <2>3
    <3>2. GuardKnows'
      BY <1>1, <2>1, <3>1 DEF GuardKnows
    <3>3. QED
      BY <1>3, <1>6, <3>1, <3>2
  <2>4. QED
    BY <2>2, <2>3
<1>10. RelayTypeOK'
  BY <1>1, <1>8, <1>9 DEF RelayInv, RelayTypeOK
<1>11. QED
  BY <1>7, <1>8, <1>9, <1>10 DEF RelayInv

\* Every step of the node and of the relays keeps the invariant.
LEMMA RelayStep ==
  ASSUME RelayInv, [RelayNext]_relayVars
  PROVE  RelayInv'
<1>1. CASE Tick
  BY <1>1, TickKeepsRelayInv
<1>2. ASSUME NEW b \in RelayBlocks, try_schedule(b) PROVE RelayInv'
  BY <1>2, ScheduleKeepsRelayInv
<1>3. CASE Announce
  BY <1>3, AnnounceKeepsRelayInv
<1>4. ASSUME NEW a \in wire, NEW at_stage \in Stages, note_stage(a, at_stage) PROVE RelayInv'
  BY <1>4, NoteKeepsRelayInv
<1>5. ASSUME NEW a \in wire, NEW terminal \in Failures, Fail(a, terminal) PROVE RelayInv'
  BY <1>5, FailKeepsRelayInv
<1>6. ASSUME NEW a \in wire, NEW bytes \in RelayBlocks, receive_validate_accept_and_sign(a, bytes)
      PROVE  RelayInv'
  BY <1>6, SignKeepsRelayInv
<1>7. ASSUME NEW a \in wire, NEW ack \in acks, verify_application_ack(a, ack) PROVE RelayInv'
  BY <1>7, VerifyKeepsRelayInv
<1>8. CASE UNCHANGED relayVars
  <2>1. /\ now' = now /\ queue' = queue /\ scheduled' = scheduled /\ wire' = wire /\ UNCHANGED matrix
        /\ acks' = acks /\ taken' = taken /\ guard' = guard /\ verified' = verified
    BY <1>8 DEF relayVars, matrix
  <2>2. TrackedExact' /\ LanesOK(deliveries, lanes)' /\ AcceptedIfAcked'
    BY <2>1, MatrixSame
  <2>3. RelayTypeOK' /\ AnnouncedOnce' /\ GuardKnows' /\ AcksAreSigned'
    BY <2>1 DEF RelayInv, RelayTypeOK, matrix, AnnouncedOnce, GuardKnows, AcksAreSigned, Sent
  <2>4. QED
    BY <2>2, <2>3 DEF RelayInv
<1>9. QED
  BY <1>1, <1>2, <1>3, <1>4, <1>5, <1>6, <1>7, <1>8 DEF RelayNext

\* The invariant says what the matrix promises.
LEMMA RelayInvConserves ==
  RelayInv => LanesConserved /\ AckMeansAccepted
<1> SUFFICES ASSUME RelayInv PROVE LanesConserved /\ AckMeansAccepted
  OBVIOUS
<1>1. ASSUME NEW r \in Relays
      PROVE  /\ lanes[r].scheduled = lanes[r].outstanding + SumFunctionOnSet(lanes[r], Ends)
             /\ lanes[r].outstanding = Cardinality({b \in RelayBlocks : Outstanding(<<r, b>>)})
             /\ \A s \in Stages : lanes[r][s] <= lanes[r].scheduled
  <2>1. LaneOK(deliveries, lanes, r)
    BY DEF RelayInv, LanesOK
  <2>2. OpenIn(deliveries, r) = {b \in RelayBlocks : Outstanding(<<r, b>>)}
    BY DEF OpenIn, Outstanding
  <2>3. ASSUME NEW s \in Stages PROVE lanes[r][s] <= lanes[r]["scheduled"]
    <3>1. lanes[r][s] + Cardinality(UnnotedIn(deliveries, r, s)) <= lanes[r]["scheduled"]
      BY <2>1 DEF LaneOK
    <3>2. Cardinality(UnnotedIn(deliveries, r, s)) \in Nat
      BY OpenCount
    <3>3. lanes[r][s] \in Nat /\ lanes[r]["scheduled"] \in Nat
      BY CounterNames DEF RelayInv, RelayTypeOK, Lane
    <3>4. QED
      BY <3>1, <3>2, <3>3
  <2>4. QED
    BY <2>1, <2>2, <2>3 DEF LaneOK, Conserved
<1>2. NoReplay
  BY DEF RelayInv, GuardKnows, NoReplay
<1>3. QED
  BY <1>1, <1>2 DEF LanesConserved, AckMeansAccepted, RelayInv

\* ReceiptMatrix::conservation_ok: in every reachable state, of any number of blocks,
\* every delivery scheduled is open or counted under exactly one end, for each relay,
\* however deliveries are evicted, given up and acknowledged late.
THEOREM ReceiptsAreConserved ==
  RelaySpec => []LanesConserved
<1>1. RelayInit => RelayInv
  BY RelayStarts
<1>2. RelayInv /\ [RelayNext]_relayVars => RelayInv'
  BY RelayStep
<1>3. RelayInv => LanesConserved
  BY RelayInvConserves
<1>4. QED
  BY <1>1, <1>2, <1>3, PTL DEF RelaySpec

\* receive_validate_accept_and_sign and ReplayGuard: a delivery counts as acknowledged
\* only if that relay took that block, and no acknowledgement is verified twice, though
\* the guard forgets what has expired and may be full.
THEOREM AcknowledgementsAreReal ==
  RelaySpec => []AckMeansAccepted
<1>1. RelayInit => RelayInv
  BY RelayStarts
<1>2. RelayInv /\ [RelayNext]_relayVars => RelayInv'
  BY RelayStep
<1>3. RelayInv => AckMeansAccepted
  BY RelayInvConserves
<1>4. QED
  BY <1>1, <1>2, <1>3, PTL DEF RelaySpec

-----------------------------------------------------------------------------
(***************************************************************************)
(* The signed transaction.                                                 *)
(***************************************************************************)

\* A set of numbers up to a number has a largest.
LEMMA MaxUpTo ==
  ASSUME NEW n \in Nat, NEW t \in SUBSET (1 .. n), t # {}
  PROVE  Max(t) \in t /\ \A x \in t : Max(t) >= x
<1> DEFINE C == {b \in Nat : \A x \in t : b >= x}
<1>1. n \in C
  OBVIOUS
<1>2. PICK b \in C : \A m \in C : b <= m
  <2> HIDE DEF C
  <2>1. C \subseteq Nat
    BY DEF C
  <2>2. QED
    BY <1>1, <2>1, SmallestNat
<1>3. b \in Nat /\ \A x \in t : x \in Nat \ {0} /\ b >= x
  BY <1>2
<1>4. b \in t
  <2>1. SUFFICES ASSUME b \notin t PROVE FALSE
    OBVIOUS
  <2>2. PICK x \in t : TRUE
    OBVIOUS
  <2>3. b \in Nat \ {0}
    BY <1>3, <2>2
  <2>4. b - 1 \in Nat /\ \A y \in t : b - 1 >= y
    BY <1>3, <2>1, <2>3
  <2>5. b - 1 \in C
    BY <2>4
  <2>6. QED
    BY <1>2, <2>3, <2>5
<1>5. \E x \in t : \A y \in t : x >= y
  BY <1>3, <1>4
<1>6. QED
  BY <1>5 DEF Max

-----------------------------------------------------------------------------
\* g is the recursive function inside node_tx_outputs_match_request.
Takes(g, base, s, T) ==
  g = [t \in SUBSET T |-> IF t = {} THEN base ELSE TakeOutput(g[t \ {Max(t)}], s[Max(t)])]

\* The match is the recursion of the community modules, by definition.
LEMMA MatchIsTaken ==
  ASSUME NEW tx, NEW r
  PROVE  node_tx_outputs_match_request(tx, r) =
           (CHOOSE g : Takes(g, [all |-> TRUE, available |-> tx.outputs], r.outputs,
                             DOMAIN r.outputs))[DOMAIN r.outputs].all
  BY DEF node_tx_outputs_match_request, FoldLeft, MapThenFoldSet, Takes

\* There is one for every number of outputs.
LEMMA TakesExists ==
  ASSUME NEW base, NEW s, NEW n \in Nat
  PROVE  \E g : Takes(g, base, s, 1 .. n)
<1> DEFINE C == {k \in Nat : ~ \E g : Takes(g, base, s, 1 .. k)}
<1>1. ASSUME C # {} PROVE FALSE
  <2>1. PICK k \in C : \A m \in C : k <= m
    <3> HIDE DEF C
    <3>1. C \subseteq Nat
      BY DEF C
    <3>2. QED
      BY <1>1, <3>1, SmallestNat
  <2>2. k \in Nat /\ ~ \E g : Takes(g, base, s, 1 .. k)
    BY <2>1
  <2>3. CASE k = 0
    <3>1. SUBSET (1 .. k) = {{}}
      BY <2>3
    <3> DEFINE g == [t \in SUBSET (1 .. k) |-> base]
    <3>2. Takes(g, base, s, 1 .. k)
      BY <3>1 DEF Takes
    <3>3. QED
      BY <2>2, <3>2
  <2>4. CASE k # 0
    <3>1. k - 1 \in Nat /\ k - 1 \notin C
      BY <2>1, <2>2, <2>4
    <3>2. PICK g : Takes(g, base, s, 1 .. k - 1)
      BY <3>1
    <3>3. PICK q : q = k - 1
      OBVIOUS
    <3>4. q \in Nat /\ k = q + 1 /\ Takes(g, base, s, 1 .. q)
      BY <2>2, <2>4, <3>1, <3>2, <3>3
    <3> DEFINE h == [t \in SUBSET (1 .. k) |->
                       IF k \in t THEN TakeOutput(g[t \ {k}], s[k]) ELSE g[t]]
    <3>5. ASSUME NEW t \in SUBSET (1 .. k)
          PROVE  h[t] = IF t = {} THEN base ELSE TakeOutput(h[t \ {Max(t)}], s[Max(t)])
      <4>1. t \ {k} \in SUBSET (1 .. q) /\ t \ {k} \in SUBSET (1 .. k)
        BY <2>2, <3>4
      <4>2. CASE k \in t
        <5>1. Max(t) = k
          <6>1. Max(t) \in t /\ \A x \in t : Max(t) >= x
            BY <2>2, <4>2, MaxUpTo
          <6>2. Max(t) \in 1 .. k /\ Max(t) >= k
            BY <4>2, <6>1
          <6>3. \A m : m \in 1 .. k /\ m >= k => m = k
            BY <2>2
          <6>4. QED
            BY <6>2, <6>3
        <5>2. h[t] = TakeOutput(g[t \ {k}], s[k]) /\ h[t \ {k}] = g[t \ {k}]
          BY <4>1, <4>2
        <5> HIDE DEF h
        <5>3. QED
          BY <4>2, <5>1, <5>2
      <4>3. CASE k \notin t
        <5>1. t \in SUBSET (1 .. q) /\ h[t] = g[t]
          BY <4>1, <4>3
        <5>2. g[t] = IF t = {} THEN base ELSE TakeOutput(g[t \ {Max(t)}], s[Max(t)])
          BY <3>4, <5>1 DEF Takes
        <5>3. h[t \ {Max(t)}] = g[t \ {Max(t)}]
          BY <4>3
        <5> HIDE DEF h
        <5>4. QED
          BY <5>1, <5>2, <5>3
      <4>4. QED
        BY <4>2, <4>3
    <3>6. h = [t \in SUBSET (1 .. k) |-> h[t]]
      OBVIOUS
    <3> HIDE DEF h
    <3>7. Takes(h, base, s, 1 .. k)
      BY <3>5, <3>6 DEF Takes
    <3>8. QED
      BY <2>2, <3>7
  <2>5. QED
    BY <2>3, <2>4
<1>2. QED
  BY <1>1

-----------------------------------------------------------------------------
\* The places of an output like o.
OutputsLike(s, o) == {i \in DOMAIN s : s[i].address = o.address /\ s[i].amount = o.amount}

\* swap_remove takes one away, whichever one takes its place.
LEMMA SwapRemoveTakes ==
  ASSUME NEW S, NEW s \in Seq(S), NEW p \in DOMAIN s
  PROVE  /\ SwapRemove(s, p) \in Seq(S)
         /\ \A o : /\ Cardinality(OutputsLike(s, o)) \in Nat
                   /\ Cardinality(OutputsLike(SwapRemove(s, p), o)) =
                        Cardinality(OutputsLike(s, o)) - (IF p \in OutputsLike(s, o) THEN 1 ELSE 0)
<1> DEFINE n == Len(s)
           w == SwapRemove(s, p)
<1>1. n \in Nat /\ p \in 1 .. n /\ DOMAIN s = 1 .. n /\ n - 1 \in Nat
  OBVIOUS
<1>2. PICK v \in Seq(S) : v = [s EXCEPT ![p] = s[n]]
  <2>1. s[n] \in S
    BY <1>1
  <2>2. QED
    BY <1>1, <2>1, ExceptSeq
<1>3. Len(v) = n /\ \A i \in 1 .. n : v[i] = IF i = p THEN s[n] ELSE s[i]
  BY <1>1, <1>2
<1>4. w = SubSeq(v, 1, n - 1)
  BY <1>2 DEF SwapRemove
<1> HIDE DEF w, n
<1>5. w \in Seq(S) /\ Len(w) = n - 1 /\ \A i \in 1 .. n - 1 : w[i] = v[i]
  BY <1>1, <1>2, <1>3, <1>4
<1>6. DOMAIN w = 1 .. n - 1 /\ \A i \in 1 .. n - 1 : w[i] = IF i = p THEN s[n] ELSE s[i]
  BY <1>1, <1>3, <1>5
<1>7. ASSUME NEW o
      PROVE  /\ Cardinality(OutputsLike(s, o)) \in Nat
             /\ Cardinality(OutputsLike(w, o)) =
                  Cardinality(OutputsLike(s, o)) - (IF p \in OutputsLike(s, o) THEN 1 ELSE 0)
  <2> DEFINE M == OutputsLike(s, o)
             W == OutputsLike(w, o)
             K == M \ {n}
  <2>1. \A i : i \in M <=> i \in 1 .. n /\ s[i].address = o.address /\ s[i].amount = o.amount
    BY <1>1 DEF OutputsLike
  <2>2. \A i : i \in W <=> i \in 1 .. n - 1 /\ w[i].address = o.address /\ w[i].amount = o.amount
    BY <1>6 DEF OutputsLike
  <2> HIDE DEF M, W
  <2>3. IsFiniteSet(M)
    <3>1. IsFiniteSet(1 .. n)
      BY <1>1, FS_Interval
    <3>2. M \subseteq 1 .. n
      BY <2>1
    <3>3. QED
      BY <3>1, <3>2, FS_Subset
  <2>4. /\ IsFiniteSet(K) /\ Cardinality(M) \in Nat
        /\ Cardinality(K) = Cardinality(M) - (IF n \in M THEN 1 ELSE 0)
    BY <2>3, FS_RemoveElement, FS_CardinalityType
  <2>5. CASE p = n
    <3>1. \A i \in 1 .. n - 1 : w[i] = s[i]
      BY <1>1, <1>6, <2>5
    <3>2. \A i : i \in W <=> i \in M /\ i # n
      BY <1>1, <2>1, <2>2, <3>1
    <3>3. W = K
      BY <3>2
    <3>4. QED
      BY <2>4, <2>5, <3>3 DEF M, W
  <2>6. CASE p # n
    <3>1. p \in 1 .. n - 1 /\ w[p] = s[n] /\ \A i \in 1 .. n - 1 : i # p => w[i] = s[i]
      BY <1>1, <1>6, <2>6
    <3>2. p \in W <=> n \in M
      BY <1>1, <2>1, <2>2, <3>1
    <3>3. p \in K <=> p \in M
      BY <2>6
    <3>4. \A i : i # p => (i \in W <=> i \in M /\ i # n)
      BY <1>1, <2>1, <2>2, <3>1
    <3>5. W \ {p} = K \ {p}
      BY <3>4
    <3> HIDE DEF K
    <3>6. Cardinality(W) = Cardinality(K) + (IF p \in W THEN 1 ELSE 0) - (IF p \in K THEN 1 ELSE 0)
      BY <2>4, <3>5, SetUpdate
    <3>7. Cardinality(W) = Cardinality(M) - (IF p \in M THEN 1 ELSE 0)
      BY <2>4, <3>2, <3>3, <3>6
    <3>8. QED
      BY <2>4, <3>7 DEF M, W
  <2>7. QED
    BY <2>5, <2>6
<1>8. QED
  BY <1>5, <1>7 DEF w

\* The first of the places where a match is found.
LEMMA FirstIsFound ==
  ASSUME NEW n \in Nat, NEW t \in SUBSET (1 .. n), t # {}
  PROVE  Min(t) \in t
<1>1. t \subseteq Nat
  OBVIOUS
<1>2. PICK x \in t : \A y \in t : x <= y
  BY <1>1, SmallestNat
<1>3. QED
  BY <1>2 DEF Min

Matching(S) == [all : BOOLEAN, available : Seq(S)]

\* What one output leaves is of the same kind, and a match that failed stays failed.
LEMMA TakeOutputType ==
  ASSUME NEW S, NEW st \in Matching(S), NEW expected
  PROVE  /\ TakeOutput(st, expected) \in Matching(S)
         /\ TakeOutput(st, expected).all => st.all
<1>1. st.all \in BOOLEAN /\ st.available \in Seq(S)
  BY DEF Matching
<1>2. CASE ~ st.all \/ Positions(st.available, expected) = {}
  <2>1. TakeOutput(st, expected) = [st EXCEPT !.all = FALSE]
    BY <1>2 DEF TakeOutput
  <2>2. [st EXCEPT !.all = FALSE] \in Matching(S) /\ [st EXCEPT !.all = FALSE].all = FALSE
    BY DEF Matching
  <2>3. QED
    BY <2>1, <2>2
<1>3. CASE st.all /\ Positions(st.available, expected) # {}
  <2>1. PICK p : p = Min(Positions(st.available, expected))
    OBVIOUS
  <2>2. p \in DOMAIN st.available
    <3>1. Positions(st.available, expected) \in SUBSET (1 .. Len(st.available)) /\ Len(st.available) \in Nat
      BY <1>1 DEF Positions
    <3>2. p \in Positions(st.available, expected)
      BY <1>3, <2>1, <3>1, FirstIsFound
    <3>3. QED
      BY <3>2 DEF Positions
  <2>3. PICK rest \in Seq(S) : rest = SwapRemove(st.available, p)
    BY <1>1, <2>2, SwapRemoveTakes
  <2>4. TakeOutput(st, expected) = [st EXCEPT !.available = rest]
    BY <1>3, <2>1, <2>3 DEF TakeOutput
  <2>5. [st EXCEPT !.available = rest] \in Matching(S)
    BY <2>3 DEF Matching
  <2>6. QED
    BY <1>3, <2>4, <2>5
<1>4. QED
  BY <1>1, <1>2, <1>3

\* One output of the request finds its own.
LEMMA TakeOutputTakes ==
  ASSUME NEW S, NEW st \in Matching(S), NEW expected, TakeOutput(st, expected).all
  PROVE  \A o : Cardinality(OutputsLike(TakeOutput(st, expected).available, o)) =
           Cardinality(OutputsLike(st.available, o))
             - (IF expected.address = o.address /\ expected.amount = o.amount THEN 1 ELSE 0)
<1>1. st.all \in BOOLEAN /\ st.available \in Seq(S)
  BY DEF Matching
<1>2. st.all
  BY TakeOutputType
<1>3. PICK matches : matches = Positions(st.available, expected)
  OBVIOUS
<1>4. matches # {}
  <2>1. SUFFICES ASSUME matches = {} PROVE FALSE
    OBVIOUS
  <2>2. TakeOutput(st, expected) = [st EXCEPT !.all = FALSE]
    BY <1>3, <2>1 DEF TakeOutput
  <2>3. [st EXCEPT !.all = FALSE].all = FALSE
    BY DEF Matching
  <2>4. QED
    BY <2>2, <2>3
<1>5. PICK p : p = Min(matches)
  OBVIOUS
<1>6. /\ p \in DOMAIN st.available /\ st.available[p].address = expected.address
      /\ st.available[p].amount = expected.amount
  <2>1. Len(st.available) \in Nat /\ matches \in SUBSET (1 .. Len(st.available))
    BY <1>1, <1>3 DEF Positions
  <2>2. p \in matches
    BY <1>4, <1>5, <2>1, FirstIsFound
  <2>3. QED
    BY <1>3, <2>2 DEF Positions
<1>7. PICK rest : rest = SwapRemove(st.available, p)
  OBVIOUS
<1>8. TakeOutput(st, expected) = [st EXCEPT !.available = rest]
  BY <1>2, <1>3, <1>4, <1>5, <1>7 DEF TakeOutput
<1>9. TakeOutput(st, expected).available = rest
  BY <1>8 DEF Matching
<1>10. \A o : Cardinality(OutputsLike(rest, o)) =
         Cardinality(OutputsLike(st.available, o)) - (IF p \in OutputsLike(st.available, o) THEN 1 ELSE 0)
  BY <1>1, <1>6, <1>7, SwapRemoveTakes
<1>11. \A o : p \in OutputsLike(st.available, o) <=> expected.address = o.address /\ expected.amount = o.amount
  BY <1>6 DEF OutputsLike
<1>12. ASSUME NEW o
       PROVE  Cardinality(OutputsLike(rest, o)) = Cardinality(OutputsLike(st.available, o))
                - (IF expected.address = o.address /\ expected.amount = o.amount THEN 1 ELSE 0)
  BY <1>10, <1>11
<1>13. QED
  BY <1>9, <1>12

\* A match of all outputs leaves of every output as many as were not wanted.
LEMMA MatchedLeavesRest ==
  ASSUME NEW S, NEW outputs \in Seq(S), NEW wanted, NEW n \in Nat, NEW g,
         Takes(g, [all |-> TRUE, available |-> outputs], wanted, 1 .. n), g[1 .. n].all, NEW o
  PROVE  LET used == {i \in 1 .. n : wanted[i].address = o.address /\ wanted[i].amount = o.amount}
         IN  /\ Cardinality(used) \in Nat /\ Cardinality(OutputsLike(outputs, o)) \in Nat
             /\ Cardinality(used) <= Cardinality(OutputsLike(outputs, o))
<1> DEFINE Like(i) == wanted[i].address = o.address /\ wanted[i].amount = o.amount
           Used(k) == {i \in 1 .. k : Like(i)}
           Right(k) == /\ g[1 .. k] \in Matching(S)
                       /\ g[1 .. k].all => Cardinality(OutputsLike(g[1 .. k].available, o)) =
                            Cardinality(OutputsLike(outputs, o)) - Cardinality(Used(k))
           C == {k \in 0 .. n : ~ Right(k)}
<1>1. \A s \in Seq(S) : Cardinality(OutputsLike(s, o)) \in Nat
  <2>1. SUFFICES ASSUME NEW s \in Seq(S) PROVE Cardinality(OutputsLike(s, o)) \in Nat
    OBVIOUS
  <2>2. IsFiniteSet(1 .. Len(s)) /\ OutputsLike(s, o) \subseteq 1 .. Len(s)
    BY FS_Interval DEF OutputsLike
  <2>3. QED
    BY <2>2, FS_Subset, FS_CardinalityType
<1>2. \A k \in 0 .. n : IsFiniteSet(Used(k)) /\ Cardinality(Used(k)) \in Nat
  <2>1. SUFFICES ASSUME NEW k \in 0 .. n PROVE IsFiniteSet(Used(k)) /\ Cardinality(Used(k)) \in Nat
    OBVIOUS
  <2>2. IsFiniteSet(1 .. k) /\ Used(k) \subseteq 1 .. k
    <3>1. 1 \in Int /\ k \in Int
      OBVIOUS
    <3>2. IsFiniteSet(1 .. k)
      BY ONLY <3>1, FS_Interval
    <3>3. Used(k) \subseteq 1 .. k
      OBVIOUS
    <3> QED BY ONLY <3>2, <3>3
  <2> HIDE DEF Used
  <2>3. QED
    BY <2>2, FS_Subset, FS_CardinalityType
<1>3. \A t \in SUBSET (1 .. n) : g[t] =
        IF t = {} THEN [all |-> TRUE, available |-> outputs] ELSE TakeOutput(g[t \ {Max(t)}], wanted[Max(t)])
  BY DEF Takes
<1>4. Right(0)
  <2>1. 1 .. 0 = {} /\ Used(0) = {}
    OBVIOUS
  <2>2. g[1 .. 0] = [all |-> TRUE, available |-> outputs]
    BY <1>3, <2>1
  <2>3. [all |-> TRUE, available |-> outputs] \in Matching(S)
    BY DEF Matching
  <2>4. Cardinality(Used(0)) = 0
    BY <2>1, FS_EmptySet
  <2>5. g[1 .. 0].available = outputs /\ Cardinality(OutputsLike(outputs, o)) \in Nat
    BY <1>1, <2>2
  <2> HIDE DEF Used
  <2>6. QED
    BY <2>2, <2>3, <2>4, <2>5
<1>5. ASSUME NEW k \in 0 .. n - 1, Right(k) PROVE Right(k + 1)
  <2>1. PICK st : st = g[1 .. k]
    OBVIOUS
  <2>2. PICK expected : expected = wanted[k + 1]
    OBVIOUS
  <2>3. g[1 .. k + 1] = TakeOutput(st, expected)
    <3>1. 1 .. k + 1 \in SUBSET (1 .. n) /\ 1 .. k + 1 # {} /\ k + 1 \in 1 .. k + 1 /\ k + 1 \in Nat
      <4>1. k \in Nat /\ k + 1 <= n
        OBVIOUS
      <4>2. k + 1 \in 1 .. k + 1 /\ k + 1 \in Nat
        BY <4>1
      <4>3. \A i \in 1 .. k + 1 : i \in 1 .. n
        BY <4>1
      <4>4. QED
        BY <4>2, <4>3
    <3>2. Max(1 .. k + 1) \in 1 .. k + 1 /\ Max(1 .. k + 1) >= k + 1
      BY <3>1, MaxUpTo
    <3>3. \A m : m \in 1 .. k + 1 /\ m >= k + 1 => m = k + 1
      OBVIOUS
    <3>4. Max(1 .. k + 1) = k + 1
      BY <3>2, <3>3
    <3>5. (1 .. k + 1) \ {k + 1} = 1 .. k
      OBVIOUS
    <3>6. QED
      BY <1>3, <2>1, <2>2, <3>1, <3>4, <3>5
  <2>4. st \in Matching(S)
    BY <1>5, <2>1
  <2>5. TakeOutput(st, expected) \in Matching(S) /\ (TakeOutput(st, expected).all => st.all)
    BY <2>4, TakeOutputType
  <2>6. ASSUME TakeOutput(st, expected).all
        PROVE  Cardinality(OutputsLike(TakeOutput(st, expected).available, o)) =
                 Cardinality(OutputsLike(outputs, o)) - Cardinality(Used(k + 1))
    <3>1. st.all
      BY <2>5, <2>6
    <3>2. Cardinality(OutputsLike(TakeOutput(st, expected).available, o)) =
            Cardinality(OutputsLike(st.available, o))
              - (IF expected.address = o.address /\ expected.amount = o.amount THEN 1 ELSE 0)
      BY <2>4, <2>6, TakeOutputTakes
    <3>3. Cardinality(OutputsLike(st.available, o)) =
            Cardinality(OutputsLike(outputs, o)) - Cardinality(Used(k))
      BY <1>5, <2>1, <3>1
    <3>4. Cardinality(Used(k + 1)) = Cardinality(Used(k)) + (IF Like(k + 1) THEN 1 ELSE 0)
      <4>1. \A i : i \in Used(k + 1) <=> i \in Used(k) \/ (i = k + 1 /\ Like(k + 1))
        <5> HIDE DEF Like
        <5>1. QED
          OBVIOUS
      <4>2. k + 1 \notin Used(k) /\ (k + 1 \in Used(k + 1) <=> Like(k + 1))
        <5> HIDE DEF Like
        <5>1. QED
          OBVIOUS
      <4>3. IsFiniteSet(Used(k)) /\ Cardinality(Used(k)) \in Nat
        BY <1>2
      <4> HIDE DEF Used, Like
      <4>4. Used(k + 1) \ {k + 1} = Used(k) \ {k + 1}
        BY <4>1
      <4>5. Cardinality(Used(k + 1)) = Cardinality(Used(k)) + (IF k + 1 \in Used(k + 1) THEN 1 ELSE 0)
              - (IF k + 1 \in Used(k) THEN 1 ELSE 0)
        BY <4>3, <4>4, SetUpdate
      <4>6. QED
        BY <4>2, <4>3, <4>5
    <3>5. Like(k + 1) <=> expected.address = o.address /\ expected.amount = o.amount
      BY <2>2
    <3>6. Cardinality(OutputsLike(outputs, o)) \in Nat /\ Cardinality(Used(k)) \in Nat
      <4>1. k \in 0 .. n
        OBVIOUS
      <4> HIDE DEF Used
      <4>2. QED
        BY <1>1, <1>2, <4>1
    <3> HIDE DEF Used, Like
    <3>7. QED
      BY <3>2, <3>3, <3>4, <3>5, <3>6
  <2> HIDE DEF Used
  <2>7. QED
    BY <2>3, <2>5, <2>6
<1>6. ASSUME C # {} PROVE FALSE
  <2>1. PICK k \in C : \A m \in C : k <= m
    <3> HIDE DEF C
    <3>1. C \subseteq Nat
      BY DEF C
    <3>2. QED
      BY <1>6, <3>1, SmallestNat
  <2> HIDE DEF Right
  <2>2. k \in 0 .. n /\ ~ Right(k)
    BY <2>1
  <2>3. k # 0
    BY <1>4, <2>2
  <2>4. k - 1 \in 0 .. n - 1 /\ k - 1 \in 0 .. n /\ (k - 1) + 1 = k
    BY <2>2, <2>3
  <2>5. Right(k - 1)
    BY <2>1, <2>2, <2>4
  <2>6. Right((k - 1) + 1)
    BY <1>5, <2>4, <2>5
  <2>7. QED
    BY <2>2, <2>4, <2>6
<1>7. Right(n)
  <2> HIDE DEF Right
  <2>1. n \in 0 .. n /\ n \notin C
    BY <1>6
  <2>2. QED
    BY <2>1
<1>8. Cardinality(OutputsLike(g[1 .. n].available, o)) \in Nat
  BY <1>1, <1>7 DEF Matching
<1>9. Cardinality(OutputsLike(outputs, o)) \in Nat /\ Cardinality(Used(n)) \in Nat
  BY <1>1, <1>2
<1>10. Cardinality(Used(n)) <= Cardinality(OutputsLike(outputs, o))
  <2>1. Cardinality(OutputsLike(g[1 .. n].available, o)) =
          Cardinality(OutputsLike(outputs, o)) - Cardinality(Used(n))
    BY <1>7
  <2> HIDE DEF Used
  <2>2. QED
    BY <1>8, <1>9, <2>1
<1>11. QED
  BY <1>9, <1>10

-----------------------------------------------------------------------------
\* A transaction that matches a request pays each of its outputs by one of its own.
LEMMA MatchedPays ==
  ASSUME NEW S, NEW tx, tx.outputs \in Seq(S), NEW T, NEW r, r.outputs \in Seq(T),
         node_tx_outputs_match_request(tx, r), NEW o
  PROVE  Paid(r.outputs, o) <= Paid(tx.outputs, o)
<1> DEFINE base == [all |-> TRUE, available |-> tx.outputs]
           n == Len(r.outputs)
           g == CHOOSE f : Takes(f, base, r.outputs, 1 .. n)
<1>1. n \in Nat /\ DOMAIN r.outputs = 1 .. n
  OBVIOUS
<1>2. Takes(g, base, r.outputs, 1 .. n)
  <2> HIDE DEF base, n
  <2>1. \E f : Takes(f, base, r.outputs, 1 .. n)
    BY <1>1, TakesExists
  <2>2. QED
    BY <2>1
<1>3. g[1 .. n].all
  BY <1>1, MatchIsTaken
<1>4. PICK f : f = g
  OBVIOUS
<1>5. Takes(f, [all |-> TRUE, available |-> tx.outputs], r.outputs, 1 .. n) /\ f[1 .. n].all
  BY <1>2, <1>3, <1>4
<1> HIDE DEF g, n
<1>6. Cardinality({i \in 1 .. n : r.outputs[i].address = o.address /\ r.outputs[i].amount = o.amount})
        <= Cardinality(OutputsLike(tx.outputs, o))
  BY <1>1, <1>5, MatchedLeavesRest
<1>7. QED
  BY <1>1, <1>6 DEF Paid, OutputsLike

\* What is stored for an answer that passed the checks.
LEMMA StoredIsSomething ==
  ASSUME NEW a, NEW r, validate_signed_payout_response(a, r)
  PROVE  /\ signed_payout_storage_value(a) # Nothing
         /\ signed_payout_storage_value(a).prefix => a.node_tx # NoTx
         /\ a.node_tx # NoTx => signed_payout_storage_value(a).tx = a.node_tx
<1>1. CASE a.node_tx # NoTx
  <2>1. signed_payout_storage_value(a) = [prefix |-> TRUE, tx |-> a.node_tx, raw |-> "none"]
    BY <1>1 DEF signed_payout_storage_value
  <2>2. signed_payout_storage_value(a).prefix = TRUE /\ Nothing.prefix = FALSE
    BY <2>1 DEF Nothing
  <2>3. signed_payout_storage_value(a).tx = a.node_tx
    BY <2>1
  <2>4. QED
    BY <1>1, <2>2, <2>3
<1>2. CASE a.node_tx = NoTx
  <2>1. a.raw = "hex"
    BY <1>2 DEF validate_signed_payout_response
  <2>2. signed_payout_storage_value(a) = [prefix |-> FALSE, tx |-> NoTx, raw |-> "hex"]
    BY <1>2, <2>1 DEF signed_payout_storage_value
  <2>3. signed_payout_storage_value(a).raw = "hex" /\ Nothing.raw = "none"
    BY <2>2 DEF Nothing
  <2>4. signed_payout_storage_value(a).prefix = FALSE
    BY <2>2
  <2>5. QED
    BY <1>2, <2>3, <2>4
<1>3. QED
  BY <1>1, <1>2

\* sign_payouts and submit_payouts: for requests and transactions of any length and any
\* answer of the signer, a node transaction that is sent pays every output of the batch
\* by an output of its own, and check-signer passes what a run would sign with.
THEOREM SignedPaysRequest ==
  ASSUME request \in Requests, response \in Responses
  PROVE  PaysTheRequest
<1> DEFINE stored == sign_payouts(response, request)
           sent == submit_payouts(stored)
           good == validate_sign_request(request) /\ validate_signed_payout_response(response, request)
<1>1. request.outputs \in Seq(Outputs)
  BY DEF Requests, BoundedSeq, SeqOf
<1>2. response.node_tx # NoTx => response.node_tx.outputs \in Seq(TxOutput)
  <2>1. response.node_tx \in Transactions \/ response.node_tx = NoTx
    BY DEF Responses
  <2>2. \A tx \in Transactions : tx.outputs \in Seq(TxOutput)
    BY DEF Transactions, BoundedSeq, SeqOf
  <2>3. QED
    BY <2>1, <2>2
<1>3. CASE ~ good
  <2>1. stored = Nothing
    BY <1>3 DEF sign_payouts
  <2>2. sent = [as |-> "nothing", tx |-> NoTx]
    BY <2>1 DEF submit_payouts
  <2>3. sent.as = "nothing"
    BY <2>2
  <2>4. request = signer_contract_request => ~ check_signer(TRUE, response)
    BY <1>3 DEF check_signer
  <2>5. check_signer(TRUE, response) \in BOOLEAN
    BY DEF check_signer
  <2>6. QED
    BY <2>3, <2>4, <2>5 DEF PaysTheRequest
<1>4. CASE good
  <2>1. stored = signed_payout_storage_value(response)
    BY <1>4 DEF sign_payouts
  <2>2. /\ stored # Nothing /\ (stored.prefix => response.node_tx # NoTx)
        /\ response.node_tx # NoTx => stored.tx = response.node_tx
    BY <1>4, <2>1, StoredIsSomething
  <2>3. sent.as # "nothing"
    BY <2>2 DEF submit_payouts
  <2>4. sent.as = "node_tx" => stored.prefix /\ sent.tx = stored.tx
    BY <2>2 DEF submit_payouts
  <2>5. request = signer_contract_request => check_signer(TRUE, response) = TRUE
    BY <1>4 DEF check_signer
  <2>6. ASSUME sent.as = "node_tx"
        PROVE  /\ sent.tx = response.node_tx /\ sent.tx # NoTx
               /\ \A i \in DOMAIN request.outputs :
                    Paid(request.outputs, request.outputs[i]) <= Paid(sent.tx.outputs, request.outputs[i])
    <3>1. response.node_tx # NoTx /\ sent.tx = response.node_tx
      BY <2>2, <2>4, <2>6
    <3>2. node_tx_outputs_match_request(response.node_tx, request)
      BY <1>4, <3>1 DEF validate_signed_payout_response
    <3>3. \A o : Paid(request.outputs, o) <= Paid(response.node_tx.outputs, o)
      BY <1>1, <1>2, <3>1, <3>2, MatchedPays
    <3>4. QED
      BY <3>1, <3>3
  <2>7. QED
    BY <2>3, <2>5, <2>6 DEF PaysTheRequest
<1>5. QED
  BY <1>3, <1>4

-----------------------------------------------------------------------------
(***************************************************************************)
(* Division and selection.                                                 *)
(***************************************************************************)

\* The types of a window and a list of balances, and that a list has a miner once.
AccountingInv ==
  /\ reward \in Nat /\ fee_bps \in Nat
  /\ window \in Windows(Miners)
  /\ balances \in Seq([miner : Miners, confirmed : Nat])
  /\ OneEach(balances, DOMAIN balances)

\* The empty window and the empty list.
LEMMA AccountingBegin == AccountingInit => AccountingInv
<1> SUFFICES ASSUME AccountingInit PROVE AccountingInv
  OBVIOUS
<1>1. reward \in Nat /\ fee_bps \in Nat
  BY AccountingAssumption DEF AccountingInit
<1>2. window \in Windows(Miners) /\ balances \in Seq([miner : Miners, confirmed : Nat])
  BY DEF AccountingInit, Windows
<1>3. OneEach(balances, DOMAIN balances)
  BY DEF AccountingInit, OneEach
<1>4. QED
  BY <1>1, <1>2, <1>3 DEF AccountingInv

\* One more share, or the balance of one more miner.
LEMMA AccountingStep == AccountingInv /\ [AccountingNext]_accountingVars => AccountingInv'
<1> SUFFICES ASSUME AccountingInv, [AccountingNext]_accountingVars PROVE AccountingInv'
  OBVIOUS
<1> DEFINE T == [miner : Miners, confirmed : Nat]
<1>1. CASE AddShare
  <2>1. PICK m \in Miners, d \in Difficulties : window' = Append(window, ShareWeight(m, d))
    BY <1>1 DEF AddShare
  <2>2. d \in Nat
    BY AccountingAssumption
  <2>3. window' \in Windows(Miners)
    BY <2>1, <2>2, WeightsGrow DEF AccountingInv
  <2>4. reward' = reward /\ fee_bps' = fee_bps /\ balances' = balances
    BY <1>1 DEF AddShare
  <2>5. QED
    BY <2>3, <2>4 DEF AccountingInv, OneEach
<1>2. CASE AddBalance
  <2>1. PICK m \in Miners \ {balances[i].miner : i \in DOMAIN balances}, c \in BalanceAmounts :
          balances' = Append(balances, MinerBalance(m, c))
    BY <1>2 DEF AddBalance
  <2>2. reward' = reward /\ fee_bps' = fee_bps /\ window' = window
    BY <1>2 DEF AddBalance
  <2>3. PICK x \in T : x = MinerBalance(m, c) /\ x.miner = m
    <3>1. c \in Nat
      BY AccountingAssumption
    <3>2. MinerBalance(m, c) = [miner |-> m, confirmed |-> c]
      BY DEF MinerBalance
    <3>3. MinerBalance(m, c) \in T /\ MinerBalance(m, c).miner = m
      BY <3>1, <3>2
    <3>4. QED
      BY <3>3
  <2>4. \A y \in T : y.miner \in Nat /\ y.confirmed \in Nat
    BY AccountingAssumption
  <2> HIDE DEF T
  <2>5. PICK s \in Seq(T) : s = balances
    BY DEF AccountingInv, T
  <2>6. PICK n \in Nat : n = Len(s) /\ DOMAIN s = 1 .. n
    BY <2>5
  <2>7. /\ balances' \in Seq(T) /\ DOMAIN balances' = 1 .. n + 1 /\ balances'[n + 1] = x
        /\ \A i \in 1 .. n : balances'[i] = s[i]
    BY <2>1, <2>3, <2>5, <2>6
  <2>8. \A i \in 1 .. n + 1 : balances'[i] \in T
    BY <2>7
  <2>9. \A i \in 1 .. n + 1 : i \in 1 .. n \/ i = n + 1
    BY <2>6
  <2>10. \A i, j \in 1 .. n : s[i].miner = s[j].miner => i = j
    BY <2>5, <2>6 DEF AccountingInv, OneEach
  <2>11. \A i \in 1 .. n : s[i].miner # m
    BY <2>1, <2>5, <2>6
  <2>12. \A i, j \in 1 .. n + 1 : balances'[i].miner = balances'[j].miner => i = j
    BY <2>3, <2>7, <2>9, <2>10, <2>11
  <2>13. OneEach(balances, DOMAIN balances)'
    BY <2>4, <2>7, <2>8, <2>12 DEF OneEach
  <2>14. QED
    BY <2>2, <2>7, <2>13 DEF AccountingInv, T
<1>3. CASE UNCHANGED accountingVars
  BY <1>3 DEF accountingVars, AccountingInv, OneEach
<1>4. QED
  BY <1>1, <1>2, <1>3 DEF AccountingNext

\* The whole reward is divided.
LEMMA WindowIsWhole == AccountingInv => SumIsReward
<1> SUFFICES ASSUME AccountingInv, Result.ok
             PROVE  SumFunction(Result.allocations) + Result.fee = reward
  BY DEF SumIsReward
<1>1. PICK r \in Nat, f \in Nat, s \in Windows(Miners) : r = reward /\ f = fee_bps /\ s = window
  BY DEF AccountingInv
<1>2. allocate_pplns(r, f, s).ok /\ Result = allocate_pplns(r, f, s) /\ Miners \subseteq Nat
  BY <1>1, AccountingAssumption DEF Result
<1>3. /\ allocate_pplns(r, f, s).allocations \in [MinersOf(s) -> Nat]
      /\ SumFunctionOnSet(allocate_pplns(r, f, s).allocations, MinersOf(s)) + allocate_pplns(r, f, s).fee = r
  BY <1>2, PplnsIsWhole, Zenon
<1>4. DOMAIN Result.allocations = MinersOf(s)
  BY <1>2, <1>3
<1>5. SumFunction(Result.allocations) = SumFunctionOnSet(Result.allocations, MinersOf(s))
  BY <1>4 DEF SumFunction
<1>6. QED
  BY <1>1, <1>2, <1>3, <1>5

\* And rounded as it may be.
LEMMA WindowIsFair == AccountingInv => WithinRounding
<1> SUFFICES ASSUME AccountingInv, Result.ok PROVE WithinRounding
  BY DEF WithinRounding
<1>1. PICK r \in Nat, f \in Nat, s \in Windows(Miners) : r = reward /\ f = fee_bps /\ s = window
  BY DEF AccountingInv
<1>2. allocate_pplns(r, f, s).ok /\ Result = allocate_pplns(r, f, s) /\ Miners \subseteq Nat
  BY <1>1, AccountingAssumption DEF Result
<1> DEFINE w == Weights(s)
           a == Result.allocations
           S == MinersOf(s)
           exact == [m \in S |-> ((r - Result.fee) * w[m]) \div SumFunction(w)]
<1>3. DOMAIN w = S
  BY DEF Weights
<1>4. IsFiniteSet(S) /\ a \in [S -> Nat]
  <2>1. IsFiniteSet(MinersOf(s)) /\ allocate_pplns(r, f, s).allocations \in [MinersOf(s) -> Nat]
    BY <1>2, PplnsIsWhole, Zenon
  <2>2. QED
    BY <1>2, <2>1
<1>5. \A m \in S : /\ exact[m] <= a[m]
                   /\ m # Max(S) => a[m] = exact[m]
                   /\ a[m] < exact[m] + Cardinality(S)
  <2>1. \A m \in MinersOf(s) :
          LET e == ((r - allocate_pplns(r, f, s).fee) * Weights(s)[m]) \div SumFunction(Weights(s))
          IN  /\ e <= allocate_pplns(r, f, s).allocations[m]
              /\ m # Max(MinersOf(s)) => allocate_pplns(r, f, s).allocations[m] = e
              /\ allocate_pplns(r, f, s).allocations[m] < e + Cardinality(MinersOf(s))
    BY <1>2, PplnsIsFair, Zenon
  <2>2. QED
    BY <1>2, <2>1
<1>6. \A m \in S : exact[m] \in Int /\ a[m] \in Nat
  <2>1. \A m \in S : w[m] \in Nat
    <3>1. s # <<>>
      BY <1>2 DEF allocate_pplns, PplnsError
    <3>2. QED
      BY <3>1, WeightsType
  <2>2. Result.fee \in Nat
    <3>1. allocate_pplns(r, f, s).fee \in Nat
      BY <1>2, PplnsIsWhole, Zenon
    <3>2. QED
      BY <1>2, <3>1
  <2>3. SumFunction(w) \in Nat /\ SumFunction(w) # 0
    <3>1. Counts(w, S)
      BY <2>1 DEF Counts
    <3>2. SumFunction(w) = SumFunctionOnSet(w, S)
      BY <1>3 DEF SumFunction
    <3>3. SumFunction(w) # 0
      BY <1>2 DEF allocate_pplns, PplnsError
    <3> HIDE DEF w, S
    <3>4. QED
      BY <1>4, <3>1, <3>2, <3>3, SumType
  <2> SUFFICES ASSUME NEW m \in S PROVE exact[m] \in Int /\ a[m] \in Nat
    OBVIOUS
  <2>4. (r - Result.fee) * w[m] \in Int
    BY <2>1, <2>2
  <2>5. exact[m] = ((r - Result.fee) * w[m]) \div SumFunction(w)
    OBVIOUS
  <2> HIDE DEF w, exact, S, a
  <2>6. exact[m] \in Int
    BY <2>3, <2>4, <2>5
  <2>7. QED
    BY <1>4, <2>6
<1>7. Cardinality(S) \in Nat
  BY <1>4, FS_CardinalityType
<1> DEFINE surplus == [m \in S |-> a[m] - exact[m]]
<1>8. \A m \in S : /\ surplus[m] >= 0
                   /\ surplus[m] > 0 => m = Max(S) /\ surplus[m] < Cardinality(S)
  <2> HIDE DEF S, a, exact
  <2> SUFFICES ASSUME NEW m \in S
               PROVE  /\ surplus[m] >= 0
                      /\ surplus[m] > 0 => m = Max(S) /\ surplus[m] < Cardinality(S)
    OBVIOUS
  <2>1. surplus[m] = a[m] - exact[m]
    OBVIOUS
  <2> HIDE DEF surplus
  <2>2. QED
    BY <1>5, <1>6, <1>7, <2>1
<1>9. QED
  BY <1>1, <1>3, <1>8 DEF WithinRounding

\* The largest balances are selected.
LEMMA ListIsRanked == AccountingInv => SelectionIsTop
<1> SUFFICES ASSUME AccountingInv PROVE SelectionIsTop
  OBVIOUS
<1> DEFINE paid == select_payouts(balances, Minimum, MaxRecipients)
           m == Min({MaxRecipients, Cardinality(Eligible)})
<1>1. PICK n \in Nat : DOMAIN balances = 1 .. n
  BY DEF AccountingInv
<1>2. IsFiniteSet(DOMAIN balances)
  BY <1>1, FS_Interval
<1>3. MaxRecipients \in Nat
  BY AccountingAssumption
<1>4. /\ DOMAIN paid = 1 .. m /\ Cardinality(Eligible) \in Nat
      /\ \A i \in Eligible : Rank(i) < MaxRecipients => paid[Rank(i) + 1] = balances[i]
  <2>1. PICK b : b = balances
    OBVIOUS
  <2>2. IsFiniteSet(DOMAIN b) /\ OneEach(b, DOMAIN b) /\ Reaches(b, Eligible, Minimum)
    BY <1>2, <2>1 DEF AccountingInv, Eligible, Reaches
  <2>3. \A i : Rank(i) = Cardinality(Ahead(b, Eligible, i))
    BY <2>1 DEF Rank, Ahead
  <2>4. Ranked(b, Eligible, MaxRecipients, select_payouts(b, Minimum, MaxRecipients))
    BY <1>3, <2>2, SelectionRanks
  <2>5. QED
    BY <2>1, <2>3, <2>4 DEF Ranked
<1>5. m \in Nat
  BY <1>3, <1>4, MinOfTwo
<1>6. Len(paid) = m
  <2> HIDE DEF m
  <2>1. paid = [k \in 1 .. m |-> paid[k]]
    BY <1>4 DEF select_payouts
  <2> HIDE DEF paid
  <2>2. QED
    BY <1>5, <2>1
<1>7. QED
  BY <1>4, <1>6 DEF SelectionIsTop

\* allocate_pplns and select_payouts: for any miners, difficulties, rewards and fees, and
\* for windows and lists of any length, a reward is divided to the last unit, nobody is
\* short of a unit of its part, and the largest balances are paid.
THEOREM DivisionsAreExact == AccountingSpec => []SumsToReward
<1>1. AccountingInv => SumsToReward
  BY WindowIsWhole, WindowIsFair, ListIsRanked DEF SumsToReward
<1>2. QED
  BY <1>1, AccountingBegin, AccountingStep, PTL DEF AccountingSpec

\* allocate_pplns: a share that is added to a window, whoever else is in it, does not
\* lower the reward of the miner who found it.
THEOREM OwnShareIsNoLoss == AccountingSpec => OwnShareNeverHurts
<1>1. AccountingInv /\ [AccountingNext]_accountingVars =>
        [\A m \in Miners : window' # window /\ Last(window').miner = m
                             => Got(Result', m) >= Got(Result, m)]_accountingVars
  <2> SUFFICES ASSUME AccountingInv, AccountingNext, NEW m \in Miners, window' # window,
                      Last(window').miner = m
               PROVE  Got(Result', m) >= Got(Result, m)
    OBVIOUS
  <2>1. AddShare
    BY DEF AccountingNext, AddBalance
  <2>2. PICK x \in Miners, d \in Difficulties : window' = Append(window, ShareWeight(x, d))
    BY <2>1 DEF AddShare
  <2>3. PICK r \in Nat, f \in Nat, s \in Windows(Miners) : r = reward /\ f = fee_bps /\ s = window
    BY DEF AccountingInv
  <2>4. reward' = r /\ fee_bps' = f /\ d \in Nat /\ Miners \subseteq Nat
    BY <2>1, <2>3, AccountingAssumption DEF AddShare
  <2>5. PICK more \in Windows(Miners) : more = Append(s, ShareWeight(x, d))
    BY <2>3, <2>4, WeightsGrow
  <2>6. x = m
    <3>1. Last(more) = ShareWeight(x, d)
      BY <2>5 DEF Last, Windows
    <3>2. QED
      BY <2>2, <2>3, <2>5, <3>1 DEF ShareWeight
  <2> DEFINE before == allocate_pplns(r, f, s)
             after == allocate_pplns(r, f, more)
  <2>7. Result = before /\ Result' = after
    BY <2>2, <2>3, <2>4, <2>5 DEF Result
  <2>8. before.ok => before.allocations \in [MinersOf(s) -> Nat]
    BY <2>4, PplnsIsWhole, Zenon
  <2>9. after.ok => after.allocations \in [MinersOf(more) -> Nat]
    BY <2>4, PplnsIsWhole, Zenon
  <2>10. before.ok /\ m \in MinersOf(s) => after.ok /\ before.allocations[m] <= after.allocations[m]
    BY <2>4, <2>5, <2>6, OwnShareHelps
  <2>11. m \in MinersOf(s) => m \in MinersOf(more)
    BY <2>4, <2>5, <2>6, WeightsGrow
  <2> HIDE DEF before, after
  <2>12. Got(before, m) \in Nat /\ Got(after, m) \in Nat
    BY <2>8, <2>9 DEF Got
  <2>13. Got(before, m) <= Got(after, m)
    <3>1. CASE before.ok /\ m \in MinersOf(s)
      BY <2>8, <2>9, <2>10, <2>11, <3>1 DEF Got
    <3>2. CASE ~(before.ok /\ m \in MinersOf(s))
      <4>1. Got(before, m) = 0
        BY <2>8, <3>2 DEF Got
      <4>2. QED
        BY <2>12, <4>1
    <3>3. QED
      BY <3>1, <3>2
  <2>14. QED
    BY <2>7, <2>12, <2>13
<1>2. QED
  BY <1>1, AccountingBegin, AccountingStep, PTL DEF AccountingSpec, OwnShareNeverHurts

-----------------------------------------------------------------------------
(***************************************************************************)
(* The preview of payouts: powers of ten, digits and amounts.              *)
(***************************************************************************)

\* A set of numbers that has 0, and with every number the next, has them all.
LEMMA Climb ==
  ASSUME NEW n \in Nat, NEW C, 0 \in C, \A k \in 0 .. n : k + 1 \in 0 .. n /\ k \in C => k + 1 \in C
  PROVE  0 .. n \subseteq C
<1> DEFINE D == {k \in 0 .. n : k \notin C}
<1>1. ASSUME D # {} PROVE FALSE
  <2>1. PICK k \in D : \A m \in D : k <= m
    <3> HIDE DEF D
    <3>1. D \subseteq Nat
      BY DEF D
    <3>2. QED
      BY <1>1, <3>1, SmallestNat
  <2>2. k \in 0 .. n /\ k \notin C /\ k # 0
    BY <2>1
  <2>3. k - 1 \in 0 .. n /\ (k - 1) + 1 = k /\ k - 1 \notin D
    BY <2>1, <2>2
  <2>4. k - 1 \in C
    BY <2>3
  <2>5. PICK q \in 0 .. n : q = k - 1
    BY <2>3
  <2>6. q + 1 = k /\ q \in C
    BY <2>3, <2>4, <2>5
  <2>7. QED
    BY <2>2, <2>6
<1>2. QED
  BY <1>1

\* The powers up to the n-th, from the first.
Powers(f, n) == f = [k \in 0 .. n |-> IF k = 0 THEN 1 ELSE 10 * f[k - 1]]

\* There are powers up to any number.
LEMMA PowersExist ==
  ASSUME NEW n \in Nat
  PROVE  \E f : Powers(f, n)
<1> DEFINE C == {k \in Nat : \E f : Powers(f, k)}
<1>1. 0 \in C
  <2> DEFINE f == [k \in 0 .. 0 |-> 1]
  <2>1. Powers(f, 0)
    BY DEF Powers
  <2>2. QED
    BY <2>1
<1>2. ASSUME NEW k \in 0 .. n, k + 1 \in 0 .. n, k \in C PROVE k + 1 \in C
  <2>1. PICK f : Powers(f, k)
    BY <1>2
  <2>2. f = [j \in 0 .. k |-> IF j = 0 THEN 1 ELSE 10 * f[j - 1]]
    BY <2>1 DEF Powers
  <2>3. f[0] = 1 /\ \A j \in 0 .. k : j # 0 => f[j] = 10 * f[j - 1]
    BY <2>2
  <2> DEFINE h == [j \in 0 .. k + 1 |-> IF j = k + 1 THEN 10 * f[k] ELSE f[j]]
  <2>4. ASSUME NEW j \in 0 .. k + 1 PROVE h[j] = IF j = 0 THEN 1 ELSE 10 * h[j - 1]
    <3>1. CASE j = k + 1
      <4>1. j # 0 /\ j - 1 = k /\ k \in 0 .. k + 1 /\ k # k + 1
        BY <3>1
      <4>2. h[j] = 10 * f[k] /\ h[k] = f[k]
        BY <3>1, <4>1
      <4> HIDE DEF h
      <4>3. QED
        BY <4>1, <4>2
    <3>2. CASE j # k + 1 /\ j # 0
      <4>1. j \in 0 .. k /\ j - 1 \in 0 .. k + 1 /\ j - 1 # k + 1
        BY <3>2
      <4>2. h[j] = f[j] /\ h[j - 1] = f[j - 1]
        BY <3>2, <4>1
      <4> HIDE DEF h
      <4>3. QED
        BY <2>3, <3>2, <4>1, <4>2
    <3>3. CASE j = 0
      BY <2>3, <3>3
    <3>4. QED
      BY <3>1, <3>2, <3>3
  <2>5. h = [j \in 0 .. k + 1 |-> h[j]]
    OBVIOUS
  <2> HIDE DEF h
  <2>6. Powers(h, k + 1)
    BY <2>4, <2>5 DEF Powers
  <2>7. QED
    BY <2>6
<1> HIDE DEF C
<1>3. 0 .. n \subseteq C
  BY <1>1, <1>2, Climb
<1>4. QED
  BY <1>3 DEF C

\* The exponents there are.
Exponents == 0 .. Scale + MaxDigits

\* Power is what its definition says.
LEMMA PowerIs ==
  /\ Power[0] = 1
  /\ \A k \in Exponents : k + 1 \in Exponents => Power[k + 1] = 10 * Power[k]
<1>1. Scale + MaxDigits \in Nat
  BY PolicyAssumption
<1>2. PICK f : Powers(f, Scale + MaxDigits)
  BY <1>1, PowersExist
<1>3. Powers(Power, Scale + MaxDigits)
  <2>1. Power = CHOOSE g : Powers(g, Scale + MaxDigits)
    BY DEF Power, Powers
  <2>2. QED
    BY <1>2, <2>1
<1>4. PICK n \in Nat : n = Scale + MaxDigits
  BY <1>1
<1>5. Power = [k \in 0 .. n |-> IF k = 0 THEN 1 ELSE 10 * Power[k - 1]]
  BY <1>3, <1>4 DEF Powers
<1>6. PICK p : p = Power
  OBVIOUS
<1>7. p = [k \in 0 .. n |-> IF k = 0 THEN 1 ELSE 10 * p[k - 1]]
  BY <1>5, <1>6
<1>8. p[0] = 1 /\ \A k \in 0 .. n : k + 1 \in 0 .. n => p[k + 1] = 10 * p[k]
  BY <1>7
<1>9. QED
  BY <1>4, <1>6, <1>8 DEF Exponents

\* A power of ten is positive.
LEMMA PowerType ==
  ASSUME NEW k \in Exponents
  PROVE  Power[k] \in Nat /\ Power[k] > 0
<1> DEFINE C == {j \in Nat : Power[j] \in Nat /\ Power[j] > 0}
<1>1. PICK n \in Nat : n = Scale + MaxDigits
  BY PolicyAssumption
<1>2. 0 \in C
  BY PowerIs
<1>3. ASSUME NEW j \in 0 .. n, j + 1 \in 0 .. n, j \in C PROVE j + 1 \in C
  BY <1>1, <1>3, PowerIs DEF Exponents
<1> HIDE DEF C
<1>4. 0 .. n \subseteq C
  BY <1>2, <1>3, Climb
<1>5. QED
  BY <1>1, <1>4 DEF C, Exponents

\* Exponents add up.
LEMMA PowerAdd ==
  ASSUME NEW a \in Nat, NEW b \in Nat, a + b \in Exponents
  PROVE  Power[a] * Power[b] = Power[a + b]
<1> DEFINE C == {j \in Nat : Power[a] * Power[j] = Power[a + j]}
<1>1. PICK n \in Nat : n = Scale + MaxDigits
  BY PolicyAssumption
<1>2. a \in Exponents /\ a + b <= n
  BY <1>1 DEF Exponents
<1>3. 0 \in C
  BY <1>2, PowerIs, PowerType
<1>4. ASSUME NEW j \in 0 .. b, j + 1 \in 0 .. b, j \in C PROVE j + 1 \in C
  <2>1. /\ j \in Exponents /\ j + 1 \in Exponents /\ a + j \in Exponents
        /\ a + j + 1 \in Exponents /\ a + j + 1 = a + (j + 1)
    BY <1>1, <1>2, <1>4 DEF Exponents
  <2>2. Power[j + 1] = 10 * Power[j] /\ Power[a + j + 1] = 10 * Power[a + j]
    BY <2>1, PowerIs
  <2>3. PICK x \in Nat, y \in Nat, z \in Nat : x = Power[a] /\ y = Power[j] /\ z = Power[a + j]
    BY <1>2, <2>1, PowerType
  <2>4. x * y = z
    BY <1>4, <2>3
  <2>5. x * (10 * y) = 10 * (x * y)
    OBVIOUS
  <2>6. Power[a] * Power[j + 1] = Power[a + (j + 1)]
    BY <2>1, <2>2, <2>3, <2>4, <2>5
  <2>7. QED
    BY <2>6
<1> HIDE DEF C
<1>5. 0 .. b \subseteq C
  BY <1>3, <1>4, Climb
<1>6. QED
  BY <1>5 DEF C

-----------------------------------------------------------------------------
\* g is the recursive function inside Value.
Reads(g, s, T) ==
  g = [t \in SUBSET T |-> IF t = {} THEN 0 ELSE g[t \ {Max(t)}] * 10 + s[Max(t)]]

\* The value of digits is the recursion of the community modules, by definition.
LEMMA ValueIsRead ==
  ASSUME NEW s
  PROVE  Value(s) = (CHOOSE g : Reads(g, s, DOMAIN s))[DOMAIN s]
  BY DEF Value, FoldLeft, MapThenFoldSet, Reads

\* There is one for any number of digits.
LEMMA ReadsExists ==
  ASSUME NEW s, NEW n \in Nat
  PROVE  \E g : Reads(g, s, 1 .. n)
<1> DEFINE C == {k \in Nat : \E g : Reads(g, s, 1 .. k)}
<1>1. 0 \in C
  <2>1. SUBSET (1 .. 0) = {{}}
    OBVIOUS
  <2> DEFINE g == [t \in SUBSET (1 .. 0) |-> 0]
  <2>2. Reads(g, s, 1 .. 0)
    BY <2>1 DEF Reads
  <2>3. QED
    BY <2>2
<1>2. ASSUME NEW q \in 0 .. n, q + 1 \in 0 .. n, q \in C PROVE q + 1 \in C
  <2>1. PICK g : Reads(g, s, 1 .. q)
    BY <1>2
  <2>2. PICK k \in Nat : k = q + 1
    OBVIOUS
  <2> DEFINE h == [t \in SUBSET (1 .. k) |-> IF k \in t THEN g[t \ {k}] * 10 + s[k] ELSE g[t]]
  <2>3. ASSUME NEW t \in SUBSET (1 .. k)
        PROVE  h[t] = IF t = {} THEN 0 ELSE h[t \ {Max(t)}] * 10 + s[Max(t)]
    <3>1. t \ {k} \in SUBSET (1 .. q) /\ t \ {k} \in SUBSET (1 .. k)
      BY <2>2
    <3>2. CASE k \in t
      <4>1. Max(t) = k
        <5>1. Max(t) \in t /\ \A x \in t : Max(t) >= x
          BY <3>2, MaxUpTo
        <5>2. Max(t) \in 1 .. k /\ Max(t) >= k
          BY <3>2, <5>1
        <5>3. \A m : m \in 1 .. k /\ m >= k => m = k
          BY <2>2
        <5>4. QED
          BY <5>2, <5>3
      <4>2. h[t] = g[t \ {k}] * 10 + s[k] /\ h[t \ {k}] = g[t \ {k}]
        BY <3>1, <3>2
      <4> HIDE DEF h
      <4>3. QED
        BY <3>2, <4>1, <4>2
    <3>3. CASE k \notin t
      <4>1. t \in SUBSET (1 .. q) /\ h[t] = g[t]
        BY <3>1, <3>3
      <4>2. g[t] = IF t = {} THEN 0 ELSE g[t \ {Max(t)}] * 10 + s[Max(t)]
        BY <2>1, <4>1 DEF Reads
      <4>3. h[t \ {Max(t)}] = g[t \ {Max(t)}]
        BY <3>3
      <4> HIDE DEF h
      <4>4. QED
        BY <4>1, <4>2, <4>3
    <3>4. QED
      BY <3>2, <3>3
  <2>4. h = [t \in SUBSET (1 .. k) |-> h[t]]
    OBVIOUS
  <2> HIDE DEF h
  <2>5. Reads(h, s, 1 .. k)
    BY <2>3, <2>4 DEF Reads
  <2>6. QED
    BY <2>2, <2>5
<1> HIDE DEF C
<1>3. 0 .. n \subseteq C
  BY <1>1, <1>2, Climb
<1>4. QED
  BY <1>3 DEF C

\* v has the values of the first digits of s.
Values(v, s, n) ==
  /\ v \in [0 .. n -> Nat]
  /\ v[0] = 0
  /\ \A k \in 0 .. n : k + 1 \in 0 .. n => v[k + 1] = v[k] * 10 + s[k + 1]

\* The value of digits is read from the first to the last.
LEMMA ValueStepwise ==
  ASSUME NEW n \in Nat, NEW s, DOMAIN s = 1 .. n, \A i \in 1 .. n : s[i] \in Nat
  PROVE  \E v : Values(v, s, n) /\ Value(s) = v[n]
<1>1. PICK g : Reads(g, s, 1 .. n) /\ Value(s) = g[1 .. n]
  <2>1. \E g : Reads(g, s, 1 .. n)
    BY ReadsExists
  <2>2. PICK g : g = CHOOSE f : Reads(f, s, 1 .. n)
    OBVIOUS
  <2>3. Value(s) = g[1 .. n]
    BY <2>2, ValueIsRead
  <2>4. QED
    BY <2>1, <2>2, <2>3
<1>2. g[{}] = 0
  BY <1>1 DEF Reads
<1>3. ASSUME NEW k \in 0 .. n, k + 1 \in 0 .. n PROVE g[1 .. k + 1] = g[1 .. k] * 10 + s[k + 1]
  <2>1. 1 .. k + 1 \in SUBSET (1 .. n) /\ k + 1 \in 1 .. k + 1
    BY <1>3
  <2>2. Max(1 .. k + 1) \in 1 .. k + 1 /\ \A x \in 1 .. k + 1 : Max(1 .. k + 1) >= x
    BY <2>1, MaxUpTo
  <2>3. Max(1 .. k + 1) = k + 1
    <3>1. Max(1 .. k + 1) >= k + 1
      BY <2>1, <2>2
    <3>2. PICK m \in 1 .. k + 1 : m = Max(1 .. k + 1)
      BY <2>2
    <3>3. QED
      BY <3>1, <3>2
  <2>4. (1 .. k + 1) \ {k + 1} = 1 .. k
    OBVIOUS
  <2>5. g[1 .. k + 1] = g[(1 .. k + 1) \ {Max(1 .. k + 1)}] * 10 + s[Max(1 .. k + 1)]
    BY <1>1, <2>1 DEF Reads
  <2>6. QED
    BY <2>3, <2>4, <2>5
<1> DEFINE v == [k \in 0 .. n |-> g[1 .. k]]
           C == {k \in Nat : g[1 .. k] \in Nat}
<1>4. 1 .. 0 = {}
  OBVIOUS
<1>5. 0 .. n \subseteq C
  <2>1. 0 \in C
    BY <1>2, <1>4
  <2>2. ASSUME NEW k \in 0 .. n, k + 1 \in 0 .. n, k \in C PROVE k + 1 \in C
    <3>1. g[1 .. k] \in Nat /\ s[k + 1] \in Nat
      BY <2>2
    <3>2. g[1 .. k] * 10 + s[k + 1] \in Nat
      BY <3>1
    <3>3. g[1 .. k + 1] \in Nat
      BY <1>3, <2>2, <3>2
    <3>4. QED
      BY <3>3
  <2> HIDE DEF C
  <2>3. QED
    BY <2>1, <2>2, Climb
<1>6. \A k \in 0 .. n : v[k] \in Nat
  BY <1>5
<1>7. v[0] = 0
  BY <1>2, <1>4
<1>8. \A k \in 0 .. n : k + 1 \in 0 .. n => v[k + 1] = v[k] * 10 + s[k + 1]
  BY <1>3
<1>9. v \in [0 .. n -> Nat] /\ v[n] = g[1 .. n]
  BY <1>6
<1> HIDE DEF v
<1>10. QED
  BY <1>1, <1>7, <1>8, <1>9 DEF Values

-----------------------------------------------------------------------------
\* A quotient is the number between these bounds.
LEMMA DivIs ==
  ASSUME NEW x \in Nat, NEW d \in Nat, d > 0, NEW q \in Nat, d * q <= x, x < d * (q + 1)
  PROVE  x \div d = q
<1>1. PICK r \in Nat : r = x \div d /\ d * r <= x
  BY DivBound
<1>2. q <= r
  BY <1>1, DivLargest
<1>3. ASSUME q < r PROVE FALSE
  <2>1. PICK e \in Nat : r = q + 1 + e
    <3>1. r - q - 1 \in Nat /\ r = q + 1 + (r - q - 1)
      BY <1>3
    <3>2. QED
      BY <3>1
  <2>2. d * r = d * (q + 1) + d * e /\ d * e \in Nat /\ d * (q + 1) \in Nat /\ d * r \in Nat
    BY <2>1
  <2>3. QED
    BY <1>1, <2>2
<1>4. QED
  BY <1>1, <1>2, <1>3

\* Dividing by ten times as much drops one digit.
LEMMA DivTen ==
  ASSUME NEW x \in Nat, NEW d \in Nat, d > 0
  PROVE  (x \div (10 * d)) * 10 + ((x \div d) % 10) = x \div d
<1>1. PICK m \in Nat : m = x \div d /\ d * m <= x
  BY DivBound
<1>2. x + 1 <= d * (m + 1)
  BY <1>1, DivAlmost
<1>3. PICK q \in Nat, r \in 0 .. 9 : q = m \div 10 /\ r = m % 10 /\ m = 10 * q + r
  <2>1. m \div 10 \in Nat /\ m % 10 \in 0 .. 9 /\ m = 10 * (m \div 10) + (m % 10)
    OBVIOUS
  <2>2. QED
    BY <2>1
<1>4. (10 * d) * q <= x
  <2>1. d * m = (10 * d) * q + d * r /\ d * r \in Nat /\ (10 * d) * q \in Nat /\ d * m \in Nat
    BY <1>3
  <2>2. QED
    BY <1>1, <2>1
<1>5. x < (10 * d) * (q + 1)
  <2>1. PICK e \in Nat : e = 9 - r
    BY <1>3
  <2>2. m + 1 + e = 10 * (q + 1)
    BY <1>3, <2>1
  <2>3. d * (m + 1 + e) = d * (m + 1) + d * e /\ d * e \in Nat /\ d * (m + 1) \in Nat
    BY <2>1
  <2>4. (10 * d) * (q + 1) = d * (10 * (q + 1))
    OBVIOUS
  <2>5. QED
    BY <1>2, <2>2, <2>3, <2>4
<1>6. x \div (10 * d) = q
  <2>1. 10 * d \in Nat /\ 10 * d > 0
    OBVIOUS
  <2>2. QED
    BY <1>4, <1>5, <2>1, DivIs
<1>7. q * 10 + r = m
  BY <1>3
<1>8. QED
  BY <1>1, <1>3, <1>6, <1>7, Zenon

\* The digits of a number are digits.
LEMMA PlacesType ==
  ASSUME NEW x \in Nat, NEW n \in Exponents
  PROVE  /\ Places(x, n) \in Seq(Digit) /\ Len(Places(x, n)) = n
         /\ \A i \in 1 .. n : Places(x, n)[i] = (x \div Power[n - i]) % 10
<1>1. n \in Nat
  BY PolicyAssumption DEF Exponents
<1>2. ASSUME NEW i \in 1 .. n PROVE (x \div Power[n - i]) % 10 \in Digit
  <2>1. n - i \in Exponents
    BY <1>1, PolicyAssumption DEF Exponents
  <2>2. PICK p \in Nat : p = Power[n - i] /\ p > 0
    BY <2>1, PowerType
  <2>3. x \div p \in Nat
    BY <2>2, DivBound
  <2>4. QED
    BY <2>2, <2>3 DEF Digit
<1>3. Places(x, n) = [i \in 1 .. n |-> (x \div Power[n - i]) % 10]
  BY DEF Places
<1>4. QED
  BY <1>1, <1>2, <1>3

\* Reading the digits of a number gives the number.
LEMMA PlacesValue ==
  ASSUME NEW x \in Nat, NEW n \in Exponents, x < Power[n]
  PROVE  Value(Places(x, n)) = x
<1>1. n \in Nat
  BY PolicyAssumption DEF Exponents
<1>2. PICK s \in Seq(Digit) : s = Places(x, n)
  BY PlacesType
<1>3. Len(s) = n /\ \A i \in 1 .. n : s[i] = (x \div Power[n - i]) % 10 /\ s[i] \in Nat
  <2>1. Len(s) = n /\ \A i \in 1 .. n : s[i] = (x \div Power[n - i]) % 10
    BY <1>2, PlacesType, Zenon
  <2>2. \A i \in 1 .. n : s[i] \in Nat
    <3>1. Len(s) = n
      BY <2>1
    <3>2. QED
      BY <1>1, <3>1 DEF Digit
  <2>3. QED
    BY <2>1, <2>2
<1>4. PICK v : Values(v, s, n) /\ Value(s) = v[n]
  BY <1>1, <1>3, ValueStepwise
<1>5. v[0] = 0 /\ \A k \in 0 .. n : k + 1 \in 0 .. n => v[k + 1] = v[k] * 10 + s[k + 1]
  BY <1>4 DEF Values
<1> DEFINE C == {k \in Nat : v[k] = x \div Power[n - k]}
<1>6. 0 \in C
  <2>1. PICK p \in Nat : p = Power[n] /\ p > 0
    BY PowerType
  <2>2. p * 0 <= x /\ x < p * (0 + 1)
    BY <2>1
  <2>3. x \div p = 0
    BY <2>1, <2>2, DivIs
  <2>4. n - 0 = n
    BY <1>1
  <2>5. QED
    BY <1>5, <2>1, <2>3, <2>4
<1>7. ASSUME NEW k \in 0 .. n, k + 1 \in 0 .. n, k \in C PROVE k + 1 \in C
  <2>1. n - (k + 1) \in Exponents /\ n - k \in Exponents /\ n - k = (n - (k + 1)) + 1
    BY <1>1, <1>7, PolicyAssumption DEF Exponents
  <2>2. PICK p \in Nat : p = Power[n - (k + 1)] /\ p > 0
    BY <2>1, PowerType
  <2>3. Power[n - k] = 10 * p
    BY <2>1, <2>2, PowerIs
  <2>4. v[k] = x \div (10 * p)
    BY <1>7, <2>3
  <2>5. k + 1 \in 1 .. n
    BY <1>7
  <2>6. s[k + 1] = (x \div p) % 10
    BY <1>3, <2>2, <2>5
  <2>7. v[k + 1] = (x \div (10 * p)) * 10 + ((x \div p) % 10)
    <3>1. v[k + 1] = v[k] * 10 + s[k + 1]
      BY <1>5, <1>7
    <3>2. QED
      BY <2>4, <2>6, <3>1, Zenon
  <2>8. v[k + 1] = x \div p
    BY <2>2, <2>7, DivTen
  <2>9. QED
    BY <2>2, <2>8
<1> HIDE DEF C
<1>8. n \in C
  <2>1. 0 .. n \subseteq C
    BY <1>1, <1>6, <1>7, Climb
  <2>2. QED
    BY <1>1, <2>1
<1>9. v[n] = x \div Power[n - n] /\ n - n = 0
  BY <1>1, <1>8 DEF C
<1>10. v[n] = x \div 1
  BY <1>9, PowerIs
<1>11. QED
  BY <1>2, <1>4, <1>10

\* A value is a number.
LEMMA ValueType ==
  ASSUME NEW s \in Seq(Digit)
  PROVE  Value(s) \in Nat
<1>1. PICK n \in Nat : DOMAIN s = 1 .. n
  OBVIOUS
<1>2. \A i \in 1 .. n : s[i] \in Nat
  BY <1>1 DEF Digit
<1>3. PICK v : Values(v, s, n) /\ Value(s) = v[n]
  BY <1>1, <1>2, ValueStepwise
<1>4. QED
  BY <1>3 DEF Values

\* The first n digits of s and t are the same.
SameDigits(s, t, n) == \A i \in 1 .. n : s[i] = t[i]

\* Two readings of the same digits agree.
LEMMA ValuesAgree ==
  ASSUME NEW n \in Nat, NEW s, NEW t, SameDigits(s, t, n), NEW v, NEW w,
         Values(v, s, n), Values(w, t, n)
  PROVE  v[n] = w[n]
<1> DEFINE C == {k \in Nat : v[k] = w[k]}
<1>1. 0 \in C
  BY DEF Values
<1>2. ASSUME NEW k \in 0 .. n, k + 1 \in 0 .. n, k \in C PROVE k + 1 \in C
  <2>1. k + 1 \in 1 .. n
    BY <1>2
  <2>2. v[k + 1] = v[k] * 10 + s[k + 1] /\ w[k + 1] = w[k] * 10 + t[k + 1] /\ s[k + 1] = t[k + 1]
    BY <1>2, <2>1 DEF Values, SameDigits
  <2>3. QED
    BY <1>2, <2>2
<1> HIDE DEF C
<1>3. 0 .. n \subseteq C
  BY <1>1, <1>2, Climb
<1>4. QED
  BY <1>3 DEF C

\* Zeros behind the digits are a power of ten.
LEMMA PaddedValue ==
  ASSUME NEW s \in Seq(Digit), Len(s) <= Scale
  PROVE  Value(Padded(s)) = Value(s) * Power[Scale - Len(s)]
<1>1. PICK n \in Nat : n = Len(s) /\ DOMAIN s = 1 .. n
  OBVIOUS
<1>2. PICK z \in Nat : z = Scale - n /\ Scale = n + z /\ Scale \in Nat
  <2>1. Scale \in Nat /\ Scale - n \in Nat /\ Scale = n + (Scale - n)
    BY <1>1, PolicyAssumption
  <2>2. QED
    BY <2>1
<1>3. PICK zeros \in Seq(Digit) : zeros = [i \in 1 .. z |-> 0]
  <2>1. [i \in 1 .. z |-> 0] \in Seq(Digit)
    BY DEF Digit
  <2>2. QED
    BY <2>1
<1>4. PICK p : p = Padded(s) /\ p = s \o zeros
  BY <1>1, <1>2, <1>3 DEF Padded
<1>5. /\ DOMAIN p = 1 .. n + z
      /\ \A i \in 1 .. n + z : p[i] = IF i <= n THEN s[i] ELSE 0
  <2>1. Len(zeros) = z
    BY <1>3
  <2>2. /\ s \o zeros \in Seq(Digit) /\ Len(s \o zeros) = n + z
        /\ \A i \in 1 .. n + z : (s \o zeros)[i] = IF i <= n THEN s[i] ELSE zeros[i - n]
    BY <1>1, <2>1, ConcatProperties
  <2>3. \A i \in 1 .. n + z : i > n => zeros[i - n] = 0
    BY <1>3
  <2>4. p \in Seq(Digit) /\ Len(p) = n + z
    BY <1>4, <2>2
  <2>5. QED
    BY <1>3, <1>4, <2>2, <2>3, <2>4
<1>6. \A i \in 1 .. n : s[i] \in Nat
  BY <1>1 DEF Digit
<1>7. PICK v : Values(v, s, n) /\ Value(s) = v[n]
  BY <1>1, <1>6, ValueStepwise
<1>8. PICK w : Values(w, p, n + z) /\ Value(p) = w[n + z]
  <2>1. \A i \in 1 .. n + z : p[i] \in Nat
    BY <1>5, <1>6
  <2>2. PICK m \in Nat : m = n + z
    OBVIOUS
  <2>3. DOMAIN p = 1 .. m /\ \A i \in 1 .. m : p[i] \in Nat
    BY <1>5, <2>1, <2>2
  <2>4. \E w : Values(w, p, m) /\ Value(p) = w[m]
    BY <2>3, ValueStepwise, Zenon
  <2>5. QED
    BY <2>2, <2>4
<1>9. w[n] = v[n]
  <2>1. PICK u : u = [k \in 0 .. n |-> w[k]]
    OBVIOUS
  <2>2. Values(u, p, n)
    BY <1>8, <2>1 DEF Values
  <2>3. \A i \in 1 .. n : s[i] = p[i]
    BY <1>5
  <2>4. v[n] = u[n]
    <3>1. Values(v, s, n) /\ SameDigits(s, p, n)
      BY <1>7, <2>3 DEF SameDigits
    <3>2. QED
      BY <2>2, <3>1, ValuesAgree
  <2>5. QED
    BY <2>1, <2>4
<1>10. w[n] \in Nat
  BY <1>8 DEF Values
<1> DEFINE C == {k \in Nat : w[n + k] = w[n] * Power[k]}
<1>11. 0 \in C
  BY <1>10, PowerIs
<1>12. ASSUME NEW k \in 0 .. z, k + 1 \in 0 .. z, k \in C PROVE k + 1 \in C
  <2>1. k \in Exponents /\ k + 1 \in Exponents
    BY <1>2, <1>12, PolicyAssumption DEF Exponents
  <2>2. PICK q \in Nat : q = Power[k]
    BY <2>1, PowerType
  <2>3. Power[k + 1] = 10 * q
    BY <2>1, <2>2, PowerIs
  <2>4. n + k \in 0 .. n + z /\ (n + k) + 1 \in 0 .. n + z /\ (n + k) + 1 \in 1 .. n + z
    BY <1>12
  <2>5. w[(n + k) + 1] = w[n + k] * 10 + p[(n + k) + 1]
    BY <1>8, <2>4 DEF Values
  <2>6. p[(n + k) + 1] = 0
    BY <1>5, <2>4
  <2>7. w[n + k] = w[n] * q
    BY <1>12, <2>2
  <2>8. PICK a \in Nat : a = w[n]
    BY <1>10
  <2>9. (a * q) * 10 + 0 = a * (10 * q)
    OBVIOUS
  <2>10. w[(n + k) + 1] = w[n] * Power[k + 1]
    BY <2>3, <2>5, <2>6, <2>7, <2>8, <2>9
  <2>11. QED
    BY <2>10
<1> HIDE DEF C
<1>13. 0 .. z \subseteq C
  BY <1>11, <1>12, Climb
<1>14. w[n + z] = w[n] * Power[z]
  BY <1>13 DEF C
<1>15. QED
  BY <1>1, <1>2, <1>4, <1>7, <1>8, <1>9, <1>14

-----------------------------------------------------------------------------
\* u is c followed by d.
Joined(u, c, d) ==
  /\ Len(u) = Len(c) + Len(d)
  /\ \A i \in 1 .. Len(c) + Len(d) : u[i] = IF i <= Len(c) THEN c[i] ELSE d[i - Len(c)]

\* That is what a concatenation is.
LEMMA ConcatJoins ==
  ASSUME NEW S, NEW c \in Seq(S), NEW d \in Seq(S)
  PROVE  c \o d \in Seq(S) /\ Joined(c \o d, c, d)
  BY ConcatProperties DEF Joined

\* x is the part of s between these places, and has members of S only.
Between(s, lo, hi, S) == \A i \in lo .. hi : s[i] \in S
Slice(x, s, lo, hi) ==
  /\ Len(x) = (IF lo <= hi THEN hi - lo + 1 ELSE 0)
  /\ \A i \in 1 .. hi - lo + 1 : x[i] = s[lo + i - 1]

\* That is what a subsequence is.
LEMMA SubSeqSlices ==
  ASSUME NEW S, NEW s, NEW lo \in Int, NEW hi \in Int, Between(s, lo, hi, S)
  PROVE  SubSeq(s, lo, hi) \in Seq(S) /\ Slice(SubSeq(s, lo, hi), s, lo, hi)
<1>1. \A i \in lo .. hi : s[i] \in S
  BY DEF Between
<1>2. QED
  BY <1>1, SubSeqProperties DEF Slice

\* What is before and behind the one dot of a text.
LEMMA SplitAtDot ==
  ASSUME NEW a \in Seq(Digit), NEW b \in Seq(Digit)
  PROVE  Whole(a \o <<Dot>> \o b) = a /\ Fraction(a \o <<Dot>> \o b) = b
<1>1. PICK c \in Seq(Character), d \in Seq(Character), e \in Seq(Character) :
        c = a /\ d = <<Dot>> /\ e = b
  <2>1. a \in Seq(Character) /\ b \in Seq(Character) /\ <<Dot>> \in Seq(Character)
    BY DEF Character
  <2>2. QED
    BY <2>1
<1>2. PICK t \in Seq(Character) : t = (c \o d) \o e
  BY ConcatProperties
<1>3. PICK n \in Nat, m \in Nat : n = Len(a) /\ m = Len(b)
  OBVIOUS
<1>4. Len(c) = n /\ Len(d) = 1 /\ d[1] = Dot /\ Len(e) = m
  BY <1>1, <1>3
<1>5. PICK u \in Seq(Character) : u = c \o d
  BY ConcatProperties
<1>6. Len(u) = n + 1 /\ \A i \in 1 .. n + 1 : u[i] = IF i <= n THEN a[i] ELSE Dot
  <2>1. Len(u) = n + 1 /\ \A i \in 1 .. n + 1 : u[i] = IF i <= n THEN c[i] ELSE d[i - n]
    <3>1. Joined(u, c, d)
      BY <1>5, ConcatJoins
    <3>2. QED
      BY <1>4, <3>1 DEF Joined
  <2>2. \A i \in 1 .. n + 1 : ~(i <= n) => i - n = 1
    OBVIOUS
  <2>3. QED
    BY <1>1, <1>4, <2>1, <2>2
<1>7. Len(t) = n + 1 + m /\ \A i \in 1 .. n + 1 + m : t[i] = IF i <= n + 1 THEN u[i] ELSE e[i - (n + 1)]
  <2>1. t = u \o e
    BY <1>2, <1>5
  <2>2. Joined(t, u, e)
    BY <2>1, ConcatJoins
  <2>3. QED
    BY <1>4, <1>6, <2>2 DEF Joined
<1>8. /\ \A i \in 1 .. n : t[i] = a[i]
      /\ t[n + 1] = Dot
      /\ \A i \in 1 .. m : t[(n + 1) + i] = b[i]
  <2>1. \A i \in 1 .. n : t[i] = a[i]
    BY <1>6, <1>7
  <2>2. t[n + 1] = Dot
    BY <1>6, <1>7
  <2>3. ASSUME NEW i \in 1 .. m PROVE t[(n + 1) + i] = b[i]
    <3>1. (n + 1) + i \in 1 .. n + 1 + m /\ ~((n + 1) + i <= n + 1) /\ ((n + 1) + i) - (n + 1) = i
      OBVIOUS
    <3>2. QED
      BY <1>1, <1>7, <3>1
  <2>4. QED
    BY <2>1, <2>2, <2>3
<1>9. Dots(t) = {n + 1}
  <2>1. n + 1 \in Dots(t)
    BY <1>7, <1>8 DEF Dots
  <2>2. ASSUME NEW i \in Dots(t), i # n + 1 PROVE FALSE
    <3>1. i \in 1 .. n + 1 + m /\ t[i] = Dot
      BY <1>7 DEF Dots
    <3>2. CASE i <= n
      <4>1. a[i] = Dot /\ a[i] \in Digit
        BY <1>3, <1>8, <3>1, <3>2
      <4>2. QED
        BY <4>1 DEF Digit, Dot
    <3>3. CASE ~(i <= n)
      <4>1. PICK j \in 1 .. m : i = (n + 1) + j
        <5>1. i - (n + 1) \in 1 .. m /\ i = (n + 1) + (i - (n + 1))
          BY <2>2, <3>1, <3>3
        <5>2. QED
          BY <5>1
      <4>2. b[j] = Dot /\ b[j] \in Digit
        BY <1>3, <1>8, <3>1, <4>1
      <4>3. QED
        BY <4>2 DEF Digit, Dot
    <3>4. QED
      BY <3>2, <3>3
  <2>3. QED
    BY <2>1, <2>2
<1>10. Min({n + 1}) = n + 1
  BY DEF Min
<1>11. Whole(t) = SubSeq(t, 1, n)
  <2>1. Whole(t) = SubSeq(t, 1, (n + 1) - 1)
    BY <1>9, <1>10 DEF Whole
  <2>2. (n + 1) - 1 = n
    OBVIOUS
  <2>3. QED
    BY <2>1, <2>2
<1>12. Fraction(t) = SubSeq(t, n + 2, n + 1 + m)
  <2>1. Fraction(t) = SubSeq(t, (n + 1) + 1, n + 1 + m)
    BY <1>7, <1>9, <1>10 DEF Fraction
  <2>2. (n + 1) + 1 = n + 2
    OBVIOUS
  <2>3. QED
    BY <2>1, <2>2
<1>13. SubSeq(t, 1, n) = a
  <2>1. \A i \in 1 .. n : t[i] \in Digit
    BY <1>3, <1>8
  <2>2. PICK x \in Seq(Digit) : x = SubSeq(t, 1, n) /\ Len(x) = n /\ \A i \in 1 .. n : x[i] = t[1 + i - 1]
    <3>1. PICK x \in Seq(Digit) : x = SubSeq(t, 1, n) /\ Slice(x, t, 1, n)
      <4>1. Between(t, 1, n, Digit) /\ 1 \in Int /\ n \in Int
        BY <2>1 DEF Between
      <4>2. QED
        BY <4>1, SubSeqSlices
    <3>2. Len(x) = n /\ \A i \in 1 .. n : x[i] = t[1 + i - 1]
      BY <3>1 DEF Slice
    <3>3. QED
      BY <3>1, <3>2
  <2>3. \A i \in 1 .. n : x[i] = a[i]
    BY <1>8, <2>2
  <2>4. x = a
    BY <1>3, <2>2, <2>3
  <2>5. QED
    BY <2>2, <2>4
<1>14. SubSeq(t, n + 2, n + 1 + m) = b
  <2>1. ASSUME NEW i \in n + 2 .. n + 1 + m PROVE t[i] \in Digit
    <3>1. PICK j \in 1 .. m : i = (n + 1) + j
      <4>1. i - (n + 1) \in 1 .. m /\ i = (n + 1) + (i - (n + 1))
        OBVIOUS
      <4>2. QED
        BY <4>1
    <3>2. QED
      BY <1>3, <1>8, <3>1
  <2>2. PICK x \in Seq(Digit) : x = SubSeq(t, n + 2, n + 1 + m) /\ Len(x) = m
                                /\ \A i \in 1 .. m : x[i] = t[(n + 1) + i]
    <3>1. PICK lo \in Int, hi \in Int : lo = n + 2 /\ hi = n + 1 + m
      OBVIOUS
    <3>2. \A i \in lo .. hi : t[i] \in Digit
      BY <2>1, <3>1
    <3>3. PICK x \in Seq(Digit) : x = SubSeq(t, lo, hi) /\ Len(x) = (IF lo <= hi THEN hi - lo + 1 ELSE 0)
                                  /\ \A i \in 1 .. hi - lo + 1 : x[i] = t[lo + i - 1]
      <4>1. Between(t, lo, hi, Digit)
        BY <3>2 DEF Between
      <4>2. PICK x \in Seq(Digit) : x = SubSeq(t, lo, hi) /\ Slice(x, t, lo, hi)
        BY <4>1, SubSeqSlices
      <4>3. QED
        BY <4>2 DEF Slice
    <3>4. hi - lo + 1 = m /\ (lo <= hi <=> m > 0)
      BY <3>1
    <3>5. Len(x) = m
      BY <3>3, <3>4
    <3>6. \A i \in 1 .. m : lo + i - 1 = (n + 1) + i
      BY <3>1
    <3>7. \A i \in 1 .. m : x[i] = t[(n + 1) + i]
      BY <3>3, <3>4, <3>6
    <3>8. x = SubSeq(t, n + 2, n + 1 + m)
      BY <3>1, <3>3
    <3>9. QED
      BY <3>5, <3>7, <3>8
  <2>3. x = b
    <3>1. \A i \in 1 .. m : x[i] = b[i]
      BY <1>8, <2>2
    <3>2. Len(x) = m /\ Len(b) = m
      BY <1>3, <2>2
    <3>3. QED
      BY <3>1, <3>2
  <2>4. QED
    BY <2>2, <2>3
<1>15. QED
  BY <1>1, <1>2, <1>11, <1>12, <1>13, <1>14

\* An amount that is printed is read back as the same.
LEMMA FormatParses ==
  ASSUME NEW n \in Nat, n <= MaxUnits, n < Power[Scale + MaxDigits]
  PROVE  parse_csd_base_units(format_csd(n)) = n
<1>1. Scale \in Exponents /\ MaxDigits \in Exponents /\ Scale + MaxDigits \in Exponents
  BY PolicyAssumption DEF Exponents
<1>2. PICK p \in Nat : p = Power[Scale] /\ p > 0
  BY <1>1, PowerType
<1>3. PICK whole \in Nat : whole = n \div p /\ p * whole <= n
  BY <1>2, DivBound
<1>4. PICK rest \in Nat : rest = n % p /\ rest < p /\ n = whole * p + rest
  <2>1. n % p \in Nat /\ n % p < p /\ n = p * (n \div p) + (n % p)
    BY <1>2
  <2>2. p * whole = whole * p
    OBVIOUS
  <2>3. QED
    BY <1>3, <2>1, <2>2
<1>5. whole < Power[MaxDigits]
  <2>1. PICK m \in Nat : m = Power[MaxDigits]
    BY <1>1, PowerType
  <2>2. p * m = Power[Scale + MaxDigits]
    BY <1>1, <1>2, <2>1, PolicyAssumption, PowerAdd
  <2>3. SUFFICES ASSUME whole >= m PROVE FALSE
    BY <2>1
  <2>4. PICK e \in Nat : whole = m + e
    <3>1. whole - m \in Nat /\ whole = m + (whole - m)
      BY <2>3
    <3>2. QED
      BY <3>1
  <2>5. p * whole = p * m + p * e /\ p * e \in Nat /\ p * m \in Nat
    BY <2>4
  <2>6. QED
    BY <1>3, <2>2, <2>5
<1>6. PICK w \in Exponents : w = Width(whole) /\ w > 0 /\ whole < Power[w]
  <2> DEFINE S == {k \in 1 .. MaxDigits : whole < Power[k]}
  <2>1. MaxDigits \in S
    BY <1>5, PolicyAssumption
  <2>2. PICK k \in S : \A j \in S : k <= j
    <3>1. S \subseteq Nat
      OBVIOUS
    <3> HIDE DEF S
    <3>2. QED
      BY <2>1, <3>1, SmallestNat
  <2>3. Min(S) \in S
    <3> HIDE DEF S
    <3>1. QED
      BY <2>2 DEF Min
  <2>4. Width(whole) = Min(S)
    BY DEF Width
  <2>5. Width(whole) \in 1 .. MaxDigits /\ whole < Power[Width(whole)]
    BY <2>3, <2>4
  <2>6. QED
    BY <2>5, PolicyAssumption DEF Exponents
<1>7. PICK a \in Seq(Digit), b \in Seq(Digit) : a = Places(whole, w) /\ b = Places(rest, Scale)
  BY <1>1, PlacesType
<1>8. Len(a) = w /\ Len(b) = Scale
  BY <1>1, <1>7, PlacesType
<1>9. Value(a) = whole /\ Value(b) = rest
  BY <1>1, <1>2, <1>4, <1>6, <1>7, PlacesValue
<1>10. Value(Padded(b)) = rest
  <2>1. Value(Padded(b)) = Value(b) * Power[Scale - Len(b)]
    BY <1>8, PolicyAssumption, PaddedValue
  <2>2. Scale - Len(b) = 0
    BY <1>8, PolicyAssumption
  <2>3. QED
    BY <1>9, <2>1, <2>2, PowerIs
<1>11. PICK text : text = format_csd(n) /\ Whole(text) = a /\ Fraction(text) = b
  <2>1. format_csd(n) = a \o <<Dot>> \o b
    BY <1>2, <1>3, <1>4, <1>6, <1>7 DEF format_csd
  <2>2. QED
    BY <2>1, SplitAtDot
<1>12. a # <<>> /\ AllDigits(a) /\ AllDigits(b) /\ ~(Len(b) > Scale)
  <2>1. a # <<>>
    BY <1>6, <1>8
  <2>2. AllDigits(a) /\ AllDigits(b)
    BY DEF AllDigits
  <2>3. QED
    BY <1>8, <2>1, <2>2, PolicyAssumption
<1>13. whole * p <= MaxUnits
  <2>1. whole * p = p * whole /\ whole * p \in Nat
    OBVIOUS
  <2>2. QED
    BY <1>3, <2>1, PolicyAssumption
<1>14. PICK x : x = parse_csd_base_units(text)
  OBVIOUS
<1>15. x = Value(a) * Power[Scale] + Value(Padded(b))
  <2>1. Value(a) * Power[Scale] = whole * p
    BY <1>2, <1>9
  <2>2. ~(Value(a) * Power[Scale] > MaxUnits)
    <3>1. whole * p \in Nat /\ MaxUnits \in Nat
      BY PolicyAssumption
    <3>2. QED
      BY <1>13, <2>1, <3>1
  <2>3. QED
    BY <1>11, <1>12, <1>14, <2>2 DEF parse_csd_base_units
<1>16. x = whole * p + rest
  BY <1>2, <1>9, <1>10, <1>15
<1>17. QED
  BY <1>4, <1>11, <1>14, <1>16

\* A text split at its first dot is two texts.
LEMMA SplitType ==
  ASSUME NEW text \in Seq(Character)
  PROVE  Whole(text) \in Seq(Character) /\ Fraction(text) \in Seq(Character)
<1>1. CASE Dots(text) = {}
  <2>1. <<>> \in Seq(Character)
    OBVIOUS
  <2>2. QED
    BY <1>1, <2>1 DEF Whole, Fraction
<1>2. CASE Dots(text) # {}
  <2>1. PICK n \in Nat : n = Len(text)
    OBVIOUS
  <2>2. Dots(text) \subseteq 1 .. n /\ Dots(text) \subseteq Nat
    BY <2>1 DEF Dots
  <2>3. PICK k \in Dots(text) : \A j \in Dots(text) : k <= j
    BY <1>2, <2>2, SmallestNat
  <2>4. PICK m \in 1 .. n : m = Min(Dots(text))
    <3>1. Min(Dots(text)) \in Dots(text)
      BY <2>3 DEF Min
    <3>2. QED
      BY <2>2, <3>1
  <2>5. PICK lo \in Int, hi \in Int : lo = m - 1 /\ hi = m + 1
    OBVIOUS
  <2>6. Between(text, 1, lo, Character) /\ Between(text, hi, n, Character) /\ 1 \in Int /\ n \in Int
    BY <2>1, <2>5 DEF Between
  <2>7. SubSeq(text, 1, lo) \in Seq(Character) /\ SubSeq(text, hi, n) \in Seq(Character)
    BY <2>6, SubSeqSlices
  <2>8. Whole(text) = SubSeq(text, 1, lo) /\ Fraction(text) = SubSeq(text, hi, n)
    BY <1>2, <2>1, <2>4, <2>5 DEF Whole, Fraction
  <2>9. QED
    BY <2>7, <2>8
<1>3. QED
  BY <1>1, <1>2

\* Products of naturals, and their sums, are naturals.
LEMMA ProductsAdd ==
  ASSUME NEW i \in Nat, NEW j \in Nat, NEW k \in Nat, NEW m \in Nat
  PROVE  i * j + k * m \in Nat
<1>1. i * j \in Nat
  OBVIOUS
<1>2. k * m \in Nat
  OBVIOUS
<1>3. PICK v \in Nat, w \in Nat : v = i * j /\ w = k * m
  BY <1>1, <1>2
<1>4. v + w \in Nat
  OBVIOUS
<1>5. QED
  BY <1>3, <1>4

\* An amount that can be read is a number, and exactly what its text says.
LEMMA ParseIsExact ==
  ASSUME NEW text \in Seq(Character), parse_csd_base_units(text) # BadAmount
  PROVE  parse_csd_base_units(text) \in Nat /\ Exact(text, parse_csd_base_units(text))
<1>1. PICK a \in Seq(Character), b \in Seq(Character) : a = Whole(text) /\ b = Fraction(text)
  BY SplitType
<1>2. /\ AllDigits(a) /\ AllDigits(b) /\ ~(Len(b) > Scale)
      /\ parse_csd_base_units(text) = Value(a) * Power[Scale] + Value(Padded(b))
  BY <1>1 DEF parse_csd_base_units
<1>3. a \in Seq(Digit) /\ b \in Seq(Digit)
  BY <1>2 DEF AllDigits
<1>4. PICK l \in Nat, z \in Nat : l = Len(b) /\ z = Scale - l /\ l + z = Scale
  <2>1. Scale \in Nat /\ Len(b) \in Nat /\ Len(b) <= Scale
    BY <1>2, PolicyAssumption
  <2>2. Scale - Len(b) \in Nat /\ Len(b) + (Scale - Len(b)) = Scale
    BY <2>1
  <2>3. QED
    BY <2>1, <2>2
<1>5. l \in Exponents /\ z \in Exponents /\ l + z \in Exponents /\ Scale \in Exponents
  BY <1>4, PolicyAssumption, SMTT(30) DEF Exponents
<1>6. PICK x \in Nat, y \in Nat : x = Value(a) /\ y = Value(b)
  BY <1>3, ValueType
<1>7. PICK p \in Nat, q \in Nat, r \in Nat : p = Power[Scale] /\ q = Power[l] /\ r = Power[z]
  BY <1>5, PowerType
<1>8. q * r = p
  BY <1>4, <1>5, <1>7, PowerAdd
<1>9. Value(Padded(b)) = y * r
  <2>1. Len(b) <= Scale
    BY <1>4
  <2>2. QED
    BY <1>3, <1>4, <1>6, <1>7, <2>1, PaddedValue
<1>10. parse_csd_base_units(text) = x * p + y * r
  BY <1>2, <1>6, <1>7, <1>9
<1>11. (x * p + y * r) * q = (x * q + y) * p
  <2>1. (x * p + y * r) * q = (x * p) * q + (y * r) * q
    OBVIOUS
  <2>2. (x * q + y) * p = (x * q) * p + y * p
    OBVIOUS
  <2>3. (x * p) * q = (x * q) * p
    OBVIOUS
  <2>4. (y * r) * q = y * (q * r)
    OBVIOUS
  <2>5. QED
    BY <1>8, <2>1, <2>2, <2>3, <2>4
<1>12. x * p + y * r \in Nat
  BY ProductsAdd
<1>13. Exact(text, x * p + y * r)
  BY <1>1, <1>4, <1>6, <1>7, <1>11 DEF Exact
<1>14. QED
  BY <1>10, <1>12, <1>13

\* A list of balances has one of each miner, and amounts that can be printed.
LEMMA BalancesType ==
  ASSUME NEW b \in Balances
  PROVE  /\ \E n \in Nat : DOMAIN b = 1 .. n
         /\ OneEach(b, DOMAIN b)
         /\ \A i \in DOMAIN b : /\ b[i].confirmed \in Nat /\ b[i].confirmed <= MaxUnits
                               /\ b[i].confirmed < Power[Scale + MaxDigits]
<1> DEFINE A == {n \in 0 .. MaxUnits : n < Power[Scale + MaxDigits]}
           R == [miner : Nat, confirmed : A]
<1>1. Balances \subseteq Seq(R)
  BY PolicyAssumption, Zenon
<1>2. \A n \in A : n \in Nat /\ n <= MaxUnits /\ n < Power[Scale + MaxDigits]
  BY PolicyAssumption
<1> HIDE DEF A
<1>3. \A x \in R : x.miner \in Nat /\ x.confirmed \in A
  OBVIOUS
<1> HIDE DEF R
<1>4. b \in Seq(R)
  BY <1>1
<1>5. (\E n \in Nat : DOMAIN b = 1 .. n) /\ \A i \in DOMAIN b : b[i] \in R
  BY <1>4
<1>6. \A i, j \in DOMAIN b : b[i].miner = b[j].miner => i = j
  BY PolicyAssumption, Zenon
<1>7. \A i \in DOMAIN b : b[i].miner \in Nat /\ b[i].confirmed \in A
  BY <1>3, <1>5
<1>8. OneEach(b, DOMAIN b)
  BY <1>2, <1>6, <1>7 DEF OneEach
<1>9. QED
  BY <1>2, <1>5, <1>7, <1>8

\* The copies of the parser do the same.
LEMMA ParsesAlike ==
  ASSUME NEW text
  PROVE  api_parse_csd_base_units(text) = parse_csd_base_units(text)
<1>1. PICK w, f, big : /\ w = Whole(text) /\ f = Fraction(text)
                       /\ big = (Value(w) * Power[Scale] > MaxUnits)
  OBVIOUS
<1> DEFINE wrong == w = <<>> \/ ~ AllDigits(w) \/ ~ AllDigits(f) \/ Len(f) > Scale
           amount == Value(w) * Power[Scale] + Value(Padded(f))
<1>2. parse_csd_base_units(text) = IF wrong THEN BadAmount ELSE IF big THEN BadAmount ELSE amount
  BY <1>1 DEF parse_csd_base_units
<1>3. api_parse_csd_base_units(text) = IF wrong \/ big THEN BadAmount ELSE amount
  BY <1>1 DEF api_parse_csd_base_units
<1> HIDE DEF wrong, amount
<1>4. QED
  BY <1>2, <1>3

\* So both read the same limits.
LEMMA AmountsAlike ==
  ASSUME NEW s
  PROVE  api_amounts(s) = Amounts(s)
<1>1. \A text, default : api_base_units(s, text, default) = base_units(s, text, default)
  BY ParsesAlike DEF api_base_units, base_units
<1>2. QED
  BY <1>1 DEF api_amounts, Amounts

\* Limits that can be read are numbers.
LEMMA AmountsAreNumbers ==
  ASSUME setting \in Settings, Readable(Amounts(setting))
  PROVE  LET a == Amounts(setting) IN a.batch \in Nat /\ a.daily \in Nat /\ a.manual \in Nat
<1>1. \A t \in LimitTexts : t \in Seq(Character)
  BY PolicyAssumption
<1>2. setting.batch \in Seq(Character) /\ setting.daily \in Seq(Character) /\ setting.manual \in Seq(Character)
  BY <1>1 DEF Settings
<1>3. \A t \in {<<2, Dot, 0>>, <<2, Dot, 5>>, <<1, Dot, 5>>} : t \in Seq(Character)
  <2>1. \A x, y, z \in Character : <<x, y, z>> \in Seq(Character)
    OBVIOUS
  <2>2. {0, 1, 2, 5, Dot} \subseteq Character
    BY DEF Character, Digit, Dot
  <2>3. QED
    BY <2>1, <2>2
<1>4. ASSUME NEW t \in Seq(Character), NEW d \in {<<2, Dot, 0>>, <<2, Dot, 5>>, <<1, Dot, 5>>},
             base_units(setting, t, d) # BadAmount
      PROVE  base_units(setting, t, d) \in Nat
  <2>1. PICK u \in Seq(Character) : base_units(setting, t, d) = parse_csd_base_units(u)
    BY <1>3 DEF base_units
  <2>2. QED
    BY <1>4, <2>1, ParseIsExact
<1>5. \A x \in {Amounts(setting).batch, Amounts(setting).daily, Amounts(setting).manual} : x # BadAmount
  BY DEF Readable
<1>6. /\ Amounts(setting).batch = base_units(setting, setting.batch, <<2, Dot, 0>>)
      /\ Amounts(setting).daily = base_units(setting, setting.daily, <<2, Dot, 5>>)
      /\ Amounts(setting).manual = base_units(setting, setting.manual, <<1, Dot, 5>>)
  BY DEF Amounts
<1>7. QED
  BY <1>2, <1>4, <1>5, <1>6

\* What is selected for a payout is among the balances.
LEMMA SelectedAreOwed ==
  ASSUME NEW b \in Balances, NEW minimum, NEW most \in Nat
  PROVE  LET paid == select_payouts(b, minimum, most)
         IN  /\ \A k \in DOMAIN paid : \E i \in DOMAIN b : paid[k] = b[i]
             /\ \E n \in Nat : DOMAIN paid = 1 .. n
<1> DEFINE E == {i \in DOMAIN b : b[i].confirmed >= minimum}
<1>1. IsFiniteSet(DOMAIN b)
  <2>1. PICK n \in Nat : DOMAIN b = 1 .. n
    BY BalancesType
  <2>2. QED
    BY <2>1, FS_Interval
<1>2. OneEach(b, DOMAIN b)
  BY BalancesType
<1>3. Reaches(b, E, minimum)
  BY DEF Reaches
<1>4. E \subseteq DOMAIN b
  OBVIOUS
<1> HIDE DEF E
<1>5. PICK paid : paid = select_payouts(b, minimum, most)
  OBVIOUS
<1>6. Ranked(b, E, most, paid)
  BY <1>1, <1>2, <1>3, <1>5, SelectionRanks
<1>7. \A k \in DOMAIN paid : \E i \in DOMAIN b : paid[k] = b[i]
  BY <1>4, <1>6 DEF Ranked
<1>8. \E n \in Nat : DOMAIN paid = 1 .. n
  BY <1>6, MinOfTwo DEF Ranked
<1>9. QED
  BY <1>5, <1>7, <1>8

\* A smaller limit selects the first of what a larger one selects, and no larger total.
LEMMA SmallerSelection ==
  ASSUME NEW b \in Balances, NEW minimum, NEW less \in Nat, NEW more \in Nat, less <= more
  PROVE  LET p == select_payouts(b, minimum, less)
             q == select_payouts(b, minimum, more)
         IN  /\ OneBegins(p, q) /\ OneBegins(q, p)
             /\ SelectionTotal(p) \in Nat /\ SelectionTotal(q) \in Nat
             /\ SelectionTotal(p) <= SelectionTotal(q)
             /\ p # <<>> => q # <<>>
             /\ q # <<>> /\ less > 0 => p # <<>>
<1> DEFINE E == {i \in DOMAIN b : b[i].confirmed >= minimum}
           c == Cardinality(E)
           sorted == SortBy(b, E)
<1>1. PICK p, q : p = select_payouts(b, minimum, less) /\ q = select_payouts(b, minimum, more)
  OBVIOUS
<1>2. c \in Nat
  <2>1. PICK n \in Nat : DOMAIN b = 1 .. n
    BY BalancesType
  <2>2. E \in SUBSET (1 .. n) /\ IsFiniteSet(1 .. n)
    BY <2>1, FS_Interval
  <2> HIDE DEF E
  <2>3. IsFiniteSet(E)
    BY <2>2, FS_Subset
  <2>4. QED
    BY <2>3, FS_CardinalityType
<1> HIDE DEF c
<1>3. PICK m \in Nat, n \in Nat : m = Min({less, c}) /\ n = Min({more, c})
  <2>1. Min({less, c}) \in Nat /\ Min({more, c}) \in Nat
    BY <1>2, MinOfTwo
  <2>2. QED
    BY <2>1
<1>4. /\ m <= n /\ (m > 0 => n > 0) /\ (n > 0 /\ less > 0 => m > 0)
  BY <1>2, <1>3, MinOfTwo
<1>5. p = [k \in 1 .. m |-> b[sorted[k]]] /\ q = [k \in 1 .. n |-> b[sorted[k]]]
  BY <1>1, <1>3 DEF select_payouts, c
<1> HIDE DEF E, sorted
<1>6. /\ DOMAIN p = 1 .. m /\ DOMAIN q = 1 .. n
      /\ \A k \in 1 .. m : k \in 1 .. n /\ p[k] = q[k]
  BY <1>4, <1>5
<1>7. OneBegins(p, q) /\ OneBegins(q, p)
  BY <1>6 DEF OneBegins
<1>8. (p # <<>> => q # <<>>) /\ (q # <<>> /\ less > 0 => p # <<>>)
  <2>1. p # <<>> <=> m > 0
    BY <1>5
  <2>2. q # <<>> <=> n > 0
    BY <1>5
  <2>3. QED
    BY <1>4, <2>1, <2>2
<1> DEFINE fp == [k \in DOMAIN p |-> p[k].confirmed]
           fq == [k \in DOMAIN q |-> q[k].confirmed]
<1>9. \A k \in DOMAIN q : q[k].confirmed \in Nat
  <2>1. \A k \in DOMAIN q : \E i \in DOMAIN b : q[k] = b[i]
    BY <1>1, SelectedAreOwed
  <2>2. QED
    BY <2>1, BalancesType
<1>10. /\ Counts(fq, 1 .. n) /\ Counts(fp, 1 .. m) /\ \A k \in 1 .. m : fp[k] = fq[k]
       /\ DOMAIN fp = 1 .. m /\ DOMAIN fq = 1 .. n
  BY <1>6, <1>9 DEF Counts
<1>11. SelectionTotal(p) = SumFunctionOnSet(fp, 1 .. m) /\ SelectionTotal(q) = SumFunctionOnSet(fq, 1 .. n)
  BY <1>10 DEF SelectionTotal, SumFunction
<1> HIDE DEF fp, fq
<1>12. IsFiniteSet(1 .. m) /\ IsFiniteSet(1 .. n)
  BY FS_Interval
<1>13. SumFunctionOnSet(fp, 1 .. m) = SumFunctionOnSet(fq, 1 .. m)
  BY <1>10, <1>12, SumSame
<1>14. SumFunctionOnSet(fq, 1 .. m) <= SumFunctionOnSet(fq, 1 .. n)
  BY <1>4, <1>10, <1>12, SumPart
<1>15. SumFunctionOnSet(fp, 1 .. m) \in Nat /\ SumFunctionOnSet(fq, 1 .. n) \in Nat
  BY <1>10, <1>12, SumType
<1>16. QED
  BY <1>1, <1>7, <1>8, <1>11, <1>13, <1>14, <1>15

\* The recipient limit of the API is a number.
LEMMA PreviewLimitType ==
  ASSUME setting \in Settings
  PROVE  payout_preview_recipient_limit(setting) \in Nat
<1>1. RecipientLimit \in Nat
  BY PolicyAssumption
<1>2. setting.preview \in Seq(Character)
  BY PolicyAssumption DEF Settings
<1>3. PICK n \in Nat : DOMAIN setting.preview = 1 .. n
  BY <1>2
<1>4. ASSUME AllDigits(setting.preview) PROVE Value(setting.preview) \in Nat
  <2>1. PICK s : s = setting.preview
    OBVIOUS
  <2>2. \A i \in 1 .. n : s[i] \in Nat
    <3>1. \A i \in DOMAIN s : s[i] \in Digit
      BY <1>4, <2>1 DEF AllDigits
    <3>2. QED
      BY <1>3, <2>1, <3>1 DEF Digit
  <2>3. PICK v : Values(v, s, n) /\ Value(s) = v[n]
    BY <1>3, <2>1, <2>2, ValueStepwise
  <2>4. QED
    BY <2>1, <2>3 DEF Values
<1>5. QED
  BY <1>1, <1>4 DEF payout_preview_recipient_limit

\* operator_payout_preview, payout_preview and create_payouts: for any settings, the
\* recipient limit of the API included, and any balances, the workers' preview says what
\* the run does, and the API's says it, or is cautious or hopeful as its limit has it; an
\* amount that can be read means what its text says, and an amount that is printed is
\* read back as the same.
THEOREM PreviewIsTrue ==
  ASSUME setting \in Settings, store \in Stores
  PROVE  PreviewTellsTruth
<1>1. PICK amounts : amounts = Amounts(setting) /\ amounts = api_amounts(setting)
  BY AmountsAlike
<1>2. PICK limit \in Nat : limit = payout_preview_recipient_limit(setting)
  BY PreviewLimitType
<1>3. PICK owed \in Balances : owed = store.balances
  BY DEF Stores
<1>4. PICK s, p : /\ s = select_payouts(owed, amounts.minimum, RecipientLimit)
                  /\ p = select_payouts(owed, amounts.minimum, limit)
  OBVIOUS
<1>5. RecipientLimit \in Nat /\ RecipientLimit > 0
  BY PolicyAssumption
<1>6. PICK total \in Nat, seen \in Nat : total = SelectionTotal(s) /\ seen = SelectionTotal(p)
  <2>1. limit <= RecipientLimit \/ RecipientLimit <= limit
    BY <1>5
  <2>2. QED
    BY <1>4, <1>5, <2>1, SmallerSelection
<1>7. OneBegins(s, p)
  <2>1. limit <= RecipientLimit \/ RecipientLimit <= limit
    BY <1>5
  <2>2. QED
    BY <1>4, <1>5, <2>1, SmallerSelection
<1>8. limit <= RecipientLimit => seen <= total /\ (0 < limit /\ s # <<>> => p # <<>>)
  BY <1>4, <1>5, <1>6, SmallerSelection
<1>9. RecipientLimit <= limit => total <= seen /\ (p # <<>> => s # <<>>)
  BY <1>4, <1>5, <1>6, SmallerSelection
<1>10. PICK made, preview, mine : /\ made = create_payouts(setting, store)
                                  /\ preview = operator_payout_preview(setting, store)
                                  /\ mine = payout_preview(setting, store)
  OBVIOUS
<1> DEFINE refused(x, t) == x = <<>> \/ t > amounts.batch \/ store.used + t > amounts.daily
           large(t) == t > amounts.manual
<1>11. Readable(amounts) =>
         made = IF refused(s, total) THEN NoBatchMade
                ELSE [status |-> IF large(total) THEN "needs_approval" ELSE "created", selection |-> s]
  BY <1>1, <1>3, <1>4, <1>6, <1>10 DEF create_payouts
<1>12. /\ mine.selection = s /\ mine.manual_approval_required = large(total)
       /\ mine.would_create_batch = (~ refused(s, total) /\ ~ large(total))
  BY <1>1, <1>3, <1>4, <1>6, <1>10 DEF payout_preview
<1>13. /\ preview.selection = p /\ preview.manual_approval_required = large(seen)
       /\ preview.would_create_batch = (~ refused(p, seen) /\ ~ large(seen))
  BY <1>1, <1>2, <1>3, <1>4, <1>6, <1>10
     DEF operator_payout_preview, operator_payout_preview_response
<1>14. ASSUME Readable(amounts)
       PROVE  /\ Announces(mine, made)
              /\ limit = RecipientLimit => Announces(preview, made)
              /\ limit >= RecipientLimit =>
                   /\ preview.would_create_batch => made.status = "created"
                   /\ made.status = "needs_approval" => preview.manual_approval_required
              /\ 0 < limit /\ limit <= RecipientLimit =>
                   (made.status = "created" => preview.would_create_batch)
              /\ made.selection \in {<<>>, s}
  <2>1. PICK batch \in Nat, daily \in Nat, manual \in Nat, used \in Nat :
          batch = amounts.batch /\ daily = amounts.daily /\ manual = amounts.manual /\ used = store.used
    <3>1. amounts.batch \in Nat /\ amounts.daily \in Nat /\ amounts.manual \in Nat
      BY <1>1, <1>14, AmountsAreNumbers
    <3>2. store.used \in Nat
      BY PolicyAssumption DEF Stores
    <3>3. QED
      BY <3>1, <3>2
  <2>2. PICK no \in BOOLEAN, big \in BOOLEAN : no = refused(s, total) /\ big = large(total)
    <3>1. refused(s, total) \in BOOLEAN /\ large(total) \in BOOLEAN
      OBVIOUS
    <3> HIDE DEF refused, large
    <3>2. QED
      BY <3>1, Zenon
  <2>3. PICK nop \in BOOLEAN, bigp \in BOOLEAN : nop = refused(p, seen) /\ bigp = large(seen)
    <3>1. refused(p, seen) \in BOOLEAN /\ large(seen) \in BOOLEAN
      OBVIOUS
    <3> HIDE DEF refused, large
    <3>2. QED
      BY <3>1, Zenon
  <2>4. /\ mine.selection = s /\ mine.manual_approval_required = big
        /\ mine.would_create_batch = (~ no /\ ~ big)
        /\ preview.selection = p /\ preview.manual_approval_required = bigp
        /\ preview.would_create_batch = (~ nop /\ ~ bigp)
    BY <1>12, <1>13, <2>2, <2>3
  <2>5. made = IF no THEN NoBatchMade
               ELSE [status |-> IF big THEN "needs_approval" ELSE "created", selection |-> s]
    BY <1>11, <1>14, <2>2
  <2>6. /\ made.status = IF no THEN "none" ELSE IF big THEN "needs_approval" ELSE "created"
        /\ made.selection = IF no THEN <<>> ELSE s
    BY <2>5 DEF NoBatchMade
  <2>7. /\ limit = RecipientLimit => p = s
        /\ limit = RecipientLimit => seen = total
    BY <1>4, <1>6
  <2>8. limit >= RecipientLimit => (no => nop) /\ (big => bigp)
    <3>1. SUFFICES ASSUME limit >= RecipientLimit PROVE (no => nop) /\ (big => bigp)
      OBVIOUS
    <3>2. total <= seen /\ (s = <<>> => p = <<>>)
      BY <1>5, <1>9, <3>1
    <3>3. (total > batch => seen > batch) /\ (used + total > daily => used + seen > daily)
          /\ (total > manual => seen > manual)
      BY <3>2
    <3>4. QED
      BY <2>1, <2>2, <2>3, <3>2, <3>3
  <2>9. 0 < limit /\ limit <= RecipientLimit => (nop => no) /\ (bigp => big)
    <3>1. SUFFICES ASSUME 0 < limit, limit <= RecipientLimit PROVE (nop => no) /\ (bigp => big)
      OBVIOUS
    <3>2. seen <= total /\ (p = <<>> => s = <<>>)
      BY <1>8, <3>1
    <3>3. (seen > batch => total > batch) /\ (used + seen > daily => used + total > daily)
          /\ (seen > manual => total > manual)
      BY <3>2
    <3>4. QED
      BY <2>1, <2>2, <2>3, <3>2, <3>3
  <2> HIDE DEF refused, large
  <2>10. limit = RecipientLimit => (no <=> nop) /\ (big <=> bigp)
    BY <1>5, <2>8, <2>9
  <2>11. Announces(mine, made)
    BY <2>4, <2>6 DEF Announces
  <2>12. limit = RecipientLimit => Announces(preview, made)
    BY <2>4, <2>6, <2>7, <2>10 DEF Announces
  <2>13. QED
    BY <2>4, <2>6, <2>8, <2>9, <2>11, <2>12
<1> HIDE DEF refused, large
<1>15. ASSUME NEW b \in ToSet(s) PROVE api_parse_csd_base_units(format_csd(b.confirmed)) = b.confirmed
  <2>1. PICK i \in DOMAIN owed : b = owed[i]
    BY <1>4, <1>5, <1>15, SelectedAreOwed DEF ToSet
  <2>2. PICK n \in Nat : n = b.confirmed /\ n <= MaxUnits /\ n < Power[Scale + MaxDigits]
    BY <2>1, BalancesType
  <2>3. QED
    BY <2>2, FormatParses, ParsesAlike
<1>16. ToSet(<<>>) = {} /\ OneBegins(<<>>, p)
  BY DEF ToSet, OneBegins
<1>17. ASSUME ~ Unreadable(setting), setting.minimum # Absent, amounts.minimum # BadAmount
       PROVE  Exact(setting.minimum, amounts.minimum)
  <2>1. amounts.minimum = parse_csd_base_units(setting.minimum)
    BY <1>1, <1>17 DEF Amounts, base_units
  <2>2. PICK text \in Seq(Character) : text = setting.minimum
    BY PolicyAssumption DEF Settings
  <2>3. QED
    BY <1>17, <2>1, <2>2, ParseIsExact
<1>18. ASSUME Readable(amounts)
       PROVE  ReadsBack(made.selection) /\ OneBegins(made.selection, preview.selection)
  BY <1>7, <1>13, <1>14, <1>15, <1>16, <1>18 DEF ReadsBack
<1>19. ASSUME Readable(amounts) PROVE AnnouncesUnder(limit, preview, made)
  BY <1>14, <1>18, <1>19 DEF AnnouncesUnder
<1>20. Truthful(setting, amounts, amounts, mine, preview, made)
  BY <1>2, <1>14, <1>17, <1>18, <1>19 DEF Truthful
<1>21. QED
  BY <1>1, <1>10, <1>20 DEF PreviewTellsTruth
=============================================================================
