----------------------------- MODULE Migrations -----------------------------
(***************************************************************************)
(* run_migrations of crates/csd-pool-db/src/lib.rs, which the bridge, the  *)
(* API and every worker call when they start, with the verdicts of migrate *)
(* and check-database-runtime (crates/csd-pool-workers/src/main.rs).       *)
(*                                                                         *)
(* Processes of different releases start, die and start again in any       *)
(* order; a release knows a prefix of the migrations.  All statements of a *)
(* run are one transaction, so what it has done is its own until it        *)
(* commits.  Two migrations matter here: the one that creates the setting  *)
(* payouts_enabled, and the one that pauses payouts, which is the only one *)
(* whose second execution would do harm that a schema does not show.       *)
(***************************************************************************)
EXTENDS Naturals, FiniteSets, FiniteSetsExt

CONSTANTS
  Processes,   \* processes, numbered from 1
  Versions,    \* bound: migrations, 1 .. Versions
  MaxStarts    \* bound: runs of migrations

\* What the proofs need: numbers, and no process that is taken for nobody.
MigrationsAssumption == Versions \in Nat /\ MaxStarts \in Nat /\ Processes \subseteq Nat \ {0}

MIGRATIONS == 1 .. Versions
Creating == 1  \* 0002_control_settings
Pausing == 2   \* 0007_payouts_default_paused
Nobody == 0

VARIABLES
  known,       \* MIGRATIONS of a process's release: 1 .. known
  applied,     \* versions in schema_migrations
  enabled,     \* the setting payouts_enabled: "true" or "false"
  effects,     \* history: how often each migration took effect
  wish,        \* history: what the operator asked for since payouts were paused by a migration
  turn,        \* where each run is
  at,          \* migration a run is at
  own,         \* versions a run has inserted
  holder,      \* who holds the advisory lock
  row_lock,    \* who has updated the setting without having committed
  starts

migrationVars == <<known, applied, enabled, effects, wish, turn, at, own, holder, row_lock, starts>>
database == <<applied, enabled, effects, wish>>

Start(p) ==
  /\ turn[p] = "idle" /\ starts < MaxStarts
  /\ turn' = [turn EXCEPT ![p] = "lock"]
  /\ starts' = starts + 1
  /\ UNCHANGED <<known, database, at, own, holder, row_lock>>

\* Mutant of LockFree: a lock that is tried and not waited for.
LockTried == TRUE

\* pg_advisory_xact_lock waits.
LockFree == holder = Nobody

Lock(p) ==
  /\ turn[p] = "lock" /\ LockFree
  /\ holder' = p
  /\ turn' = [turn EXCEPT ![p] = "check"]
  /\ at' = [at EXCEPT ![p] = 1]
  /\ own' = [own EXCEPT ![p] = {}]
  /\ UNCHANGED <<known, database, row_lock, starts>>

\* "select version": rows that are committed, and the run's own.
Exists(p) == at[p] \in applied \cup own[p]

Check(p) ==
  /\ turn[p] = "check" /\ at[p] <= known[p]
  /\ \/ Exists(p) /\ at' = [at EXCEPT ![p] = @ + 1] /\ UNCHANGED turn
     \/ ~ Exists(p) /\ turn' = [turn EXCEPT ![p] = "execute"] /\ UNCHANGED at
  /\ UNCHANGED <<known, database, own, holder, row_lock, starts>>

\* The SQL of a migration.  The update that pauses payouts finds the row only if they
\* are enabled; then nobody else can change it until the commit.
Execute(p) ==
  /\ turn[p] = "execute"
  /\ \/ at[p] = Pausing /\ enabled = "true" /\ row_lock = Nobody /\ row_lock' = p
     \/ ~ (at[p] = Pausing /\ enabled = "true") /\ UNCHANGED row_lock
  /\ turn' = [turn EXCEPT ![p] = "record"]
  /\ UNCHANGED <<known, database, at, own, holder, starts>>

\* "insert into schema_migrations"
Record(p) ==
  /\ turn[p] = "record"
  /\ own' = [own EXCEPT ![p] = @ \cup {at[p]}]
  /\ at' = [at EXCEPT ![p] = @ + 1]
  /\ turn' = [turn EXCEPT ![p] = "check"]
  /\ UNCHANGED <<known, database, holder, row_lock, starts>>

Released(lock, p) == IF lock = p THEN Nobody ELSE lock

\* With the commit the run's changes are there for everybody, and its locks are free.
Commit(p) ==
  /\ turn[p] = "check" /\ at[p] > known[p]
  /\ applied' = applied \cup own[p]
  /\ effects' = [v \in MIGRATIONS |-> effects[v] + IF v \in own[p] THEN 1 ELSE 0]
  /\ enabled' = IF row_lock = p THEN "false" ELSE enabled
  /\ wish' = IF row_lock = p THEN "none" ELSE wish
  /\ holder' = Released(holder, p)
  /\ row_lock' = Released(row_lock, p)
  /\ turn' = [turn EXCEPT ![p] = "ready"]
  /\ UNCHANGED <<known, at, own, starts>>

\* A statement fails, or the process dies, or it has done its work; what was not
\* committed is undone.
Stop(p) ==
  /\ turn[p] # "idle"
  /\ turn' = [turn EXCEPT ![p] = "idle"]
  /\ own' = [own EXCEPT ![p] = {}]
  /\ holder' = Released(holder, p)
  /\ row_lock' = Released(row_lock, p)
  /\ UNCHANGED <<known, database, at, starts>>

\* The operator pauses or resumes payouts, through a process that has started.
set_payouts_enabled(value) ==
  /\ \E p \in Processes : turn[p] = "ready"
  /\ Creating \in applied /\ row_lock = Nobody
  /\ enabled' = value
  /\ wish' = value
  /\ UNCHANGED <<known, applied, effects, turn, at, own, holder, row_lock, starts>>

MigrationsInit ==
  /\ known \in [Processes -> MIGRATIONS]
  /\ applied = {}
  /\ enabled = "false"
  /\ effects = [v \in MIGRATIONS |-> 0]
  /\ wish = "none"
  /\ turn = [p \in Processes |-> "idle"]
  /\ at = [p \in Processes |-> 1]
  /\ own = [p \in Processes |-> {}]
  /\ holder = Nobody
  /\ row_lock = Nobody
  /\ starts = 0

MigrationsNext ==
  \/ \E p \in Processes :
       Start(p) \/ Lock(p) \/ Check(p) \/ Execute(p) \/ Record(p) \/ Commit(p) \/ Stop(p)
  \/ \E value \in {"true", "false"} : set_payouts_enabled(value)

MigrationsSpec == MigrationsInit /\ [][MigrationsNext]_migrationVars

-----------------------------------------------------------------------------
(* Properties *)

\* migrate: complete
migrate_complete(p) == 1 .. known[p] \subseteq applied

\* check-database-runtime, if its other probes pass.
check_database_runtime(p) ==
  LET latest == IF applied = {} THEN 0 ELSE Max(applied)
  IN  migrate_complete(p) /\ latest = known[p]

\* "Serialize the check/apply sequence so migrations cannot race": whichever releases
\* start together, die and start again, every migration takes effect once and in
\* order, a process that has started finds all of its schema, the check passes only
\* on the schema of its own release, and payouts an operator has resumed are not
\* paused by a start.
MigratesOnce ==
  /\ \A v \in MIGRATIONS : effects[v] = IF v \in applied THEN 1 ELSE 0
  /\ \E last \in 0 .. Versions : applied = 1 .. last
  /\ \A p \in Processes :
       /\ turn[p] = "ready" => migrate_complete(p)
       /\ check_database_runtime(p) => applied = 1 .. known[p]
  /\ wish # "none" => enabled = wish
=============================================================================
