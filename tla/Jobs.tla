-------------------------------- MODULE Jobs --------------------------------
(***************************************************************************)
(* The job watch of the Stratum bridge and the sessions that live on it    *)
(* (crates/csd-pool-bridge/src/lib.rs).                                    *)
(*                                                                         *)
(* One task refreshes the template of node A, asks node B whether A's tip  *)
(* is outdated (the tip sentinel), and publishes jobs: first in the table  *)
(* of retained jobs, then on a tokio watch channel, which keeps only the   *)
(* newest value.  Every session is a task of its own: it reads the channel *)
(* through two receivers, notifies its miner, and answers submits from the *)
(* table.  The runtime has many threads, so a session may act between any  *)
(* two statements of the watch that touch shared state, and the watch      *)
(* between any two of a session.                                           *)
(*                                                                         *)
(* Live mode is modelled: a static template provider never changes its job *)
(***************************************************************************)
EXTENDS Integers, FiniteSets, TLC

CONSTANTS
    Sessions,           \* connections that may be open at once
    Parents,            \* block hashes a template may build on
    Height,             \* the height of each of them
    Work,               \* the chainwork of each of them
    Genesis,            \* the tip of both nodes when the bridge starts
    MaxJobs,            \* bound: jobs that are published
    MaxMoves,           \* bound: tip changes of the two nodes
    ReconnectThreshold  \* STALE_JOB_RECONNECT_THRESHOLD

ASSUME JobsAssumption ==
    /\ Genesis \in Parents
    /\ Height \in [Parents -> Nat]
    /\ Work \in [Parents -> Nat]
    /\ MaxJobs \in Nat \ {0}
    /\ MaxMoves \in Nat
    /\ ReconnectThreshold \in Nat \ {0}

Nodes == {"A", "B"}
Job == 1..MaxJobs
NoJob == 0
Unread == "unread"

VARIABLES
    tip,          \* tip of each node
    moves,        \* number of tip changes so far
    made,         \* jobs published so far, which also numbers them
    prev,         \* template.prev of each published job
    clean,        \* notify.clean_jobs of each published job
    retained,     \* RetainedJobs.inner: the ids in the table
    aged,         \* jobs published longer than the retention ago
    genOf,        \* clean_generation of each published job, 0 before
    invalidated,  \* RetainedJobs.invalidated_parents
    generation,   \* RetainedJobs.current_clean_generation
    latest,       \* value of the watch channel
    wpc,          \* where the watch task is
    obs,          \* what the sentinel has read of each node
    forced,       \* sentinel_forced_refresh
    next,         \* the template just fetched: its job and its parent
    dead          \* history: parents invalidated and not published since

watchVars == <<tip, moves, made, prev, clean, retained, aged, genOf, invalidated,
               generation, latest, wpc, obs, forced, next, dead>>

VARIABLES
    spc,          \* where each session is; "closed" when there is none
    cur,          \* the job a session has read from the channel
    sub,          \* the job id of the submit in hand
    found,        \* result of the last look into the table
    valid,        \* submitted_job.is_some()
    receipt,      \* history: the parent of sub was dead when the submit arrived
    unseen,       \* job_rx.has_changed
    cleanUnseen,  \* clean_job_rx.has_changed
    delivered,    \* last_delivered_clean_generation
    streak,       \* unknown_job_streak
    told,         \* job last notified to the miner
    class         \* StaleGenerationClass of the submit in hand

sessionVars == <<spc, cur, sub, found, valid, receipt, unseen, cleanUnseen, delivered,
                 streak, told, class>>

vars == <<watchVars, sessionVars>>

-----------------------------------------------------------------------------
(* RetainedJobs *)

parent_is_invalidated(p) == p \in invalidated

RetainedParents(js) == {prev[j] : j \in js}

parent_is_retained(p) == ~ parent_is_invalidated(p) /\ p \in RetainedParents(retained)

\* get_for_submit when its two reads see the same table.
get_for_submit(j) == j \in retained /\ ~ parent_is_invalidated(prev[j])

\* Called with a job whose parent was found invalidated.
stale_generation_class(s, j) ==
    IF delivered[s] < generation THEN "notify_delivery_lag"
    ELSE IF j \in retained /\ genOf[j] < generation THEN "miner_switch_lag"
    ELSE "unclassified"

-----------------------------------------------------------------------------
(* The nodes (external) and the clock *)

\* A node adopts another tip.
NodeMoves(n) ==
    /\ moves < MaxMoves
    /\ \E p \in Parents \ {tip[n]} : tip' = [tip EXCEPT ![n] = p]
    /\ moves' = moves + 1
    /\ UNCHANGED <<made, prev, clean, retained, aged, genOf, invalidated, generation,
                   latest, wpc, obs, forced, next, dead, sessionVars>>

\* The oldest job in the table passes the retention.  It stays in the table
\* until the next publish.
JobAges ==
    /\ \E j \in retained \ aged :
          /\ \A k \in retained \ aged : j <= k
          /\ aged' = aged \cup {j}
    /\ UNCHANGED <<tip, moves, made, prev, clean, retained, genOf, invalidated, generation,
                   latest, wpc, obs, forced, next, dead, sessionVars>>

-----------------------------------------------------------------------------
(* The watch task *)

\* tip_sentinel_invalidates_parent
tip_sentinel_invalidates_parent(p, o) ==
    \/ o["A"] # p
    \/ Height[o["B"]] > Height[o["A"]]
    \/ /\ Height[o["B"]] = Height[o["A"]]
       /\ o["B"] # o["A"]
       /\ Work[o["B"]] >= Work[o["A"]]

tableVars == <<retained, aged, genOf, invalidated, generation, latest, dead>>
templateVars == <<tip, moves, made, prev, clean>>

SentinelTick ==
    /\ wpc = "wait"
    /\ wpc' = "observe"
    /\ UNCHANGED <<templateVars, tableVars, obs, forced, next, sessionVars>>

\* The two health requests run concurrently and are answered one by one.
ObserveNode(n) ==
    /\ wpc = "observe"
    /\ obs[n] = Unread
    /\ obs' = [obs EXCEPT ![n] = tip[n]]
    /\ UNCHANGED <<templateVars, tableVars, wpc, forced, next, sessionVars>>

\* Mutant of SentinelDecides: a refresh is forced, but the parent stays valid.
SentinelOnlyRefreshes ==
    /\ wpc = "observe"
    /\ \A n \in Nodes : obs[n] # Unread
    /\ forced' = tip_sentinel_invalidates_parent(prev[latest], obs)
    /\ dead' = IF forced' THEN dead \cup {prev[latest]} ELSE dead
    /\ obs' = [n \in Nodes |-> Unread]
    /\ wpc' = "tip"
    /\ UNCHANGED <<templateVars, retained, aged, genOf, generation, invalidated, latest,
                   next, sessionVars>>

\* Both answers are there: judge the parent of the current job.
SentinelDecides ==
    /\ wpc = "observe"
    /\ \A n \in Nodes : obs[n] # Unread
    /\ forced' = tip_sentinel_invalidates_parent(prev[latest], obs)
    /\ invalidated' = IF forced' THEN invalidated \cup {prev[latest]} ELSE invalidated
    /\ dead' = IF forced' THEN dead \cup {prev[latest]} ELSE dead
    /\ obs' = [n \in Nodes |-> Unread]
    /\ wpc' = "tip"
    /\ UNCHANGED <<templateVars, retained, aged, genOf, generation, latest,
                   next, sessionVars>>

Template(j, p) == [job |-> j, parent |-> p]

\* continue: the loop starts again and its locals are gone.
Continue ==
    /\ wpc' = "wait"
    /\ obs' = [n \in Nodes |-> Unread]
    /\ forced' = FALSE
    /\ next' = Template(latest, prev[latest])

\* A request of the sentinel or of the template provider fails or times out, or
\* the job cannot be stored in the database.
GiveUp ==
    /\ wpc \in {"observe", "tip", "job", "recheck"}
    /\ Continue
    /\ UNCHANGED <<templateVars, tableVars, sessionVars>>

\* provider.current_tip(), after a tick of the refresh timer or after the
\* sentinel.  The heartbeat may be due at any time.
ReadTip ==
    /\ wpc \in {"wait", "tip"}
    /\ \E heartbeat_due \in BOOLEAN :
          wpc' = IF tip["A"] = prev[latest] /\ ~ heartbeat_due /\ ~ forced THEN "wait" ELSE "job"
    /\ forced' = FALSE
    /\ UNCHANGED <<templateVars, tableVars, obs, next, sessionVars>>

\* provider.current_job(): a new template, or the one of the current job again.
FetchJob ==
    /\ wpc = "job"
    /\ \/ /\ made < MaxJobs
          /\ next' = Template(made + 1, tip["A"])
       \/ /\ prev[latest] = tip["A"]
          /\ next' = Template(latest, prev[latest])
    /\ wpc' = "recheck"
    /\ UNCHANGED <<templateVars, tableVars, obs, forced, sessionVars>>

\* Mutant of Refused: any template of the current tip is published.
NeverRefused(p) == FALSE

\* "refusing to republish a parent invalidated by the tip sentinel"
Refused(p) == ~ parent_is_retained(p) /\ p = prev[latest]

\* The tip is read again; then the template is judged and stored in the
\* database.  Only this task changes what the checks read.
RecheckJob ==
    /\ wpc = "recheck"
    /\ IF tip["A"] # next.parent \/ Refused(next.parent) \/ next.job = latest
       THEN Continue
       ELSE wpc' = "publish" /\ UNCHANGED <<obs, forced, next>>
    /\ UNCHANGED <<templateVars, tableVars, sessionVars>>

\* RetainedJobs::publish before it takes the locks.  The reason of the job is
\* TipChange, and the job is clean, if its parent is new.
BumpGeneration ==
    /\ wpc = "publish"
    /\ LET tip_change == next.parent # prev[latest]
       IN  /\ generation' = generation + (IF tip_change THEN 1 ELSE 0)
           /\ clean' = [clean EXCEPT ![next.job] = tip_change]
    /\ genOf' = [genOf EXCEPT ![next.job] = generation']
    /\ prev' = [prev EXCEPT ![next.job] = next.parent]
    /\ made' = next.job
    /\ wpc' = "table"
    /\ UNCHANGED <<tip, moves, retained, aged, invalidated, latest, dead, obs, forced, next,
                   sessionVars>>

TableStep(invalid) ==
    /\ wpc = "table"
    /\ invalidated' = invalid \ {next.parent}
    /\ retained' = (retained \ aged) \cup {next.job}
    /\ dead' = (IF clean[next.job] THEN dead \cup {prev[latest]} ELSE dead) \ {next.parent}
    /\ wpc' = "send"
    /\ UNCHANGED <<templateVars, aged, genOf, generation, latest, obs, forced, next, sessionVars>>

OtherParents == IF clean[next.job] THEN RetainedParents(retained \ aged) ELSE {}

\* Mutant of UpdateTable: a tip change leaves the other parents valid.
UpdateTableKeepsParents == TableStep(invalidated \cap RetainedParents(retained \ aged))

\* Mutant of UpdateTable: parents are never removed from the invalid ones.
UpdateTableKeepsInvalid == TableStep(invalidated \cup OtherParents)

\* RetainedJobs::publish with both locks: old jobs leave the table, the other
\* parents become invalid, the new one valid.
UpdateTable ==
    TableStep((invalidated \cup OtherParents) \cap RetainedParents(retained \ aged))

\* refresh_sender.send_replace(next)
SendReplace ==
    /\ wpc = "send"
    /\ latest' = next.job
    /\ unseen' = [s \in Sessions |-> spc[s] # "closed"]
    /\ cleanUnseen' = [s \in Sessions |-> spc[s] # "closed"]
    /\ wpc' = "wait"
    /\ UNCHANGED <<templateVars, retained, aged, genOf, invalidated, generation, dead,
                   obs, forced, next, spc, cur, sub, found, valid, receipt, delivered,
                   streak, told, class>>

Watch ==
    \/ SentinelTick \/ SentinelDecides \/ GiveUp
    \/ (\E n \in Nodes : ObserveNode(n))
    \/ ReadTip \/ FetchJob \/ RecheckJob \/ BumpGeneration \/ UpdateTable \/ SendReplace

-----------------------------------------------------------------------------
(* Sessions: handle_client *)

\* Mutant of Notify: the generation counts as delivered although nothing is sent.
NotifyAlwaysDelivers(s, j) ==
    /\ told' = IF get_for_submit(j) THEN [told EXCEPT ![s] = j] ELSE told
    /\ delivered' = [delivered EXCEPT ![s] = IF genOf[j] > @ THEN genOf[j] ELSE @]

\* Write mining.notify for j if its parent is still valid.
Notify(s, j) ==
    IF get_for_submit(j)
    THEN /\ told' = [told EXCEPT ![s] = j]
         /\ delivered' = [delivered EXCEPT ![s] = IF genOf[j] > @ THEN genOf[j] ELSE @]
    ELSE UNCHANGED <<told, delivered>>

\* The state of a connection, as a new one finds it.
Forget(s) ==
    /\ cur' = [cur EXCEPT ![s] = NoJob]
    /\ sub' = [sub EXCEPT ![s] = NoJob]
    /\ found' = [found EXCEPT ![s] = FALSE]
    /\ valid' = [valid EXCEPT ![s] = FALSE]
    /\ receipt' = [receipt EXCEPT ![s] = FALSE]
    /\ unseen' = [unseen EXCEPT ![s] = FALSE]
    /\ cleanUnseen' = [cleanUnseen EXCEPT ![s] = FALSE]
    /\ delivered' = [delivered EXCEPT ![s] = 0]
    /\ streak' = [streak EXCEPT ![s] = 0]
    /\ told' = [told EXCEPT ![s] = NoJob]
    /\ class' = [class EXCEPT ![s] = "none"]

Connect(s) ==
    /\ spc[s] = "closed"
    /\ spc' = [spc EXCEPT ![s] = "open"]
    /\ UNCHANGED <<watchVars, cur, sub, found, valid, receipt, unseen, cleanUnseen, delivered,
                   streak, told, class>>

\* mining.authorize, the first or a later one: the newest job is sent.
Authorize(s) ==
    /\ spc[s] \in {"open", "idle"}
    /\ spc' = [spc EXCEPT ![s] = "idle"]
    /\ unseen' = [unseen EXCEPT ![s] = FALSE]
    /\ Notify(s, latest)
    /\ UNCHANGED <<watchVars, cur, sub, found, valid, receipt, cleanUnseen, streak, class>>

\* mining.suggest_difficulty, also before the miner is authorized: the newest
\* job is sent again, not clean.  The code takes one suggestion, before the first
\* accepted share; here it may come at any time.
SuggestDifficulty(s) ==
    /\ spc[s] \in {"open", "idle"}
    /\ Notify(s, latest)
    /\ UNCHANGED <<watchVars, spc, cur, sub, found, valid, receipt, unseen, cleanUnseen,
                   streak, class>>

\* select!: one of the two receivers has something new; it is read.
ReceiveJob(s) ==
    /\ spc[s] = "idle"
    /\ unseen[s] \/ (cleanUnseen[s] /\ clean[latest])
    /\ cur' = [cur EXCEPT ![s] = latest]
    /\ spc' = [spc EXCEPT ![s] = "job"]
    /\ UNCHANGED <<watchVars, sub, found, valid, receipt, unseen, cleanUnseen, delivered, streak,
                   told, class>>

\* Both receivers are marked as up to date, with whatever the channel holds
\* by now; the job read before is sent.
ForwardJob(s) ==
    /\ spc[s] = "job"
    /\ unseen' = [unseen EXCEPT ![s] = FALSE]
    /\ cleanUnseen' = [cleanUnseen EXCEPT ![s] = FALSE]
    /\ Notify(s, cur[s])
    /\ cur' = [cur EXCEPT ![s] = NoJob]
    /\ spc' = [spc EXCEPT ![s] = "idle"]
    /\ UNCHANGED <<watchVars, sub, found, valid, receipt, streak, class>>

\* mining.submit arrives: get_for_submit looks into the table ...
Submit(s, j) ==
    /\ spc[s] = "idle"
    /\ j <= latest
    /\ sub' = [sub EXCEPT ![s] = j]
    /\ receipt' = [receipt EXCEPT ![s] = prev[j] \in dead]
    /\ found' = [found EXCEPT ![s] = j \in retained]
    /\ spc' = [spc EXCEPT ![s] = "parent"]
    /\ UNCHANGED <<watchVars, cur, valid, unseen, cleanUnseen, delivered, streak, told, class>>

\* ... then, the lock released, at the invalidated parents ...
CheckParent(s) ==
    /\ spc[s] = "parent"
    /\ valid' = [valid EXCEPT ![s] = found[s] /\ ~ parent_is_invalidated(prev[sub[s]])]
    /\ receipt' = [receipt EXCEPT ![s] = @ /\ prev[sub[s]] \in dead]
    /\ found' = [found EXCEPT ![s] = FALSE]
    /\ spc' = [spc EXCEPT ![s] = "judge"]
    /\ UNCHANGED <<watchVars, cur, sub, unseen, cleanUnseen, delivered, streak, told, class>>

\* ... and job_parent_is_invalidated does both once more; here its two reads may
\* be one step, since what can happen between them has the effect of both being
\* late.  A stale submit is answered as "invalidated_parent" or "unknown_job",
\* any other sets the streak to good.
Judge(s, good) ==
    LET invalidated_parent == sub[s] \in retained /\ parent_is_invalidated(prev[sub[s]])
        stale == invalidated_parent \/ ~ valid[s]
    IN  /\ spc[s] = "judge"
        /\ streak' = [streak EXCEPT ![s] = IF stale THEN @ + 1 ELSE good]
        /\ class' = [class EXCEPT ![s] =
                         IF invalidated_parent THEN stale_generation_class(s, sub[s]) ELSE "none"]
        /\ spc' = [spc EXCEPT ![s] = IF stale THEN "resync" ELSE "persist"]
        /\ valid' = [valid EXCEPT ![s] = FALSE]
        /\ UNCHANGED <<watchVars, cur, sub, found, receipt, unseen, cleanUnseen, delivered, told>>

\* Mutant of JudgeSubmit: a good submit takes one stale submit off the streak.
JudgeSubmitCountsDown(s) == Judge(s, streak[s] - 1)

JudgeSubmit(s) == Judge(s, 0)

\* The share is a duplicate, too easy, or stored and counted; in the last case
\* the difficulty may be changed.
PersistShare(s) ==
    /\ spc[s] = "persist"
    /\ \E pc \in {"idle", "retune"} : spc' = [spc EXCEPT ![s] = pc]
    /\ sub' = [sub EXCEPT ![s] = NoJob]
    /\ receipt' = [receipt EXCEPT ![s] = FALSE]
    /\ UNCHANGED <<watchVars, cur, found, valid, unseen, cleanUnseen, delivered, streak, told, class>>

\* pending_difficulty: the newest job is sent again, not clean, and stays
\* unseen for both receivers.
Retune(s) ==
    /\ spc[s] = "retune"
    /\ Notify(s, latest)
    /\ spc' = [spc EXCEPT ![s] = "idle"]
    /\ UNCHANGED <<watchVars, cur, sub, found, valid, receipt, unseen, cleanUnseen, streak, class>>

\* A miner that is stale again and again is disconnected.
AfterStale(s) ==
    /\ spc[s] = "resync"
    /\ IF streak[s] >= ReconnectThreshold
       THEN Forget(s) /\ spc' = [spc EXCEPT ![s] = "closed"]
       ELSE /\ unseen' = [unseen EXCEPT ![s] = FALSE]
            /\ spc' = [spc EXCEPT ![s] = "idle"]
            /\ sub' = [sub EXCEPT ![s] = NoJob]
            /\ receipt' = [receipt EXCEPT ![s] = FALSE]
            /\ class' = [class EXCEPT ![s] = "none"]
            /\ UNCHANGED <<cur, found, valid, cleanUnseen, streak>>
    /\ UNCHANGED watchVars

\* Mutant of Resync: the stale miner is sent nothing, and its streak forgotten.
ResyncSilent(s) ==
    /\ spc[s] = "resync"
    /\ streak' = [streak EXCEPT ![s] = 0]
    /\ unseen' = [unseen EXCEPT ![s] = FALSE]
    /\ spc' = [spc EXCEPT ![s] = "idle"]
    /\ sub' = [sub EXCEPT ![s] = NoJob]
    /\ receipt' = [receipt EXCEPT ![s] = FALSE]
    /\ class' = [class EXCEPT ![s] = "none"]
    /\ UNCHANGED <<watchVars, cur, found, valid, cleanUnseen, told, delivered>>

\* resync_after_stale_submit: the newest job is sent, clean.
Resync(s) ==
    /\ AfterStale(s)
    /\ streak[s] < ReconnectThreshold => Notify(s, latest)

\* The miner leaves, a write passes its deadline, the database fails, or the
\* address is banned.
Disconnect(s) ==
    /\ spc[s] # "closed"
    /\ spc' = [spc EXCEPT ![s] = "closed"]
    /\ Forget(s)
    /\ UNCHANGED watchVars

\* The steps a session takes without its miner.
SessionStep(s) ==
    \/ ReceiveJob(s) \/ ForwardJob(s) \/ CheckParent(s) \/ JudgeSubmit(s)
    \/ PersistShare(s) \/ Retune(s) \/ Resync(s)

Session(s) ==
    \/ Connect(s) \/ Authorize(s) \/ SuggestDifficulty(s) \/ SessionStep(s) \/ Disconnect(s)
    \/ \E j \in Job : Submit(s, j)

-----------------------------------------------------------------------------

\* The bridge starts with a template of node A published and nobody connected.
Init ==
    /\ tip = [n \in Nodes |-> Genesis]
    /\ moves = 0
    /\ made = 1
    /\ prev = [j \in Job |-> Genesis]
    /\ clean = [j \in Job |-> j = 1]
    /\ retained = {1}
    /\ aged = {}
    /\ genOf = [j \in Job |-> IF j = 1 THEN 1 ELSE 0]
    /\ invalidated = {}
    /\ generation = 1
    /\ latest = 1
    /\ wpc = "wait"
    /\ obs = [n \in Nodes |-> Unread]
    /\ forced = FALSE
    /\ next = Template(1, Genesis)
    /\ dead = {}
    /\ spc = [s \in Sessions |-> "closed"]
    /\ cur = [s \in Sessions |-> NoJob]
    /\ sub = [s \in Sessions |-> NoJob]
    /\ found = [s \in Sessions |-> FALSE]
    /\ valid = [s \in Sessions |-> FALSE]
    /\ receipt = [s \in Sessions |-> FALSE]
    /\ unseen = [s \in Sessions |-> FALSE]
    /\ cleanUnseen = [s \in Sessions |-> FALSE]
    /\ delivered = [s \in Sessions |-> 0]
    /\ streak = [s \in Sessions |-> 0]
    /\ told = [s \in Sessions |-> NoJob]
    /\ class = [s \in Sessions |-> "none"]

Next ==
    \/ Watch
    \/ JobAges
    \/ \E n \in Nodes : NodeMoves(n)
    \/ \E s \in Sessions : Session(s)

Spec == Init /\ [][Next]_vars

\* The runtime runs every task that can run; select! is biased, so a session that
\* keeps getting frames still takes the job that waits for it; and a miner keeps
\* sending shares of the job it was told.
FairSpec ==
    /\ Spec
    /\ WF_vars(BumpGeneration \/ UpdateTable \/ SendReplace)
    /\ \A s \in Sessions :
          /\ WF_vars(SessionStep(s))
          /\ SF_vars(ReceiveJob(s))
          /\ SF_vars(told[s] # NoJob /\ Submit(s, told[s]))

-----------------------------------------------------------------------------
(* Properties *)

\* The type of every variable.
TypeOK ==
    /\ tip \in [Nodes -> Parents]
    /\ moves \in 0..MaxMoves
    /\ made \in Job
    /\ prev \in [Job -> Parents]
    /\ clean \in [Job -> BOOLEAN]
    /\ retained \subseteq Job
    /\ aged \subseteq Job
    /\ genOf \in [Job -> Nat]
    /\ invalidated \subseteq Parents
    /\ generation \in Nat
    /\ latest \in Job
    /\ wpc \in {"wait", "observe", "tip", "job", "recheck", "publish", "table", "send"}
    /\ obs \in [Nodes -> Parents \cup {Unread}]
    /\ forced \in BOOLEAN
    /\ next \in [job : Job, parent : Parents]
    /\ dead \subseteq Parents
    /\ spc \in [Sessions -> {"closed", "open", "idle", "job", "parent", "judge", "persist",
                              "retune", "resync"}]
    /\ cur \in [Sessions -> Job \cup {NoJob}]
    /\ sub \in [Sessions -> Job \cup {NoJob}]
    /\ found \in [Sessions -> BOOLEAN]
    /\ valid \in [Sessions -> BOOLEAN]
    /\ receipt \in [Sessions -> BOOLEAN]
    /\ unseen \in [Sessions -> BOOLEAN]
    /\ cleanUnseen \in [Sessions -> BOOLEAN]
    /\ delivered \in [Sessions -> Nat]
    /\ streak \in [Sessions -> Nat]
    /\ told \in [Sessions -> Job \cup {NoJob}]
    /\ class \in [Sessions -> {"none", "notify_delivery_lag", "miner_switch_lag", "unclassified"}]

\* At every moment, between any two statements of the watch task, the jobs on
\* which shares are accepted all build on the same block: publishing a job on a
\* new parent and invalidating every other parent is one step for the sessions.
OneLiveParent ==
    \A j, k \in retained : get_for_submit(j) /\ get_for_submit(k) => prev[j] = prev[k]

\* The set of invalidated parents cannot grow for ever: every member has a job
\* in the table, which forgets jobs after the retention.
InvalidatedIsRetained == invalidated \subseteq RetainedParents(retained)

\* A share passes the stale checks only if the parent of its job was not
\* already invalid when the submit arrived, whatever the watch publishes while
\* the submit is handled; jobs older than the retention excepted (see the README).
CountedWasLive ==
    \A s \in Sessions : spc[s] = "persist" /\ receipt[s] => sub[s] \in aged

\* A stale share is blamed on the miner (miner_switch_lag) only if this session
\* had sent it a job of the current generation.
SwitchLagWasTold ==
    [][\A s \in Sessions :
          class[s] # "miner_switch_lag" /\ class'[s] = "miner_switch_lag"
              => told[s] # NoJob /\ genOf[told[s]] = generation]_vars

\* A parent that was invalidated becomes valid again only by a job that
\* replaces one on another parent: a heartbeat never undoes the sentinel.
SentinelIsNotUndone ==
    [][\A p \in dead : p \notin dead' => prev[latest] # p]_vars

\* A miner that keeps sending shares of its job is in the end told a job on the
\* parent of the newest one, although a push may be lost: the answer to its
\* stale share brings the newest job.
MinersCatchUp ==
    \A s \in Sessions :
        []<>(\/ spc[s] \in {"closed", "open"}
             \/ told[s] = NoJob
             \/ parent_is_invalidated(prev[latest])
             \/ prev[told[s]] = prev[latest])

\* Every job published is in the end notified to every authorized session, or
\* replaced by another one.
EverySessionIsTold ==
    \A s \in Sessions :
        []<>(\/ spc[s] \in {"closed", "open"}
             \/ parent_is_invalidated(prev[latest])
             \/ told[s] = latest)

=============================================================================
