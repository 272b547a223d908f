---------------------------- MODULE TemplateCache ----------------------------
(***************************************************************************)
(* The template provider of the parallel modes: LiveTemplateProvider with  *)
(* its TemplateMaterialCache (crates/csd-pool-node/src/lib.rs).            *)
(*                                                                         *)
(* A job is handed out at once, with a slot for the whole block template   *)
(* that a full candidate needs.  A task of its own fetches that material,  *)
(* one at a time, and writes it to the slot, which the job shares with the *)
(* cache.  The job watch is the only caller of current_job.                *)
(***************************************************************************)
EXTENDS Naturals, Sequences, SequencesExt

CONSTANTS
  Templates,       \* records [job, text]; one job_id may come with other text
  MaxEntries,      \* MAX_STATELESS_TEMPLATE_CACHE_ENTRIES
  MaxSlots,        \* bound: slots made
  MaxTasks         \* bound: fetches begun

NoTemplate == [job |-> 0, text |-> 0]

\* What the proofs need: numbers, a cache with room for an entry, and no template that
\* is taken for none.
ASSUME CacheAssumption ==
  MaxEntries \in Nat \ {0} /\ MaxSlots \in Nat /\ MaxTasks \in Nat /\ NoTemplate \notin Templates

JobNames == {t.job : t \in Templates}
NoEntry == [template |-> NoTemplate, slot |-> 0, fetch_started |-> FALSE]
NoTask == [template |-> NoTemplate, slot |-> 0, phase |-> "none", material |-> NoTemplate]

VARIABLES
  entries,    \* entries, by job_id
  order,      \* order
  issued,     \* history: the template each slot was handed out with
  material,   \* what each slot holds
  task,       \* the fetch tasks
  in_flight,  \* material_fetch: the last task begun, 0 at first
  slots,      \* slots made so far
  tasks       \* tasks begun so far

cacheVars == <<entries, order, issued, material, task, in_flight, slots, tasks>>

-----------------------------------------------------------------------------
(* TemplateMaterialCache *)

\* The jobs whose entries go when template t gets an entry of its own: an entry of
\* the same job_id with other text, and the oldest ones beyond the limit.  A job_id is
\* in the order once.
Order(t) ==
  LET retained == IF t.job \in Range(order)
                  THEN RemoveAt(order, CHOOSE i \in DOMAIN order : order[i] = t.job) ELSE order
  IN  Append(retained, t.job)
Kept(t) ==
  LET all == Order(t) IN IF Len(all) > MaxEntries THEN Tail(all) ELSE all

\* The slot of an entry that goes is emptied, for the jobs that still share it.
NewEntry(t) ==
  LET slot == slots + 1
      gone == {entries[j].slot : j \in {k \in JobNames : k = t.job \/ k \notin Range(Kept(t))}}
  IN  /\ slots < MaxSlots
      /\ slots' = slot
      /\ order' = Kept(t)
      /\ issued' = [issued EXCEPT ![slot] = t]
      /\ material' = [s \in 1..MaxSlots |-> IF s \in gone THEN NoTemplate ELSE material[s]]

\* cancel_fetch of the job of the task before, if it was for another one.
Cancelled(es, t) ==
  [j \in JobNames |-> IF in_flight # 0 /\ task[in_flight].template.job = j /\ j # t.job
                      THEN [es[j] EXCEPT !.fetch_started = FALSE] ELSE es[j]]

\* An abort stops a task at its next await: not one that has its answer.
Aborted(t) ==
  [n \in 1..MaxTasks |->
     IF n = in_flight /\ task[n].template.job # t.job /\ task[n].phase \in {"waiting", "fetching"}
     THEN [task[n] EXCEPT !.phase = "over"] ELSE task[n]]

Spawn(t, slot) ==
  /\ tasks < MaxTasks
  /\ tasks' = tasks + 1
  /\ task' = [Aborted(t) EXCEPT ![tasks + 1] =
                [template |-> t, slot |-> slot, phase |-> "waiting", material |-> NoTemplate]]
  /\ in_flight' = tasks + 1

\* current_job once the node has given template t: slot_for, and a fetch if the
\* slot is empty and none was started.
current_job(t) ==
  LET e == entries[t.job]
      known == e.template = t
      started == [entries EXCEPT ![t.job].fetch_started = TRUE]
  IN  \/ /\ known /\ (e.fetch_started \/ material[e.slot] # NoTemplate)
         /\ entries' = started
         /\ UNCHANGED <<order, issued, material, task, in_flight, slots, tasks>>
      \/ /\ known /\ ~ e.fetch_started /\ material[e.slot] = NoTemplate
         /\ Spawn(t, e.slot)
         /\ entries' = Cancelled(started, t)
         /\ UNCHANGED <<order, issued, material, slots>>
      \/ /\ ~ known
         /\ NewEntry(t)
         /\ Spawn(t, slots + 1)
         /\ entries' = Cancelled(
              [j \in JobNames |->
                 IF j = t.job THEN [template |-> t, slot |-> slots + 1, fetch_started |-> TRUE]
                 ELSE IF j \in Range(Kept(t)) THEN entries[j] ELSE NoEntry], t)

-----------------------------------------------------------------------------
(* A fetch task *)

Permits == {n \in 1..MaxTasks : task[n].phase = "fetching"}

\* The one permit is acquired and the material asked for, by job_id.
BeginFetch(n) ==
  /\ task[n].phase = "waiting" /\ Permits = {}
  /\ task' = [task EXCEPT ![n].phase = "fetching"]
  /\ UNCHANGED <<entries, order, issued, material, in_flight, slots, tasks>>

\* Mutant of Fetched: whatever the node has under the job_id is taken.
FetchedByName(t, base) == base

\* into_parts, and the comparison with the template of the job.
Fetched(t, base) == IF base = t THEN base ELSE NoTemplate

\* The node answers with the template it has under that job_id, or there is no
\* answer in time, or one whose length or hash is wrong.
EndFetch(n) ==
  /\ task[n].phase = "fetching"
  /\ \E base \in {NoTemplate} \cup {t \in Templates : t.job = task[n].template.job} :
       task' = [task EXCEPT ![n].phase = "finishing",
                            ![n].material = Fetched(task[n].template, base)]
  /\ UNCHANGED <<entries, order, issued, material, in_flight, slots, tasks>>

\* finish_fetch: nothing, unless the entry is still the one the task was begun for.
finish_fetch(n) ==
  LET t == task[n].template
      same == entries[t.job].template = t /\ entries[t.job].slot = task[n].slot
  IN  /\ task[n].phase = "finishing"
      /\ task' = [task EXCEPT ![n].phase = "over"]
      /\ entries' = IF same THEN [entries EXCEPT ![t.job].fetch_started = FALSE] ELSE entries
      /\ material' = IF same /\ task[n].material # NoTemplate
                     THEN [material EXCEPT ![task[n].slot] = task[n].material] ELSE material
      /\ UNCHANGED <<order, issued, in_flight, slots, tasks>>

CacheInit ==
  /\ entries = [j \in JobNames |-> NoEntry]
  /\ order = <<>>
  /\ issued = [s \in 1..MaxSlots |-> NoTemplate]
  /\ material = [s \in 1..MaxSlots |-> NoTemplate]
  /\ task = [n \in 1..MaxTasks |-> NoTask]
  /\ in_flight = 0
  /\ slots = 0
  /\ tasks = 0

CacheNext ==
  \/ \E t \in Templates : current_job(t)
  \/ \E n \in 1..MaxTasks : BeginFetch(n) \/ EndFetch(n) \/ finish_fetch(n)

CacheSpec == CacheInit /\ [][CacheNext]_cacheVars

-----------------------------------------------------------------------------
(* Properties *)

\* A slot only ever holds the material of the template its job was handed out with,
\* and only slots that are in the cache hold any.
OwnMaterial ==
  \A s \in 1..MaxSlots : material[s] # NoTemplate =>
    /\ material[s] = issued[s]
    /\ \E j \in Range(order) : entries[j].slot = s

\* A fetch that counts as started is on its way.
NoFetchForgotten ==
  \A j \in JobNames :
    entries[j].fetch_started /\ material[entries[j].slot] = NoTemplate =>
      \E n \in 1..MaxTasks :
        task[n].slot = entries[j].slot /\ task[n].phase \in {"waiting", "fetching", "finishing"}

\* finish_fetch and current_job: a job has its own material or none, also when the
\* node reuses a job_id or a task outlives its abort, and jobs that sessions retain
\* cost nothing; an abort, an error or a timeout never leaves a job without material
\* that will not be asked for again.
MaterialMatchesJob == OwnMaterial /\ NoFetchForgotten

=============================================================================
