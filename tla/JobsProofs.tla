----------------------------- MODULE JobsProofs -----------------------------
(***************************************************************************)
(* For any number of sessions, parents and jobs: shares are accepted on    *)
(* the jobs of one parent only, and the set of invalidated parents stays   *)
(* within the parents of the jobs in the table.  A share is counted only   *)
(* on a parent that was valid when it came, no heartbeat undoes the        *)
(* sentinel, and a miner is blamed for a delay only after it was told.     *)
(***************************************************************************)
EXTENDS Jobs, TLAPS

\* The job that was inserted into the table last.
Newest == IF wpc = "send" THEN next.job ELSE latest

\* Jobs are numbered by publication, and the current one is in the table
\* except while a newer one has replaced it there but not yet on the channel.
JobsAreMade ==
    /\ \A j \in retained : j <= made
    /\ latest <= made
    /\ wpc # "send" => latest \in retained

\* What is known of the template in the hands of the watch.
TemplateInHand ==
    /\ wpc = "recheck" => next.job = latest \/ (made < MaxJobs /\ next.job = made + 1)
    /\ wpc = "publish" => made < MaxJobs /\ next.job = made + 1
    /\ wpc = "table" => /\ next.job = made
                        /\ next.parent = prev[made]
                        /\ clean[made] <=> prev[made] # prev[latest]
    /\ wpc = "send" => next.job \in retained /\ next.job = made

\* A job whose parent is not invalid builds on the parent of the newest one.
OnlyNewestParent ==
    \A j \in retained : prev[j] \notin invalidated => prev[j] = prev[Newest]

JobsInv == JobsAreMade /\ TemplateInHand /\ OnlyNewestParent /\ InvalidatedIsRetained

-----------------------------------------------------------------------------
(***************************************************************************)
(* Types.                                                                  *)
(***************************************************************************)
\* Steps of the nodes, of the clock and of the watch keep the types.
LEMMA WatchTypes ==
  ASSUME TypeOK, Watch \/ JobAges \/ (\E n \in Nodes : NodeMoves(n)), JobsInv
  PROVE  TypeOK'
<1> USE JobsAssumption DEF Job, NoJob
<1>1. CASE Watch
  <2>1. CASE SentinelTick
    BY <2>1 DEF SentinelTick, TypeOK, templateVars, tableVars, sessionVars
  <2>2. CASE \E n \in Nodes : ObserveNode(n)
    <3>1. PICK n \in Nodes : ObserveNode(n)
      BY <2>2
    <3>2. tip[n] \in Parents
      BY DEF TypeOK
    <3>3. obs' \in [Nodes -> Parents \cup {Unread}]
      BY <3>1, <3>2 DEF ObserveNode, TypeOK
    <3>4. QED
      BY <3>1, <3>3 DEF ObserveNode, TypeOK, templateVars, tableVars, sessionVars
  <2>3. CASE SentinelDecides
    <3>1. prev[latest] \in Parents
      BY DEF TypeOK
    <3>2. invalidated' \subseteq Parents /\ dead' \subseteq Parents
      BY <2>3, <3>1 DEF SentinelDecides, TypeOK
    <3>3. forced' \in BOOLEAN
      BY <2>3 DEF SentinelDecides, tip_sentinel_invalidates_parent
    <3>4. QED
      BY <2>3, <3>2, <3>3 DEF SentinelDecides, TypeOK, templateVars, sessionVars
  <2>4. CASE GiveUp
    BY <2>4 DEF GiveUp, Continue, Template, TypeOK, templateVars, tableVars, sessionVars
  <2>5. CASE ReadTip
    BY <2>5 DEF ReadTip, TypeOK, templateVars, tableVars, sessionVars
  <2>6. CASE FetchJob
    <3>1. tip["A"] \in Parents /\ prev[latest] \in Parents
      BY DEF TypeOK, Nodes
    <3>2. made < MaxJobs => made + 1 \in Job
      BY DEF TypeOK
    <3>3. next' \in [job : Job, parent : Parents]
      <4>1. CASE made < MaxJobs /\ next' = Template(made + 1, tip["A"])
        BY <3>1, <3>2, <4>1 DEF Template
      <4>2. CASE next' = Template(latest, prev[latest])
        BY <3>1, <4>2 DEF Template, TypeOK
      <4>3. QED
        BY <2>6, <4>1, <4>2 DEF FetchJob
    <3>4. QED
      BY <2>6, <3>3 DEF FetchJob, TypeOK, templateVars, tableVars, sessionVars
  <2>7. CASE RecheckJob
    <3>1. CASE wpc' = "publish" /\ UNCHANGED <<obs, forced, next>>
      <4>1. UNCHANGED <<templateVars, tableVars, sessionVars>>
        BY <2>7 DEF RecheckJob
      <4>2. QED
        BY <3>1, <4>1 DEF TypeOK, templateVars, tableVars, sessionVars
    <3>2. CASE Continue
      <4>1. Template(latest, prev[latest]) \in [job : Job, parent : Parents]
        BY DEF Template, TypeOK
      <4>2. QED
        BY <2>7, <3>2, <4>1 DEF RecheckJob, Continue, TypeOK, templateVars, tableVars, sessionVars
    <3>3. QED
      BY <2>7, <3>1, <3>2 DEF RecheckJob
  <2>8. CASE BumpGeneration
    <3>1. next.job \in Job /\ next.parent \in Parents
      BY DEF TypeOK
    <3>2. generation' \in Nat
      BY <2>8 DEF BumpGeneration, TypeOK
    <3>3. clean' \in [Job -> BOOLEAN]
      BY <2>8, <3>1, Zenon DEF BumpGeneration, TypeOK
    <3>4. genOf' \in [Job -> Nat] /\ prev' \in [Job -> Parents] /\ made' \in Job
      BY <2>8, <3>1, <3>2 DEF BumpGeneration, TypeOK
    <3>5. QED
      BY <2>8, <3>2, <3>3, <3>4 DEF BumpGeneration, TypeOK, sessionVars
  <2>9. CASE UpdateTable
    <3>1. next.job \in Job /\ next.parent \in Parents
      BY DEF TypeOK
    <3>2. retained' \subseteq Job
      BY <2>9, <3>1 DEF UpdateTable, TableStep, TypeOK
    <3>3. RetainedParents(retained \ aged) \subseteq Parents
      BY DEF RetainedParents, TypeOK
    <3>4. invalidated' \subseteq Parents
      BY <2>9, <3>1, <3>3 DEF UpdateTable, TableStep, TypeOK
    <3>5. prev[latest] \in Parents
      BY DEF TypeOK
    <3>6. dead' \subseteq Parents
      BY <2>9, <3>5 DEF UpdateTable, TableStep, TypeOK
    <3>7. QED
      BY <2>9, <3>2, <3>4, <3>6 DEF UpdateTable, TableStep, TypeOK, templateVars, sessionVars
  <2>10. CASE SendReplace
    BY <2>10 DEF SendReplace, TypeOK, templateVars
  <2>11. QED
    BY <1>1, <2>1, <2>2, <2>3, <2>4, <2>5, <2>6, <2>7, <2>8, <2>9, <2>10 DEF Watch
<1>2. CASE JobAges
  BY <1>2 DEF JobAges, TypeOK, sessionVars
<1>3. CASE \E n \in Nodes : NodeMoves(n)
  <2>1. PICK n \in Nodes : NodeMoves(n)
    BY <1>3
  <2>2. tip' \in [Nodes -> Parents] /\ moves' \in 0..MaxMoves
    BY <2>1 DEF NodeMoves, TypeOK
  <2>3. QED
    BY <2>1, <2>2 DEF NodeMoves, TypeOK, sessionVars
<1>4. QED
  BY <1>1, <1>2, <1>3

\* A notification stores a job and its generation.
LEMMA NotifyTypes ==
  ASSUME TypeOK, NEW s \in Sessions, NEW j \in Job \cup {NoJob}, Notify(s, j)
  PROVE  told' \in [Sessions -> Job \cup {NoJob}] /\ delivered' \in [Sessions -> Nat]
<1>1. CASE get_for_submit(j)
  <2>1. j \in Job /\ genOf[j] \in Nat
    BY <1>1 DEF get_for_submit, TypeOK
  <2>2. QED
    BY <1>1, <2>1 DEF Notify, TypeOK
<1>2. CASE ~ get_for_submit(j)
  BY <1>2 DEF Notify, TypeOK
<1>3. QED
  BY <1>1, <1>2

\* Steps of a session keep the types.
LEMMA SessionTypes ==
  ASSUME TypeOK, NEW s \in Sessions, Session(s)
  PROVE  TypeOK'
<1> USE JobsAssumption DEF NoJob
<1>1. CASE Connect(s)
  BY <1>1 DEF Connect, TypeOK, watchVars
<1>2. CASE Authorize(s)
  <2>1. Notify(s, latest) /\ latest \in Job
    BY <1>2 DEF Authorize, TypeOK
  <2>2. told' \in [Sessions -> Job \cup {NoJob}] /\ delivered' \in [Sessions -> Nat]
    BY <2>1, NotifyTypes
  <2>3. QED
    BY <1>2, <2>2 DEF Authorize, TypeOK, watchVars
<1>3. CASE ReceiveJob(s)
  BY <1>3 DEF ReceiveJob, TypeOK, watchVars
<1>4. CASE ForwardJob(s)
  <2>1. Notify(s, cur[s]) /\ cur[s] \in Job \cup {NoJob}
    BY <1>4 DEF ForwardJob, TypeOK
  <2>2. told' \in [Sessions -> Job \cup {NoJob}] /\ delivered' \in [Sessions -> Nat]
    BY <2>1, NotifyTypes
  <2>3. QED
    BY <1>4, <2>2 DEF ForwardJob, TypeOK, watchVars
<1>5. CASE \E j \in Job : Submit(s, j)
  BY <1>5 DEF Submit, TypeOK, watchVars
<1>6. CASE CheckParent(s)
  BY <1>6 DEF CheckParent, TypeOK, watchVars, parent_is_invalidated
<1>7. CASE JudgeSubmit(s)
  <2>1. stale_generation_class(s, sub[s]) \in {"notify_delivery_lag", "miner_switch_lag", "unclassified"}
    BY DEF stale_generation_class
  <2>2. QED
    BY <1>7, <2>1 DEF JudgeSubmit, Judge, TypeOK, watchVars
<1>8. CASE PersistShare(s)
  BY <1>8 DEF PersistShare, TypeOK, watchVars
<1>9. CASE Retune(s)
  <2>1. Notify(s, latest) /\ latest \in Job
    BY <1>9 DEF Retune, TypeOK
  <2>2. told' \in [Sessions -> Job \cup {NoJob}] /\ delivered' \in [Sessions -> Nat]
    BY <2>1, NotifyTypes
  <2>3. QED
    BY <1>9, <2>2 DEF Retune, TypeOK, watchVars
<1>10. CASE Resync(s)
  <2>1. CASE streak[s] >= ReconnectThreshold
    <3>1. Forget(s) /\ spc' = [spc EXCEPT ![s] = "closed"] /\ UNCHANGED watchVars
      BY <1>10, <2>1 DEF Resync, AfterStale
    <3>2. QED
      BY <3>1 DEF Forget, TypeOK, watchVars
  <2>2. CASE ~ (streak[s] >= ReconnectThreshold)
    <3>1. streak[s] < ReconnectThreshold
      BY <2>2 DEF TypeOK
    <3>2. Notify(s, latest) /\ latest \in Job
      BY <1>10, <3>1 DEF Resync, TypeOK
    <3>3. told' \in [Sessions -> Job \cup {NoJob}] /\ delivered' \in [Sessions -> Nat]
      BY <3>2, NotifyTypes
    <3>4. QED
      <4>1. /\ unseen' = [unseen EXCEPT ![s] = FALSE]
            /\ spc' = [spc EXCEPT ![s] = "idle"]
            /\ sub' = [sub EXCEPT ![s] = NoJob]
            /\ receipt' = [receipt EXCEPT ![s] = FALSE]
            /\ class' = [class EXCEPT ![s] = "none"]
            /\ UNCHANGED <<cur, found, valid, cleanUnseen, streak, watchVars>>
        BY <1>10, <2>2 DEF Resync, AfterStale
      <4>2. QED
        BY <3>3, <4>1 DEF TypeOK, watchVars
  <2>3. QED
    BY <2>1, <2>2
<1>11. CASE SuggestDifficulty(s)
  <2>1. Notify(s, latest) /\ latest \in Job
    BY <1>11 DEF SuggestDifficulty, TypeOK
  <2>2. told' \in [Sessions -> Job \cup {NoJob}] /\ delivered' \in [Sessions -> Nat]
    BY <2>1, NotifyTypes
  <2>3. QED
    BY <1>11, <2>2 DEF SuggestDifficulty, TypeOK, watchVars
<1>12. CASE Disconnect(s)
  BY <1>12 DEF Disconnect, Forget, TypeOK, watchVars
<1>13. QED
  BY <1>12, <1>1, <1>2, <1>3, <1>4, <1>5, <1>6, <1>7, <1>8, <1>9, <1>10, <1>11 DEF Session, SessionStep

-----------------------------------------------------------------------------
(***************************************************************************)
(* The table of jobs.                                                      *)
(***************************************************************************)
\* What the steps of the table need to know of the numbers of jobs.
LEMMA JobNumbers ==
  ASSUME TypeOK
  PROVE  /\ retained \subseteq Int /\ made \in Int /\ latest \in Int /\ next.job \in Int
         /\ retained \subseteq Job /\ made \in Job /\ latest \in Job /\ next.job \in Job
BY JobsAssumption DEF TypeOK, Job

\* A step that leaves the table, the channel and the template alone, and does
\* not arrive where more is asked of them, keeps the invariant.
LEMMA TableUntouched ==
  ASSUME JobsInv, UNCHANGED <<made, prev, clean, retained, invalidated, latest, next, wpc>>
  PROVE  JobsInv'
BY DEF JobsInv, JobsAreMade, TemplateInHand, OnlyNewestParent, Newest, InvalidatedIsRetained,
       RetainedParents

\* The same for a step of the watch before it publishes.
LEMMA BeforePublish ==
  ASSUME JobsInv, UNCHANGED <<made, prev, clean, retained, invalidated, latest>>,
         wpc \in {"wait", "observe", "tip", "job", "recheck"},
         wpc' \in {"wait", "observe", "tip", "job"}
  PROVE  JobsInv'
BY DEF JobsInv, JobsAreMade, TemplateInHand, OnlyNewestParent, Newest, InvalidatedIsRetained,
       RetainedParents

\* The sentinel invalidates a parent that has a job in the table.
LEMMA SentinelKeeps ==
  ASSUME TypeOK, JobsInv, SentinelDecides
  PROVE  JobsInv'
<1>1. latest \in retained
  BY DEF JobsInv, JobsAreMade, SentinelDecides
<1>2. UNCHANGED <<made, prev, clean, retained, latest>> /\ wpc = "observe" /\ wpc' = "tip"
  BY DEF SentinelDecides, templateVars
<1>3. invalidated \subseteq invalidated' /\ invalidated' \subseteq invalidated \cup {prev[latest]}
  BY DEF SentinelDecides
<1>4. JobsAreMade' /\ TemplateInHand'
  BY <1>2 DEF JobsInv, JobsAreMade, TemplateInHand
<1>5. OnlyNewestParent'
  BY <1>2, <1>3 DEF JobsInv, OnlyNewestParent, Newest
<1>6. InvalidatedIsRetained'
  BY <1>1, <1>2, <1>3 DEF JobsInv, InvalidatedIsRetained, RetainedParents
<1>7. QED
  BY <1>4, <1>5, <1>6 DEF JobsInv

\* A template is fetched: that of the current job, or one that gets the next number.
LEMMA FetchKeeps ==
  ASSUME TypeOK, JobsInv, FetchJob
  PROVE  JobsInv'
<1>1. UNCHANGED <<made, prev, clean, retained, invalidated, latest>> /\ wpc = "job" /\ wpc' = "recheck"
  BY DEF FetchJob, templateVars, tableVars
<1>2. next'.job = latest \/ (made < MaxJobs /\ next'.job = made + 1)
  BY DEF FetchJob, Template
<1>3. QED
  BY <1>1, <1>2 DEF JobsInv, JobsAreMade, TemplateInHand, OnlyNewestParent, Newest,
     InvalidatedIsRetained, RetainedParents

\* A template that is published is not the one of the current job.
LEMMA RecheckKeeps ==
  ASSUME TypeOK, JobsInv, RecheckJob
  PROVE  JobsInv'
<1>1. UNCHANGED <<made, prev, clean, retained, invalidated, latest>> /\ wpc = "recheck"
  BY DEF RecheckJob, templateVars, tableVars
<1>2. CASE Continue
  <2>1. wpc' = "wait"
    BY <1>2 DEF Continue
  <2>2. QED
    BY <1>1, <2>1, BeforePublish
<1>3. CASE next.job # latest /\ wpc' = "publish" /\ next' = next
  <2>1. made < MaxJobs /\ next.job = made + 1
    BY <1>1, <1>3 DEF JobsInv, TemplateInHand
  <2>2. QED
    BY <1>1, <1>3, <2>1 DEF JobsInv, JobsAreMade, TemplateInHand, OnlyNewestParent, Newest,
       InvalidatedIsRetained, RetainedParents
<1>4. QED
  BY <1>2, <1>3 DEF RecheckJob

\* The number of the new job is not in the table yet, so that writing its
\* template changes no job that is.
LEMMA BumpKeeps ==
  ASSUME TypeOK, JobsInv, BumpGeneration
  PROVE  JobsInv'
<1>1. wpc = "publish" /\ wpc' = "table" /\ made' = next.job
      /\ UNCHANGED <<retained, invalidated, latest, next>>
  BY DEF BumpGeneration
<1>2. next.job = made + 1 /\ latest \in retained
  BY <1>1 DEF JobsInv, TemplateInHand, JobsAreMade
<1>3. \A j \in retained : j <= made /\ j # next.job
  BY <1>2, JobNumbers DEF JobsInv, JobsAreMade
<1>4. \A j \in retained : prev'[j] = prev[j]
  BY <1>3, JobNumbers DEF BumpGeneration, TypeOK
<1>5. prev'[next.job] = next.parent
  BY JobNumbers DEF BumpGeneration, TypeOK
<1>6. clean'[next.job] = (next.parent # prev[latest])
  BY JobNumbers DEF BumpGeneration, TypeOK
<1>7. JobsAreMade'
  BY <1>1, <1>2, <1>3, JobNumbers DEF JobsInv, JobsAreMade
<1>8. TemplateInHand'
  BY <1>1, <1>2, <1>4, <1>5, <1>6 DEF TemplateInHand
<1>9. OnlyNewestParent'
  BY <1>1, <1>2, <1>4 DEF JobsInv, OnlyNewestParent, Newest
<1>10. InvalidatedIsRetained'
  BY <1>1, <1>4 DEF JobsInv, InvalidatedIsRetained, RetainedParents
<1>11. QED
  BY <1>7, <1>8, <1>9, <1>10 DEF JobsInv

\* The new job replaces the old parent: with a tip change every other parent in
\* the table becomes invalid, and without one the new job has the parent of the
\* current job, which is the only one still valid.
LEMMA TableKeeps ==
  ASSUME TypeOK, JobsInv, UpdateTable
  PROVE  JobsInv'
<1> DEFINE kept == retained \ aged
<1>1. /\ wpc = "table" /\ wpc' = "send"
      /\ UNCHANGED <<made, prev, clean, latest, next>>
      /\ retained' = kept \cup {next.job}
      /\ invalidated' = ((invalidated \cup OtherParents) \cap RetainedParents(kept)) \ {next.parent}
  BY DEF UpdateTable, TableStep, templateVars
<1>2. next.job = made /\ next.parent = prev[next.job] /\ (clean[made] <=> prev[made] # prev[latest])
  BY <1>1 DEF JobsInv, TemplateInHand
<1>3. JobsAreMade'
  BY <1>1, <1>2, JobNumbers DEF JobsInv, JobsAreMade
<1>4. TemplateInHand'
  BY <1>1, <1>2 DEF TemplateInHand
<1>5. ASSUME NEW j \in kept, prev[j] \notin invalidated'
      PROVE  prev[j] = next.parent
  <2>1. prev[j] \in RetainedParents(kept)
    BY DEF RetainedParents
  <2>2. CASE clean[made]
    BY <1>1, <1>2, <1>5, <2>1, <2>2 DEF OtherParents
  <2>3. CASE ~ clean[made]
    <3>1. next.parent = prev[latest]
      BY <1>2, <2>3
    <3>2. prev[j] \notin invalidated \/ prev[j] = next.parent
      BY <1>1, <1>5, <2>1
    <3>3. QED
      BY <1>1, <3>1, <3>2 DEF JobsInv, OnlyNewestParent, Newest
  <2>4. QED
    BY <2>2, <2>3
<1>6. OnlyNewestParent'
  BY <1>1, <1>2, <1>5 DEF OnlyNewestParent, Newest
<1>7. InvalidatedIsRetained'
  BY <1>1 DEF InvalidatedIsRetained, RetainedParents
<1>8. QED
  BY <1>3, <1>4, <1>6, <1>7 DEF JobsInv

\* The channel gets the job that was inserted last.
LEMMA SendKeeps ==
  ASSUME TypeOK, JobsInv, SendReplace
  PROVE  JobsInv'
<1>1. wpc = "send" /\ wpc' = "wait" /\ latest' = next.job
      /\ UNCHANGED <<made, prev, clean, retained, invalidated, next>>
  BY DEF SendReplace, templateVars
<1>2. next.job \in retained /\ next.job = made
  BY <1>1 DEF JobsInv, TemplateInHand
<1>3. QED
  BY <1>1, <1>2, JobNumbers DEF JobsInv, JobsAreMade, TemplateInHand, OnlyNewestParent, Newest,
     InvalidatedIsRetained, RetainedParents

\* Every step keeps what is known of the table.
LEMMA TableInvariant ==
  ASSUME TypeOK, JobsInv, [Next]_vars
  PROVE  JobsInv'
<1>1. CASE Watch
  <2>1. CASE SentinelTick
    BY <2>1, BeforePublish DEF SentinelTick, templateVars, tableVars
  <2>2. CASE \E n \in Nodes : ObserveNode(n)
    BY <2>2, TableUntouched DEF ObserveNode, templateVars, tableVars
  <2>3. CASE GiveUp
    BY <2>3, BeforePublish DEF GiveUp, Continue, templateVars, tableVars
  <2>4. CASE ReadTip
    <3>1. wpc' \in {"wait", "job"}
      BY <2>4 DEF ReadTip
    <3>2. QED
      BY <2>4, <3>1, BeforePublish DEF ReadTip, templateVars, tableVars
  <2>5. QED
    BY <1>1, <2>1, <2>2, <2>3, <2>4, SentinelKeeps, FetchKeeps, RecheckKeeps, BumpKeeps, TableKeeps,
       SendKeeps DEF Watch
<1>2. CASE JobAges
  BY <1>2, TableUntouched DEF JobAges
<1>3. CASE \E n \in Nodes : NodeMoves(n)
  BY <1>3, TableUntouched DEF NodeMoves
<1>4. ASSUME NEW s \in Sessions, Session(s)
      PROVE  JobsInv'
  <2>1. UNCHANGED watchVars
    BY <1>4 DEF Session, SessionStep, Connect, Authorize, SuggestDifficulty, ReceiveJob, ForwardJob,
       Submit, CheckParent, JudgeSubmit, Judge, PersistShare, Retune, Resync, AfterStale, Disconnect
  <2>2. QED
    BY <2>1, TableUntouched DEF watchVars
<1>5. CASE UNCHANGED vars
  BY <1>5, TableUntouched DEF vars, watchVars
<1>6. QED
  BY <1>1, <1>2, <1>3, <1>4, <1>5 DEF Next

-----------------------------------------------------------------------------
(***************************************************************************)
(* The theorems.                                                           *)
(***************************************************************************)
\* Every variable keeps its type, and the table its invariant, in every
\* behaviour of the watch and the sessions.
THEOREM JobsInvariant == Spec => [](TypeOK /\ JobsInv)
<1>1. Init => TypeOK /\ JobsInv
  <2>1. Init => TypeOK
    <3> SUFFICES ASSUME Init PROVE TypeOK
      OBVIOUS
    <3>1. 1 \in Job
      BY JobsAssumption DEF Job
    <3>2. clean \in [Job -> BOOLEAN]
      BY Zenon DEF Init
    <3>3. /\ tip \in [Nodes -> Parents] /\ moves \in 0..MaxMoves /\ prev \in [Job -> Parents]
          /\ genOf \in [Job -> Nat] /\ generation \in Nat
          /\ obs \in [Nodes -> Parents \cup {Unread}]
      BY JobsAssumption DEF Init
    <3>4. next \in [job : Job, parent : Parents]
      BY <3>1, JobsAssumption DEF Init, Template
    <3>5. QED
      BY <3>1, <3>2, <3>3, <3>4 DEF Init, TypeOK, NoJob
  <2>2. Init => JobsInv
    BY JobsAssumption DEF Init, JobsInv, JobsAreMade, TemplateInHand, OnlyNewestParent, Newest,
       InvalidatedIsRetained, RetainedParents, Job
  <2>3. QED
    BY <2>1, <2>2
<1>2. TypeOK /\ JobsInv /\ [Next]_vars => TypeOK' /\ JobsInv'
  <2>1. CASE UNCHANGED vars
    BY <2>1, TableInvariant DEF vars, watchVars, sessionVars, TypeOK
  <2>2. CASE Next
    BY <2>2, WatchTypes, SessionTypes, TableInvariant DEF Next
  <2>3. QED
    BY <2>1, <2>2
<1>3. QED
  BY <1>1, <1>2, PTL DEF Spec

\* RetainedJobs::publish and the sentinel never leave two parents on which
\* shares are accepted, at any point between their statements.
THEOREM OneParent == Spec => []OneLiveParent
<1>1. JobsInv => OneLiveParent
  BY DEF JobsInv, OnlyNewestParent, OneLiveParent, get_for_submit, parent_is_invalidated
<1>2. QED
  BY <1>1, JobsInvariant, PTL

\* invalidated_parents holds only parents of jobs in the table, however many
\* blocks the nodes adopt.
THEOREM InvalidatedIsBounded == Spec => []InvalidatedIsRetained
<1>1. JobsInv => InvalidatedIsRetained
  BY DEF JobsInv
<1>2. QED
  BY <1>1, JobsInvariant, PTL
-----------------------------------------------------------------------------
(***************************************************************************)
(* Dead parents and the submits under way.  dead is the history of the     *)
(* parents that were invalidated; the table forgets them with their jobs,  *)
(* so a submit may outlive what made its job stale.                        *)
(***************************************************************************)
\* As long as a job on a dead parent is in the table, the table knows.
DeadIsInvalid == \A j \in retained : prev[j] \in dead => prev[j] \in invalidated

\* A job that is about to be published on the current parent finds it alive.
HeartbeatLive ==
    wpc \in {"publish", "table"} /\ next.parent = prev[latest] => next.parent \notin dead

\* What a session has learnt from the table while it handles a submit.
SubmitsKnown ==
    \A s \in Sessions :
        /\ spc[s] = "parent" /\ found[s] => sub[s] \in retained \cup aged
        /\ spc[s] = "judge" /\ valid[s] /\ receipt[s] => sub[s] \in aged

LiveInv == TypeOK /\ JobsInv /\ DeadIsInvalid /\ HeartbeatLive /\ SubmitsKnown /\ CountedWasLive

\* No step of a session touches the state of the watch.
LEMMA SessionsOnlyRead ==
  ASSUME NEW s \in Sessions, Session(s)
  PROVE  UNCHANGED watchVars
BY DEF Session, SessionStep, Connect, Authorize, SuggestDifficulty, ReceiveJob, ForwardJob,
       Submit, CheckParent, JudgeSubmit, Judge, PersistShare, Retune, Resync, AfterStale, Disconnect

\* Nor does one of the watch touch a submit.
LEMMA WatchOnlyPublishes ==
  ASSUME Watch \/ JobAges \/ (\E n \in Nodes : NodeMoves(n))
  PROVE  UNCHANGED <<spc, cur, sub, found, valid, receipt, delivered, streak, told, class>>
BY DEF Watch, SentinelTick, SentinelDecides, GiveUp, ObserveNode, ReadTip, FetchJob, RecheckJob,
       BumpGeneration, UpdateTable, TableStep, SendReplace, JobAges, NodeMoves, sessionVars

\* A job leaves the table only when its retention is over.
LEMMA LeavesWhenAged ==
  ASSUME Watch \/ JobAges \/ (\E n \in Nodes : NodeMoves(n))
  PROVE  aged \subseteq aged' /\ retained \subseteq retained' \cup aged
<1>1. CASE UpdateTable BY <1>1 DEF UpdateTable, TableStep
<1>2. CASE JobAges BY <1>2 DEF JobAges
<1>3. CASE ~UpdateTable /\ ~JobAges
  BY <1>3 DEF Watch, SentinelTick, SentinelDecides, GiveUp, ObserveNode, ReadTip, FetchJob,
              RecheckJob, BumpGeneration, SendReplace, NodeMoves, tableVars, templateVars
<1>4. QED BY <1>1, <1>2, <1>3

\* Only publishing changes the jobs, and only the sentinel and publishing the dead.
LEMMA WatchKeepsDead ==
  ASSUME TypeOK, JobsInv, DeadIsInvalid, HeartbeatLive,
         Watch \/ JobAges \/ (\E n \in Nodes : NodeMoves(n))
  PROVE  DeadIsInvalid' /\ HeartbeatLive'
<1>1. CASE SentinelDecides
  <2>1. UNCHANGED <<prev, retained, latest, next>> /\ wpc' = "tip"
    BY <1>1 DEF SentinelDecides, templateVars
  <2>2. \/ invalidated' = invalidated \cup {prev[latest]} /\ dead' = dead \cup {prev[latest]}
        \/ UNCHANGED <<invalidated, dead>>
    BY <1>1 DEF SentinelDecides
  <2>3. QED BY <2>1, <2>2 DEF DeadIsInvalid, HeartbeatLive
<1>2. CASE RecheckJob
  <2>1. UNCHANGED <<prev, retained, latest, invalidated, dead>>
    BY <1>2 DEF RecheckJob, templateVars, tableVars
  <2>2. CASE Continue BY <2>1, <2>2 DEF Continue, DeadIsInvalid, HeartbeatLive
  <2>3. CASE ~Refused(next.parent) /\ next' = next
    <3>1. ASSUME next.parent = prev[latest] PROVE next.parent \notin dead
      <4>1. next.parent \notin invalidated /\ next.parent \in RetainedParents(retained)
        BY <2>3, <3>1 DEF Refused, parent_is_retained, parent_is_invalidated
      <4>2. PICK j \in retained : next.parent = prev[j] BY <4>1 DEF RetainedParents
      <4>3. QED BY <4>1, <4>2 DEF DeadIsInvalid
    <3>2. QED BY <2>1, <2>3, <3>1 DEF DeadIsInvalid, HeartbeatLive
  <2>4. QED BY <1>2, <2>2, <2>3 DEF RecheckJob
<1>3. CASE BumpGeneration
  <2>1. /\ wpc = "publish" /\ made' = next.job
        /\ UNCHANGED <<retained, invalidated, latest, next, dead>>
    BY <1>3 DEF BumpGeneration
  <2>2. next.job = made + 1 /\ latest <= made
    BY <2>1 DEF JobsInv, TemplateInHand, JobsAreMade
  <2>3. \A j \in retained \cup {latest} : j # next.job /\ j \in Job
    BY <2>2, JobNumbers DEF JobsInv, JobsAreMade
  <2>4. \A j \in retained \cup {latest} : prev'[j] = prev[j]
    BY <1>3, <2>3, JobNumbers DEF BumpGeneration, TypeOK
  <2>5. QED BY <2>1, <2>4 DEF DeadIsInvalid, HeartbeatLive
<1>4. CASE UpdateTable
  <2> DEFINE kept == retained \ aged
  <2>1. /\ wpc = "table" /\ wpc' = "send" /\ prev' = prev
        /\ retained' = kept \cup {next.job}
        /\ invalidated' = ((invalidated \cup OtherParents) \cap RetainedParents(kept)) \ {next.parent}
        /\ dead' = (IF clean[next.job] THEN dead \cup {prev[latest]} ELSE dead) \ {next.parent}
    BY <1>4 DEF UpdateTable, TableStep, templateVars
  <2>2. next.parent = prev[next.job]
    BY <2>1 DEF JobsInv, TemplateInHand
  <2>3. ASSUME NEW j \in kept, prev[j] \in dead' PROVE prev[j] \in invalidated'
    <3>1. prev[j] \in RetainedParents(kept) BY DEF RetainedParents
    <3>2. prev[j] \in invalidated \/ prev[j] \in OtherParents
      BY <2>1, <2>3, <3>1 DEF DeadIsInvalid, OtherParents
    <3>3. QED BY <2>1, <2>3, <3>1, <3>2
  <2>4. prev[next.job] \notin dead' BY <2>1, <2>2
  <2>5. DeadIsInvalid' BY <2>1, <2>3, <2>4 DEF DeadIsInvalid
  <2>6. HeartbeatLive' BY <2>1 DEF HeartbeatLive
  <2>7. QED BY <2>5, <2>6
<1>5. CASE SendReplace BY <1>5 DEF SendReplace, templateVars, DeadIsInvalid, HeartbeatLive
<1>6. CASE SentinelTick \/ GiveUp \/ ReadTip \/ FetchJob
  <2>1. UNCHANGED <<prev, retained, invalidated, dead>>
    BY <1>6 DEF SentinelTick, GiveUp, ReadTip, FetchJob, templateVars, tableVars
  <2>2. wpc' \in {"observe", "wait", "job", "recheck"}
    BY <1>6 DEF SentinelTick, GiveUp, Continue, ReadTip, FetchJob
  <2>3. QED BY <2>1, <2>2 DEF DeadIsInvalid, HeartbeatLive
<1>7. CASE (\E n \in Nodes : ObserveNode(n)) \/ JobAges \/ (\E n \in Nodes : NodeMoves(n))
  BY <1>7 DEF ObserveNode, JobAges, NodeMoves, templateVars, tableVars, DeadIsInvalid, HeartbeatLive
<1>8. QED BY <1>1, <1>2, <1>3, <1>4, <1>5, <1>6, <1>7 DEF Watch

\* A job that is in the table when the submit arrives and whose parent is dead
\* but not invalid when it is checked has left the table in between.
LEMMA SubmitKeepsKnown ==
  ASSUME LiveInv, NEW s \in Sessions, Session(s)
  PROVE  SubmitsKnown' /\ CountedWasLive'
<1>w. UNCHANGED watchVars BY SessionsOnlyRead
<1>t. /\ spc \in [Sessions -> {"closed", "open", "idle", "job", "parent", "judge", "persist",
                                "retune", "resync"}]
      /\ sub \in [Sessions -> Job \cup {NoJob}] /\ found \in [Sessions -> BOOLEAN]
      /\ valid \in [Sessions -> BOOLEAN] /\ receipt \in [Sessions -> BOOLEAN]
  BY DEF LiveInv, TypeOK
<1>k. /\ spc[s] = "parent" /\ found[s] => sub[s] \in retained \cup aged
      /\ spc[s] = "judge" /\ valid[s] /\ receipt[s] => sub[s] \in aged
  BY DEF LiveInv, SubmitsKnown
<1>1. /\ \A q \in Sessions \ {s} : /\ spc'[q] = spc[q] /\ sub'[q] = sub[q] /\ found'[q] = found[q]
                                   /\ valid'[q] = valid[q] /\ receipt'[q] = receipt[q]
      /\ spc'[s] = "parent" /\ found'[s] => sub'[s] \in retained \cup aged
      /\ spc'[s] = "judge" /\ valid'[s] /\ receipt'[s] => sub'[s] \in aged
      /\ spc'[s] = "persist" /\ receipt'[s] => sub'[s] \in aged
  <2>1. CASE \E j \in Job : Submit(s, j)
    <3>1. PICK j \in Job : Submit(s, j) BY <2>1
    <3>2. spc'[s] = "parent" /\ sub'[s] = j BY <1>t, <3>1 DEF Submit
    <3>3. found'[s] = (j \in retained) BY <1>t, <3>1 DEF Submit
    <3>4. \A q \in Sessions \ {s} : /\ spc'[q] = spc[q] /\ sub'[q] = sub[q] /\ found'[q] = found[q]
                                    /\ valid'[q] = valid[q] /\ receipt'[q] = receipt[q]
      BY <1>t, <3>1, Zenon DEF Submit
    <3>5. QED BY <3>2, <3>3, <3>4
  <2>2. CASE CheckParent(s)
    <3>1. /\ spc[s] = "parent" /\ spc'[s] = "judge" /\ sub' = sub
          /\ valid'[s] = (found[s] /\ prev[sub[s]] \notin invalidated)
          /\ receipt'[s] = (receipt[s] /\ prev[sub[s]] \in dead)
      BY <1>t, <2>2 DEF CheckParent, parent_is_invalidated
    <3>2. ASSUME valid'[s], receipt'[s] PROVE sub[s] \in aged
      <4>1. sub[s] \notin retained BY <3>1, <3>2 DEF LiveInv, DeadIsInvalid
      <4>2. QED BY <1>k, <3>1, <3>2, <4>1
    <3>3. QED BY <1>t, <2>2, <3>1, <3>2 DEF CheckParent
  <2>3. CASE JudgeSubmit(s)
    <3>1. /\ spc[s] = "judge" /\ spc'[s] \in {"resync", "persist"} /\ UNCHANGED <<sub, found, receipt>>
          /\ spc'[s] = "persist" => valid[s]
      BY <1>t, <2>3 DEF JudgeSubmit, Judge
    <3>2. QED BY <1>k, <1>t, <2>3, <3>1 DEF JudgeSubmit, Judge
  <2>4. CASE PersistShare(s) BY <1>t, <2>4 DEF PersistShare
  <2>5. CASE Resync(s) BY <1>t, <2>5 DEF Resync, AfterStale, Forget
  <2>6. CASE Disconnect(s) BY <1>t, <2>6 DEF Disconnect, Forget
  <2>7. CASE Connect(s) \/ Authorize(s) \/ ReceiveJob(s) \/ ForwardJob(s) \/ Retune(s)
    BY <1>t, <2>7 DEF Connect, Authorize, ReceiveJob, ForwardJob, Retune
  <2>8. CASE SuggestDifficulty(s)
    BY <2>8 DEF SuggestDifficulty, LiveInv, SubmitsKnown, CountedWasLive
  <2>9. QED BY <2>1, <2>2, <2>3, <2>4, <2>5, <2>6, <2>7, <2>8 DEF Session, SessionStep
<1>2. UNCHANGED <<retained, aged>> BY <1>w DEF watchVars
<1>3. QED BY <1>1, <1>2 DEF LiveInv, SubmitsKnown, CountedWasLive

LEMMA NextLive == LiveInv /\ [Next]_vars => LiveInv'
<1> SUFFICES ASSUME LiveInv, [Next]_vars PROVE LiveInv'
  OBVIOUS
<1>i. TypeOK /\ JobsInv /\ DeadIsInvalid /\ HeartbeatLive BY DEF LiveInv
<1>1. CASE Watch \/ JobAges \/ (\E n \in Nodes : NodeMoves(n))
  <2>1. TypeOK' BY <1>1, <1>i, WatchTypes
  <2>2. JobsInv' BY <1>1, <1>i, TableInvariant
  <2>3. DeadIsInvalid' /\ HeartbeatLive' BY <1>1, <1>i, WatchKeepsDead
  <2>4. SubmitsKnown' /\ CountedWasLive'
    BY <1>1, WatchOnlyPublishes, LeavesWhenAged DEF LiveInv, SubmitsKnown, CountedWasLive
  <2>5. QED BY <2>1, <2>2, <2>3, <2>4 DEF LiveInv
<1>2. ASSUME NEW s \in Sessions, Session(s) PROVE LiveInv'
  <2>1. TypeOK' BY <1>2, <1>i, SessionTypes
  <2>2. JobsInv' BY <1>2, <1>i, TableInvariant
  <2>3. UNCHANGED watchVars BY <1>2, SessionsOnlyRead
  <2>4. DeadIsInvalid' /\ HeartbeatLive' BY <1>i, <2>3 DEF watchVars, DeadIsInvalid, HeartbeatLive
  <2>5. QED BY <1>2, <2>1, <2>2, <2>4, SubmitKeepsKnown DEF LiveInv
<1>3. CASE UNCHANGED vars
  <2>1. TypeOK' BY <1>3, <1>i DEF vars, watchVars, sessionVars, TypeOK
  <2>2. JobsInv' BY <1>3, <1>i, TableInvariant
  <2>3. QED
    BY <1>3, <2>1, <2>2 DEF LiveInv, vars, watchVars, sessionVars, DeadIsInvalid, HeartbeatLive,
                            SubmitsKnown, CountedWasLive
<1>4. QED BY <1>1, <1>2, <1>3 DEF Next

LEMMA LiveInvariant == Spec => []LiveInv
<1>1. Init => DeadIsInvalid /\ HeartbeatLive /\ SubmitsKnown /\ CountedWasLive
  BY DEF Init, DeadIsInvalid, HeartbeatLive, SubmitsKnown, CountedWasLive
<1>2. Init /\ TypeOK /\ JobsInv => LiveInv BY <1>1 DEF LiveInv
<1>3. Spec => Init /\ [][Next]_vars BY DEF Spec
<1>4. QED BY <1>2, <1>3, NextLive, JobsInvariant, PTL

\* A share that passes the stale checks was sent for a job whose parent was not
\* already invalid when the submit arrived, or whose retention is over: the look
\* into the table and the one at the invalidated parents are apart, and the watch
\* may publish in between.
THEOREM SharesWereLive == Spec => []CountedWasLive
<1>1. LiveInv => CountedWasLive BY DEF LiveInv
<1>2. QED BY <1>1, LiveInvariant, PTL

\* An invalidated parent comes back only with a job that replaces one on another
\* parent: a heartbeat never undoes the sentinel.
THEOREM SentinelHolds == Spec => SentinelIsNotUndone
<1>1. LiveInv /\ [Next]_vars => (\A p \in dead : p \notin dead' => prev[latest] # p)
  <2> SUFFICES ASSUME LiveInv, [Next]_vars, NEW p \in dead, p \notin dead' PROVE prev[latest] # p
    OBVIOUS
  <2>1. CASE UpdateTable
    <3>1. wpc = "table" /\ p = next.parent BY <2>1 DEF UpdateTable, TableStep
    <3>2. QED BY <3>1 DEF LiveInv, HeartbeatLive
  <2>2. CASE Watch /\ ~UpdateTable
    BY <2>2 DEF Watch, SentinelTick, SentinelDecides, GiveUp, ObserveNode, ReadTip, FetchJob,
                RecheckJob, BumpGeneration, SendReplace, tableVars
  <2>3. CASE JobAges \/ (\E n \in Nodes : NodeMoves(n)) BY <2>3 DEF JobAges, NodeMoves
  <2>4. CASE \E s \in Sessions : Session(s) BY <2>4, SessionsOnlyRead DEF watchVars
  <2>5. CASE UNCHANGED vars BY <2>5 DEF vars, watchVars
  <2>6. QED BY <2>1, <2>2, <2>3, <2>4, <2>5 DEF Next
<1>2. LiveInv /\ [Next]_vars => [\A p \in dead : p \notin dead' => prev[latest] # p]_vars BY <1>1
<1>3. QED BY <1>2, LiveInvariant, PTL DEF Spec, SentinelIsNotUndone

-----------------------------------------------------------------------------
(***************************************************************************)
(* What a session knows of the generations.  The jobs it sends never go    *)
(* back, so the generation it has delivered is that of the job its miner   *)
(* was told last.                                                          *)
(***************************************************************************)
\* Generations grow with the jobs, and none is ahead of the table's.
Generations ==
    /\ generation >= 1
    /\ \A j \in Job : genOf[j] <= generation
    /\ \A j, k \in Job : j <= k /\ k <= made => genOf[j] <= genOf[k]

DeliveredIsTold ==
    \A s \in Sessions :
        /\ told[s] <= latest
        /\ told[s] = NoJob => delivered[s] = 0
        /\ told[s] # NoJob => delivered[s] = genOf[told[s]]
        /\ spc[s] = "job" => cur[s] \in Job /\ told[s] <= cur[s] /\ cur[s] <= latest

DeliveryInv == TypeOK /\ JobsInv /\ Generations /\ DeliveredIsTold

LEMMA WatchKeepsDelivery ==
  ASSUME DeliveryInv, Watch \/ JobAges \/ (\E n \in Nodes : NodeMoves(n))
  PROVE  Generations' /\ DeliveredIsTold'
<1>i. TypeOK /\ JobsInv /\ Generations /\ DeliveredIsTold BY DEF DeliveryInv
<1>s. UNCHANGED <<spc, cur, delivered, told>> BY WatchOnlyPublishes
<1>t. /\ told \in [Sessions -> Job \cup {NoJob}] /\ cur \in [Sessions -> Job \cup {NoJob}]
      /\ genOf \in [Job -> Nat] /\ generation \in Nat /\ made \in Job /\ latest \in Job
      /\ next.job \in Job /\ Job \subseteq Int
  BY <1>i, JobNumbers, SMTT(30) DEF TypeOK, Job
<1>l. latest <= made BY <1>i DEF JobsInv, JobsAreMade
<1>1. CASE BumpGeneration
  <2>1. /\ wpc = "publish" /\ latest' = latest /\ made' = next.job
        /\ generation' = generation + (IF next.parent # prev[latest] THEN 1 ELSE 0)
        /\ genOf' = [genOf EXCEPT ![next.job] = generation']
    BY <1>1 DEF BumpGeneration
  <2>2. next.job = made + 1 BY <1>i, <2>1 DEF JobsInv, TemplateInHand
  <2>3. generation' \in Nat /\ generation' >= generation BY <1>t, <2>1
  <2>4. genOf'[next.job] = generation' /\ \A j \in Job \ {next.job} : genOf'[j] = genOf[j]
    BY <1>t, <2>1
  <2>5. Generations'
    <3>1. generation' >= 1 /\ \A j \in Job : genOf'[j] <= generation'
      BY <1>i, <1>t, <2>3, <2>4 DEF Generations
    <3>2. ASSUME NEW j \in Job, NEW k \in Job, j <= k, k <= made' PROVE genOf'[j] <= genOf'[k]
      <4>1. CASE k = next.job BY <2>4, <3>1, <4>1
      <4>2. CASE k # next.job
        <5>1. k <= made /\ j # next.job BY <1>t, <2>1, <2>2, <3>2, <4>2
        <5>2. QED BY <1>i, <2>4, <3>2, <4>2, <5>1 DEF Generations
      <4>3. QED BY <4>1, <4>2
    <3>3. QED BY <3>1, <3>2 DEF Generations
  <2>6. \A s \in Sessions : told[s] # NoJob => genOf'[told[s]] = genOf[told[s]]
    <3> SUFFICES ASSUME NEW s \in Sessions, told[s] # NoJob
                 PROVE  genOf'[told[s]] = genOf[told[s]]
      OBVIOUS
    <3>1. told[s] \in Job BY <1>t
    <3>2. told[s] <= latest BY <1>i DEF DeliveredIsTold
    <3>3. told[s] # next.job BY <1>t, <1>l, <2>2, <3>1, <3>2
    <3>4. QED BY <2>4, <3>1, <3>3
  <2>7. DeliveredIsTold' BY <1>i, <1>s, <2>1, <2>6 DEF DeliveredIsTold
  <2>8. QED BY <2>5, <2>7
<1>2. CASE SendReplace
  <2>1. wpc = "send" /\ latest' = next.job /\ UNCHANGED <<made, genOf, generation>>
    BY <1>2 DEF SendReplace, templateVars
  <2>2. latest <= latest' BY <1>i, <1>l, <2>1 DEF JobsInv, TemplateInHand
  <2>3. Generations' BY <1>i, <2>1 DEF Generations
  <2>4. \A s \in Sessions : /\ told[s] <= latest'
                            /\ spc[s] = "job" => cur[s] <= latest'
    <3> SUFFICES ASSUME NEW s \in Sessions
                 PROVE  told[s] <= latest' /\ (spc[s] = "job" => cur[s] <= latest')
      OBVIOUS
    <3>1. told[s] <= latest /\ (spc[s] = "job" => cur[s] \in Job /\ cur[s] <= latest)
      BY <1>i DEF DeliveredIsTold
    <3>2. told[s] \in Int
      <4>1. told[s] \in Job \/ told[s] = NoJob BY <1>t
      <4>2. NoJob \in Int BY DEF NoJob
      <4>3. QED BY <1>t, <4>1, <4>2
    <3>3. latest \in Int /\ latest' \in Int BY <1>t, <2>1
    <3>4. told[s] <= latest' BY <2>2, <3>1, <3>2, <3>3
    <3>5. ASSUME spc[s] = "job" PROVE cur[s] <= latest'
      <4>1. cur[s] \in Int /\ cur[s] <= latest BY <1>t, <3>1, <3>5
      <4>2. QED BY <2>2, <3>3, <4>1
    <3>6. QED BY <3>4, <3>5
  <2>5. DeliveredIsTold' BY <1>i, <1>s, <2>1, <2>4 DEF DeliveredIsTold
  <2>6. QED BY <2>3, <2>5
<1>3. CASE ~BumpGeneration /\ ~SendReplace
  <2>1. UNCHANGED <<made, genOf, generation, latest>>
    BY <1>3 DEF Watch, SentinelTick, SentinelDecides, GiveUp, ObserveNode, ReadTip, FetchJob,
                RecheckJob, UpdateTable, TableStep, JobAges, NodeMoves, templateVars, tableVars
  <2>2. QED BY <1>i, <1>s, <2>1 DEF Generations, DeliveredIsTold
<1>4. QED BY <1>1, <1>2, <1>3

\* mining.notify of a job that is not older than the one told before.
LEMMA NotifyDelivers ==
  ASSUME DeliveryInv, NEW s \in Sessions, NEW j \in Job, told[s] <= j, j <= latest, Notify(s, j)
  PROVE  /\ \A q \in Sessions \ {s} : told'[q] = told[q] /\ delivered'[q] = delivered[q]
         /\ told'[s] <= latest
         /\ told'[s] = NoJob => delivered'[s] = 0
         /\ told'[s] # NoJob => delivered'[s] = genOf[told'[s]]
<1>t. /\ told \in [Sessions -> Job \cup {NoJob}] /\ delivered \in [Sessions -> Nat]
      /\ genOf \in [Job -> Nat] /\ made \in Job /\ latest \in Job /\ Job \subseteq Int
  <2>1. TypeOK BY DEF DeliveryInv
  <2>2. Job \subseteq Int BY JobsAssumption DEF Job
  <2>3. QED BY <2>1, <2>2 DEF TypeOK
<1>d. /\ told[s] <= latest /\ (told[s] = NoJob => delivered[s] = 0)
      /\ told[s] # NoJob => delivered[s] = genOf[told[s]]
  BY DEF DeliveryInv, DeliveredIsTold
<1>1. CASE get_for_submit(j)
  <2>1. /\ told' = [told EXCEPT ![s] = j]
        /\ delivered' = [delivered EXCEPT ![s] = IF genOf[j] > delivered[s] THEN genOf[j] ELSE delivered[s]]
    BY <1>1 DEF Notify
  <2>2. delivered[s] <= genOf[j]
    <3>1. j <= made BY <1>t DEF DeliveryInv, JobsInv, JobsAreMade
    <3>2. CASE told[s] = NoJob BY <1>d, <1>t, <3>2
    <3>3. CASE told[s] # NoJob BY <1>d, <1>t, <3>1, <3>3 DEF DeliveryInv, Generations
    <3>4. QED BY <3>2, <3>3
  <2>3. delivered'[s] = genOf[j] BY <1>t, <2>1, <2>2
  <2>4. j # NoJob BY DEF Job, NoJob
  <2>5. QED BY <1>t, <2>1, <2>3, <2>4
<1>2. CASE ~get_for_submit(j) BY <1>2, <1>d DEF Notify
<1>3. QED BY <1>1, <1>2

LEMMA SessionKeepsDelivery ==
  ASSUME DeliveryInv, NEW s \in Sessions, Session(s)
  PROVE  Generations' /\ DeliveredIsTold'
<1>w. UNCHANGED watchVars BY SessionsOnlyRead
<1>g. UNCHANGED <<made, genOf, generation, latest>> BY <1>w DEF watchVars
<1>t. /\ told \in [Sessions -> Job \cup {NoJob}] /\ cur \in [Sessions -> Job \cup {NoJob}]
      /\ delivered \in [Sessions -> Nat] /\ latest \in Job /\ Job \subseteq Int
      /\ spc \in [Sessions -> {"closed", "open", "idle", "job", "parent", "judge", "persist",
                                "retune", "resync"}]
  <2>1. TypeOK BY DEF DeliveryInv
  <2>2. Job \subseteq Int BY JobsAssumption DEF Job
  <2>3. QED BY <2>1, <2>2 DEF TypeOK
<1>d. /\ told[s] <= latest /\ (told[s] = NoJob => delivered[s] = 0)
      /\ told[s] # NoJob => delivered[s] = genOf[told[s]]
      /\ spc[s] = "job" => cur[s] \in Job /\ told[s] <= cur[s] /\ cur[s] <= latest
  BY DEF DeliveryInv, DeliveredIsTold
<1>n. 0 <= latest BY <1>t DEF Job
<1> DEFINE Kept == /\ \A q \in Sessions \ {s} : told'[q] = told[q] /\ delivered'[q] = delivered[q]
                   /\ told'[s] <= latest
                   /\ told'[s] = NoJob => delivered'[s] = 0
                   /\ told'[s] # NoJob => delivered'[s] = genOf[told'[s]]
           Moved == \A q \in Sessions \ {s} : spc'[q] = spc[q] /\ cur'[q] = cur[q]
           Reads == spc'[s] = "job" => cur'[s] \in Job /\ told'[s] <= cur'[s] /\ cur'[s] <= latest
<1>l. Notify(s, latest) => Kept
  BY <1>d, <1>t, NotifyDelivers
<1>1. Kept /\ Moved /\ Reads
  <2>1. CASE Authorize(s) \/ SuggestDifficulty(s) \/ Retune(s)
    <3>1. Kept BY <1>l, <2>1 DEF Authorize, SuggestDifficulty, Retune
    <3>2. Moved /\ spc'[s] # "job" BY <1>t, <2>1 DEF Authorize, SuggestDifficulty, Retune
    <3>3. QED BY <3>1, <3>2
  <2>2. CASE ReceiveJob(s) BY <1>d, <1>t, <2>2 DEF ReceiveJob
  <2>3. CASE ForwardJob(s)
    <3>1. Kept BY <1>d, <2>3, NotifyDelivers DEF ForwardJob
    <3>2. Moved /\ spc'[s] # "job" BY <1>t, <2>3 DEF ForwardJob
    <3>3. QED BY <3>1, <3>2
  <2>4. CASE \/ Connect(s) \/ CheckParent(s) \/ JudgeSubmit(s) \/ PersistShare(s)
             \/ \E j \in Job : Submit(s, j)
    <3>1. UNCHANGED <<told, delivered, cur>>
      BY <2>4 DEF Connect, CheckParent, JudgeSubmit, Judge, PersistShare, Submit
    <3>2. spc'[s] # "job" /\ \A q \in Sessions \ {s} : spc'[q] = spc[q]
      BY <1>t, <2>4 DEF Connect, CheckParent, JudgeSubmit, Judge, PersistShare, Submit
    <3>3. QED BY <1>d, <3>1, <3>2
  <2>5. CASE Forget(s) /\ spc' = [spc EXCEPT ![s] = "closed"]
    BY <1>n, <1>t, <2>5 DEF Forget, NoJob
  <2>6. CASE Resync(s)
    <3>1. CASE streak[s] >= ReconnectThreshold
      BY <2>5, <2>6, <3>1 DEF Resync, AfterStale
    <3>2. CASE ~(streak[s] >= ReconnectThreshold)
      <4>1. streak[s] < ReconnectThreshold
        BY <3>2, JobsAssumption DEF DeliveryInv, TypeOK
      <4>2. Kept BY <1>l, <2>6, <4>1 DEF Resync
      <4>3. cur' = cur /\ spc' = [spc EXCEPT ![s] = "idle"] BY <2>6, <3>2 DEF Resync, AfterStale
      <4>4. Moved /\ spc'[s] # "job" BY <1>t, <4>3
      <4>5. QED BY <4>2, <4>4
    <3>3. QED BY <3>1, <3>2
  <2>7. QED
    BY <2>1, <2>2, <2>3, <2>4, <2>5, <2>6 DEF Session, SessionStep, Disconnect
<1>2. Generations' BY <1>g DEF DeliveryInv, Generations
<1>3. DeliveredIsTold' BY <1>1, <1>g DEF DeliveryInv, DeliveredIsTold
<1>4. QED BY <1>2, <1>3

LEMMA DeliveryInvariant == Spec => []DeliveryInv
<1>1. Init => Generations /\ DeliveredIsTold
  BY JobsAssumption DEF Init, Generations, DeliveredIsTold, Job, NoJob
<1>2. Generations /\ DeliveredIsTold /\ TypeOK /\ JobsInv /\ [Next]_vars => Generations' /\ DeliveredIsTold'
  <2> SUFFICES ASSUME DeliveryInv, [Next]_vars PROVE Generations' /\ DeliveredIsTold'
    BY DEF DeliveryInv
  <2>1. CASE Watch \/ JobAges \/ (\E n \in Nodes : NodeMoves(n)) BY <2>1, WatchKeepsDelivery
  <2>2. CASE \E s \in Sessions : Session(s) BY <2>2, SessionKeepsDelivery
  <2>3. CASE UNCHANGED vars
    BY <2>3 DEF DeliveryInv, Generations, DeliveredIsTold, vars, watchVars, sessionVars
  <2>4. QED BY <2>1, <2>2, <2>3 DEF Next
<1>3. QED BY <1>1, <1>2, JobsInvariant, PTL DEF Spec, DeliveryInv

\* A stale share is put down to the miner's own delay only if this session had
\* sent that miner a job of the current generation.
THEOREM BlameIsFair == Spec => SwitchLagWasTold
<1> DEFINE Fair == \A s \in Sessions :
                     class[s] # "miner_switch_lag" /\ class'[s] = "miner_switch_lag"
                       => told[s] # NoJob /\ genOf[told[s]] = generation
<1>1. DeliveryInv /\ [Next]_vars => Fair
  <2> SUFFICES ASSUME DeliveryInv, [Next]_vars, NEW s \in Sessions,
                      class[s] # "miner_switch_lag", class'[s] = "miner_switch_lag"
               PROVE  told[s] # NoJob /\ genOf[told[s]] = generation
    OBVIOUS
  <2>t. /\ class \in [Sessions -> {"none", "notify_delivery_lag", "miner_switch_lag", "unclassified"}]
        /\ delivered \in [Sessions -> Nat] /\ generation \in Nat
        /\ told \in [Sessions -> Job \cup {NoJob}] /\ genOf \in [Job -> Nat]
    BY DEF DeliveryInv, TypeOK
  <2>1. PICK q \in Sessions : Session(q)
    BY WatchOnlyPublishes DEF Next, vars, sessionVars
  <2>2. JudgeSubmit(q)
    <3>1. CASE \/ Connect(q) \/ Authorize(q) \/ SuggestDifficulty(q) \/ ReceiveJob(q) \/ ForwardJob(q)
               \/ CheckParent(q) \/ PersistShare(q) \/ Retune(q) \/ \E j \in Job : Submit(q, j)
      BY <3>1 DEF Connect, Authorize, SuggestDifficulty, ReceiveJob, ForwardJob, CheckParent,
                  PersistShare, Retune, Submit
    <3>2. CASE Resync(q) \/ Disconnect(q)
      <4>1. class' = [class EXCEPT ![q] = "none"] BY <3>2 DEF Resync, AfterStale, Disconnect, Forget
      <4>2. QED BY <2>t, <4>1
    <3>3. QED BY <2>1, <3>1, <3>2 DEF Session, SessionStep
  <2>3. stale_generation_class(s, sub[s]) = "miner_switch_lag"
    BY <2>t, <2>2 DEF JudgeSubmit, Judge
  <2>4. ~(delivered[s] < generation) BY <2>3 DEF stale_generation_class
  <2>5. QED BY <2>4, <2>t DEF DeliveryInv, DeliveredIsTold, Generations
<1>2. DeliveryInv /\ [Next]_vars => [Fair]_vars BY <1>1
<1>3. QED BY <1>2, DeliveryInvariant, PTL DEF Spec, SwitchLagWasTold
=============================================================================
