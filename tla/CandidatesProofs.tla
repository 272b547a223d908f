-------------------------- MODULE CandidatesProofs --------------------------
(***************************************************************************)
(* For any number of submissions, candidates, restarts and requests in     *)
(* flight: the submitter implements ClaimOnce, and the row of a candidate  *)
(* says of the nodes what is true of them.                                 *)
(***************************************************************************)
EXTENDS Candidates, FiniteSetTheorems, TLAPS

Steps == {"idle", "begin", "claiming", "recheck", "posted", "done", "over"}
Claims == {None, "running", "claimed", "exists", "error"}
OutcomesOfARequest == {None, "waiting", NoAnswer} \cup Answers

Submission == [step : Steps, hash : Hashes \cup {0}, snap : BOOLEAN, claim : Claims,
               primary : OutcomesOfARequest, secondary : OutcomesOfARequest \cup {"skipped"}]

Statuses == {None, "submitted", "submitted_secondary", "submitted_degraded", "relay_failed", "orphaned"}

CandidatesTypeOK ==
    /\ sub \in [Subs -> Submission]
    /\ net \subseteq Nodes \X Subs
    /\ took \subseteq Nodes \X Subs
    /\ posted \subseteq Subs
    /\ health \in BOOLEAN
    /\ row \in [Hashes -> [status : Statuses, by : Subs \cup {0}]]

\* What the fields of a submission say of one another.
Coherent(s) ==
    /\ s.step = "idle" => s = Idle
    /\ s.step # "idle" => s.hash \in Hashes
    /\ s.step \notin {"idle", "over"} => s.primary # None
    /\ s.step \in {"begin", "claiming", "recheck"} => s.secondary = None
    /\ s.step = "recheck" => s.claim = "claimed"
    /\ s.step = "done" => s.secondary # "waiting"
    /\ s.step = "over" => s.primary = None /\ s.secondary = None

AllCoherent == \A p \in Subs : Coherent(sub[p])

\* The submissions that may send their request to B, or have sent it.
Entitled(p) == p \in posted \/ sub[p].claim = "claimed"

\* The claim file stands for one submission.
OneClaimant ==
    /\ \A p \in posted : sub[p].step \in {"posted", "done", "over"}
    /\ \A p \in Subs : Entitled(p) => Key(sub[p].hash) \in spent
    /\ \A p, q \in Subs :
         Entitled(p) /\ Entitled(q) /\ Key(sub[p].hash) = Key(sub[q].hash) => p = q

\* Neither on its way to the node nor taken by it.
Untouched(n, p) == <<n, p>> \notin took \cup net

\* What an outcome says of the request it belongs to.
RequestsKnown ==
    /\ net \cap took = {}
    /\ \A p \in Subs :
         /\ sub[p].step = "idle" => \A n \in Nodes : Untouched(n, p)
         /\ sub[p].primary = "rejected" => Untouched("A", p)
         /\ sub[p].step # "over" /\ sub[p].secondary \in {None, "skipped", "rejected"} =>
              Untouched("B", p)
         /\ sub[p].secondary = "accepted" => <<"B", p>> \in took

\* A row is written when its submission is over.
RowsKnown ==
    \A h \in Hashes : row[h] # NoRow => row[h].by \in Subs /\ sub[row[h].by].step = "over"

CandidatesInv ==
    /\ CandidatesTypeOK
    /\ AllCoherent
    /\ OneClaimant
    /\ RequestsKnown
    /\ RowsKnown
    /\ RowTellsTruth

-----------------------------------------------------------------------------
(***************************************************************************)
(* Steps that move one submission and neither send nor handle a request.   *)
(***************************************************************************)
\* Submission p, and no other, has moved.
Moves(p) ==
    /\ sub' \in [Subs -> Submission]
    /\ \A q \in Subs : q # p => sub'[q] = sub[q]
    /\ UNCHANGED mode

\* What such a move may do to the submission: it claims nothing that is spent, and it
\* reports of its requests no more than it knew.
Modest(p) ==
    /\ Coherent(sub'[p]) /\ sub'[p].step # "idle" /\ sub'[p].hash = sub[p].hash
    /\ sub[p].step = "over" => sub'[p].step = "over"
    /\ p \in posted => sub'[p].step \in {"posted", "done", "over"}
    /\ sub'[p].claim = "claimed" =>
         \/ sub[p].claim = "claimed"
         \/ Key(sub[p].hash) \notin spent /\ Key(sub[p].hash) \in spent'
    /\ sub'[p].primary = "rejected" => sub[p].primary = "rejected"
    /\ sub'[p].step # "over" /\ sub'[p].secondary \in {None, "skipped", "rejected"} =>
         sub[p].step # "over" /\ sub[p].secondary \in {None, "skipped", "rejected"}
    /\ sub'[p].secondary = "accepted" => sub[p].secondary = "accepted"

\* The claims after a modest move.
LEMMA ModestClaims ==
  ASSUME CandidatesInv, NEW p \in Subs, Moves(p), Modest(p), posted' = posted, spent \subseteq spent'
  PROVE  AllCoherent' /\ OneClaimant'
<1>1. AllCoherent'
  BY DEF CandidatesInv, AllCoherent, Moves, Modest
<1>2. \A q \in Subs : sub'[q].hash = sub[q].hash
  BY DEF Moves, Modest
<1>3. \A q \in Subs : Key(sub[q].hash)' = Key(sub[q].hash)
  BY <1>2 DEF Key, Moves
<1>4. \A q \in Subs : Entitled(q)' =>
         Entitled(q) \/ (q = p /\ Key(sub[q].hash) \notin spent /\ Key(sub[q].hash) \in spent')
  BY DEF Entitled, Moves, Modest
<1>5. \A q \in Subs : Entitled(q) => Key(sub[q].hash) \in spent
  BY DEF CandidatesInv, OneClaimant
<1>6. \A q \in posted' : sub'[q].step \in {"posted", "done", "over"}
  BY DEF CandidatesInv, CandidatesTypeOK, OneClaimant, Moves, Modest
<1>7. \A q \in Subs : Entitled(q)' => Key(sub[q].hash)' \in spent'
  BY <1>3, <1>4, <1>5
<1>8. ASSUME NEW q \in Subs, NEW r \in Subs, Entitled(q)', Entitled(r)',
             Key(sub[q].hash)' = Key(sub[r].hash)'
      PROVE  q = r
  <2>1. Key(sub[q].hash) = Key(sub[r].hash)
    BY <1>3, <1>8
  <2>2. CASE Entitled(q) /\ Entitled(r)
    BY <2>1, <2>2 DEF CandidatesInv, OneClaimant
  <2>3. QED
    BY <1>4, <1>5, <1>8, <2>1, <2>2
<1>9. QED
  BY <1>1, <1>6, <1>7, <1>8 DEF OneClaimant

\* A modest move that leaves the requests and the rows alone keeps the invariant.
LEMMA ModestKeeps ==
  ASSUME CandidatesInv, NEW p \in Subs, Moves(p), Modest(p), spent \subseteq spent',
         UNCHANGED <<net, took, posted, row>>, health' \in BOOLEAN
  PROVE  CandidatesInv'
<1>1. CandidatesTypeOK'
  BY DEF CandidatesInv, CandidatesTypeOK, Moves
<1>2. AllCoherent' /\ OneClaimant'
  BY ModestClaims
<1>3. RequestsKnown'
  BY DEF CandidatesInv, RequestsKnown, Untouched, Moves, Modest
<1>4. RowsKnown'
  BY DEF CandidatesInv, RowsKnown, Moves, Modest
<1>5. RowTellsTruth'
  BY DEF CandidatesInv, RowTellsTruth
<1>6. QED
  BY <1>1, <1>2, <1>3, <1>4, <1>5 DEF CandidatesInv

\* The secondary branch up to its request, and its end.
LEMMA SecondaryKeeps ==
  ASSUME CandidatesInv, NEW p \in Subs, SecondaryBegins(p) \/ ClaimReturns(p) \/ SecondaryEnds(p)
  PROVE  CandidatesInv'
<1>1. sub[p] \in Submission /\ Coherent(sub[p]) /\ sub \in [Subs -> Submission] /\ health \in BOOLEAN
  BY DEF CandidatesInv, CandidatesTypeOK, AllCoherent
<1>2. p \in posted => sub[p].step \in {"posted", "done", "over"}
  BY DEF CandidatesInv, OneClaimant
<1>3. /\ mode' = mode /\ net' = net /\ took' = took /\ posted' = posted /\ row' = row
      /\ spent' = spent /\ health' = health
  BY DEF SecondaryBegins, ClaimReturns, SecondaryEnds, nodeVars
<1>4. CASE Skip(p) /\ sub[p].step \in {"begin", "claiming"}
  <2>1. Moves(p) /\ sub'[p] = [sub[p] EXCEPT !.step = "done", !.secondary = "skipped", !.snap = FALSE]
    BY <1>1, <1>3, <1>4 DEF Skip, Moves, Submission, Steps, OutcomesOfARequest
  <2>2. Modest(p)
    BY <1>1, <1>2, <2>1, <1>4 DEF Modest, Coherent, Submission, None
  <2>3. QED
    BY <1>1, <1>3, <2>1, <2>2, ModestKeeps
<1>5. CASE SecondaryBegins(p) /\ ~ Skip(p)
  <2>0. sub' = [sub EXCEPT ![p].step = "claiming", ![p].claim = "running", ![p].snap = FALSE]
         /\ sub[p].step = "begin"
    BY <1>5 DEF SecondaryBegins
  <2>1. Moves(p) /\ sub'[p] = [sub[p] EXCEPT !.step = "claiming", !.claim = "running", !.snap = FALSE]
    BY <1>1, <1>3, <2>0 DEF Moves, Submission, Steps, Claims
  <2>2. Modest(p)
    BY <1>1, <1>2, <2>1, <2>0 DEF Modest, Coherent, Submission
  <2>3. QED
    BY <1>1, <1>3, <2>1, <2>2, ModestKeeps
<1>6. CASE ClaimReturns(p) /\ ~ Skip(p)
  <2>0. sub' = [sub EXCEPT ![p].step = "recheck"] /\ sub[p].step = "claiming" /\ sub[p].claim = "claimed"
    BY <1>6 DEF ClaimReturns
  <2>1. Moves(p) /\ sub'[p] = [sub[p] EXCEPT !.step = "recheck"]
    BY <1>1, <1>3, <2>0 DEF Moves, Submission, Steps
  <2>2. Modest(p)
    BY <1>1, <1>2, <2>1, <2>0 DEF Modest, Coherent, Submission
  <2>3. QED
    BY <1>1, <1>3, <2>1, <2>2, ModestKeeps
<1>7. CASE SecondaryEnds(p)
  <2>0. sub' = [sub EXCEPT ![p].step = "done"] /\ sub[p].step = "posted" /\ sub[p].secondary # "waiting"
    BY <1>7 DEF SecondaryEnds
  <2>1. Moves(p) /\ sub'[p] = [sub[p] EXCEPT !.step = "done"]
    BY <1>1, <1>3, <2>0 DEF Moves, Submission, Steps
  <2>2. Modest(p)
    BY <1>1, <1>2, <2>1, <2>0 DEF Modest, Coherent, Submission
  <2>3. QED
    BY <1>1, <1>3, <2>1, <2>2, ModestKeeps
<1>8. QED
  BY <1>4, <1>5, <1>6, <1>7 DEF SecondaryBegins, ClaimReturns

\* The claim: a marker is created exclusively, so it is claimed by one submission.
LEMMA ClaimKeeps ==
  ASSUME CandidatesInv, NEW p \in Subs, Claim(p)
  PROVE  CandidatesInv'
<1>1. sub[p] \in Submission /\ Coherent(sub[p]) /\ sub \in [Subs -> Submission] /\ health \in BOOLEAN
  BY DEF CandidatesInv, CandidatesTypeOK, AllCoherent
<1>2. p \in posted => sub[p].step \in {"posted", "done", "over"}
  BY DEF CandidatesInv, OneClaimant
<1>3. /\ mode' = mode /\ net' = net /\ took' = took /\ posted' = posted /\ row' = row
      /\ health' = health /\ spent \subseteq spent' /\ sub[p].claim = "running"
  BY DEF Claim, nodeVars
<1>4. PICK result \in {"exists", "claimed", "error"} :
         /\ sub' = [sub EXCEPT ![p].claim = result]
         /\ result = "claimed" => Key(sub[p].hash) \notin spent /\ Key(sub[p].hash) \in spent'
  BY DEF Claim
<1>5. Moves(p) /\ sub'[p] = [sub[p] EXCEPT !.claim = result]
  BY <1>1, <1>3, <1>4 DEF Moves, Submission, Claims
<1>6. sub[p].step \notin {"idle", "recheck"}
  BY <1>1, <1>3 DEF Coherent, Idle, None
<1>7. Modest(p)
  BY <1>1, <1>2, <1>4, <1>5, <1>6 DEF Modest, Coherent, Submission
<1>8. QED
  BY <1>1, <1>3, <1>5, <1>7, ModestKeeps

\* A request whose sender gives up says nothing of the node.
LEMMA GiveUpKeeps ==
  ASSUME CandidatesInv, NEW p \in Subs, NEW field \in {"primary", "secondary"}, GiveUp(p, field)
  PROVE  CandidatesInv'
<1>1. sub[p] \in Submission /\ Coherent(sub[p]) /\ sub \in [Subs -> Submission] /\ health \in BOOLEAN
  BY DEF CandidatesInv, CandidatesTypeOK, AllCoherent
<1>2. p \in posted => sub[p].step \in {"posted", "done", "over"}
  BY DEF CandidatesInv, OneClaimant
<1>3. /\ mode' = mode /\ net' = net /\ took' = took /\ posted' = posted /\ row' = row
      /\ spent' = spent /\ health' = health
  BY DEF GiveUp, nodeVars
<1>4. CASE field = "primary"
  <2>0. sub' = [sub EXCEPT ![p].primary = NoAnswer] /\ sub[p].primary = "waiting"
    BY <1>1, <1>4 DEF GiveUp, Submission
  <2>1. Moves(p) /\ sub'[p] = [sub[p] EXCEPT !.primary = NoAnswer]
    BY <1>1, <1>3, <2>0 DEF Moves, Submission, OutcomesOfARequest, NoAnswer
  <2>2. Modest(p)
    BY <1>1, <1>2, <2>0, <2>1 DEF Modest, Coherent, Submission, Idle, None, NoAnswer
  <2>3. QED
    BY <1>1, <1>3, <2>1, <2>2, ModestKeeps
<1>5. CASE field = "secondary"
  <2>0. sub' = [sub EXCEPT ![p].secondary = NoAnswer] /\ sub[p].secondary = "waiting"
    BY <1>1, <1>5 DEF GiveUp, Submission
  <2>1. Moves(p) /\ sub'[p] = [sub[p] EXCEPT !.secondary = NoAnswer]
    BY <1>1, <1>3, <2>0 DEF Moves, Submission, OutcomesOfARequest, NoAnswer
  <2>2. Modest(p)
    BY <1>1, <1>2, <2>0, <2>1 DEF Modest, Coherent, Submission, Idle, None, NoAnswer
  <2>3. QED
    BY <1>1, <1>3, <2>1, <2>2, ModestKeeps
<1>6. QED
  BY <1>4, <1>5

-----------------------------------------------------------------------------
(***************************************************************************)
(* Steps that send or handle a request, write a row, or crash.             *)
(***************************************************************************)
\* The first request of a submission: nothing was known of it before.
LEMMA StartKeeps ==
  ASSUME CandidatesInv, NEW p \in Subs, NEW h \in Hashes, Start(p, h)
  PROVE  CandidatesInv'
<1> USE DEF CandidatesInv
<1>1. sub[p] = Idle /\ sub \in [Subs -> Submission] /\ health \in BOOLEAN
  BY DEF Start, CandidatesTypeOK
<1>2. PICK s : s = [Idle EXCEPT !.step = IF mode = "single" THEN "done" ELSE "begin",
                                !.hash = h, !.snap = health, !.primary = "waiting"]
  OBVIOUS
<1>3. sub' = [sub EXCEPT ![p] = s] /\ net' = net \cup {<<"A", p>>}
  BY <1>2 DEF Start
<1>4. /\ mode' = mode /\ took' = took /\ posted' = posted /\ row' = row /\ spent' = spent
      /\ health' = health
  BY DEF Start, nodeVars
<1>5. /\ s \in Submission /\ s.step \in {"done", "begin"} /\ s.hash = h /\ s.claim = None
      /\ s.primary = "waiting" /\ s.secondary = None
  BY <1>1, <1>2 DEF Idle, Submission, Steps, Claims, OutcomesOfARequest, None
<1>6. /\ sub' \in [Subs -> Submission] /\ sub'[p] = s
      /\ \A q \in Subs : q # p => sub'[q] = sub[q]
  BY <1>1, <1>3, <1>5
<1>7. sub[p].step = "idle" /\ sub[p].claim = None
  BY <1>1 DEF Idle
<1>8. p \notin posted
  BY <1>7 DEF OneClaimant
<1>9. CandidatesTypeOK'
  BY <1>3, <1>4, <1>6 DEF CandidatesTypeOK, Nodes
<1>10. AllCoherent'
  BY <1>5, <1>6 DEF AllCoherent, Coherent, None
<1>11. OneClaimant'
  <2>1. \A q \in Subs : Entitled(q)' => q # p /\ Entitled(q)
    BY <1>4, <1>5, <1>6, <1>8 DEF Entitled, None
  <2>2. \A q \in Subs : q # p => Key(sub[q].hash)' = Key(sub[q].hash)
    BY <1>4, <1>6 DEF Key
  <2>3. \A q \in posted' : sub'[q].step \in {"posted", "done", "over"}
    BY <1>4, <1>6, <1>8 DEF OneClaimant, CandidatesTypeOK
  <2>4. QED
    BY <1>4, <2>1, <2>2, <2>3 DEF OneClaimant
<1>12. RequestsKnown'
  <2>1. \A n \in Nodes : Untouched(n, p)
    BY <1>7 DEF RequestsKnown
  <2>2. net' \cap took' = {}
    BY <1>3, <1>4, <2>1 DEF RequestsKnown, Untouched, Nodes
  <2>3. \A q \in Subs, n \in Nodes : q # p => (Untouched(n, q)' <=> Untouched(n, q))
    BY <1>3, <1>4 DEF Untouched
  <2>4. Untouched("B", p)'
    BY <1>3, <1>4, <2>1 DEF Untouched, Nodes
  <2>5. QED
    BY <1>4, <1>5, <1>6, <2>2, <2>3, <2>4 DEF RequestsKnown, Nodes, None
<1>13. RowsKnown'
  BY <1>4, <1>6, <1>7 DEF RowsKnown
<1>14. RowTellsTruth'
  <2>1. \A g \in Hashes : row[g] # NoRow => row[g].by # p
    BY <1>7 DEF RowsKnown
  <2>2. QED
    BY <1>3, <1>4, <2>1 DEF RowTellsTruth
<1>15. QED
  BY <1>9, <1>10, <1>11, <1>12, <1>13, <1>14

\* The request to B: only the submission that has the claim gets here.
LEMMA PostKeeps ==
  ASSUME CandidatesInv, NEW p \in Subs, PostSecondary(p)
  PROVE  CandidatesInv'
<1> USE DEF CandidatesInv
<1>1. sub[p] \in Submission /\ Coherent(sub[p]) /\ sub \in [Subs -> Submission] /\ health \in BOOLEAN
  BY DEF CandidatesTypeOK, AllCoherent
<1>2. sub[p].step = "recheck" /\ p \notin posted
  BY DEF PostSecondary, OneClaimant
<1>3. mode' = mode /\ took' = took /\ row' = row /\ spent' = spent /\ health' = health
  BY DEF PostSecondary, nodeVars
<1>4. CASE Skip(p) /\ UNCHANGED <<net, posted>>
  <2>1. Moves(p) /\ sub'[p] = [sub[p] EXCEPT !.step = "done", !.secondary = "skipped", !.snap = FALSE]
    BY <1>1, <1>3, <1>4 DEF Skip, Moves, Submission, Steps, OutcomesOfARequest
  <2>2. Modest(p)
    BY <1>1, <1>2, <2>1, <1>4 DEF Modest, Coherent, Submission, None
  <2>3. QED
    BY <1>1, <1>3, <1>4, <2>1, <2>2, ModestKeeps
<1>5. CASE /\ sub' = [sub EXCEPT ![p].step = "posted", ![p].secondary = "waiting"]
           /\ net' = net \cup {<<"B", p>>}
           /\ posted' = posted \cup {p}
  <2>1. Moves(p) /\ sub'[p] = [sub[p] EXCEPT !.step = "posted", !.secondary = "waiting"]
    BY <1>1, <1>3, <1>5 DEF Moves, Submission, Steps, OutcomesOfARequest
  <2>2. /\ sub'[p].step = "posted" /\ sub'[p].secondary = "waiting" /\ sub'[p].hash = sub[p].hash
        /\ sub'[p].claim = sub[p].claim /\ sub'[p].primary = sub[p].primary
        /\ sub[p].claim = "claimed" /\ sub[p].secondary = None
    BY <1>1, <1>2, <2>1 DEF Submission, Coherent
  <2>3. CandidatesTypeOK'
    BY <1>3, <1>5, <2>1 DEF CandidatesTypeOK, Moves, Nodes
  <2>4. AllCoherent'
    <3>1. Coherent(sub'[p])
      BY <1>1, <1>2, <2>2 DEF Coherent
    <3>2. QED
      BY <2>1, <3>1 DEF AllCoherent, Moves
  <2>5. OneClaimant'
    <3>1. \A q \in Subs : Entitled(q)' => Entitled(q)
      BY <1>5, <2>1, <2>2 DEF Entitled, Moves
    <3>2. \A q \in Subs : Key(sub[q].hash)' = Key(sub[q].hash)
      BY <1>3, <2>1, <2>2 DEF Key, Moves
    <3>3. \A q \in posted' : sub'[q].step \in {"posted", "done", "over"}
      BY <1>5, <2>1, <2>2 DEF OneClaimant, CandidatesTypeOK, Moves
    <3>4. QED
      BY <1>3, <3>1, <3>2, <3>3 DEF OneClaimant
  <2>6. RequestsKnown'
    <3>1. Untouched("B", p)
      BY <1>2, <2>2 DEF RequestsKnown, None
    <3>2. net' \cap took' = {}
      BY <1>3, <1>5, <3>1 DEF RequestsKnown, Untouched
    <3>3. \A q \in Subs, n \in Nodes : q # p => (Untouched(n, q)' <=> Untouched(n, q))
      BY <1>3, <1>5 DEF Untouched
    <3>4. Untouched("A", p)' <=> Untouched("A", p)
      BY <1>3, <1>5 DEF Untouched
    <3>5. QED
      BY <1>3, <2>1, <2>2, <3>2, <3>3, <3>4 DEF RequestsKnown, Moves, Nodes, None
  <2>7. \A g \in Hashes : row[g] # NoRow => row[g].by # p
    BY <1>2 DEF RowsKnown
  <2>8. RowsKnown'
    BY <1>3, <2>1, <2>7 DEF RowsKnown, Moves
  <2>9. RowTellsTruth'
    BY <1>3, <1>5, <2>7 DEF RowTellsTruth
  <2>10. QED
    BY <2>3, <2>4, <2>5, <2>6, <2>8, <2>9
<1>6. QED
  BY <1>4, <1>5 DEF PostSecondary

\* A node handles a request: the answer, if anybody waits for it, is what it has done.
LEMMA HandlesKeeps ==
  ASSUME CandidatesInv, NEW n \in Nodes, NEW p \in Subs, NodeHandles(n, p)
  PROVE  CandidatesInv'
<1> USE DEF CandidatesInv
<1>1. sub[p] \in Submission /\ Coherent(sub[p]) /\ sub \in [Subs -> Submission] /\ health \in BOOLEAN
  BY DEF CandidatesTypeOK, AllCoherent
<1>2. <<n, p>> \in net /\ net' = net \ {<<n, p>>}
  BY DEF NodeHandles
<1>3. <<n, p>> \notin took
  BY <1>2 DEF RequestsKnown
<1>4. mode' = mode /\ row' = row /\ spent' = spent /\ health' = health /\ posted' = posted
  BY DEF NodeHandles
<1>5. PICK answer \in Answers :
         /\ took' = IF answer # "rejected" THEN took \cup {<<n, p>>} ELSE took
         /\ Deliver(n, p, answer)
  BY DEF NodeHandles
<1>6. /\ sub'[p] \in Submission
      /\ \A q \in Subs : q # p => sub'[q] = sub[q]
      /\ sub' \in [Subs -> Submission]
      /\ sub'[p].step = sub[p].step /\ sub'[p].hash = sub[p].hash /\ sub'[p].claim = sub[p].claim
      /\ n = "A" => /\ sub'[p].secondary = sub[p].secondary
                    /\ \/ sub'[p].primary = sub[p].primary
                       \/ sub[p].primary = "waiting" /\ sub'[p].primary = answer
      /\ n = "B" => /\ sub'[p].primary = sub[p].primary
                    /\ \/ sub'[p].secondary = sub[p].secondary
                       \/ sub[p].secondary = "waiting" /\ sub'[p].secondary = answer
      /\ sub' = sub \/ sub[p].primary = "waiting" \/ sub[p].secondary = "waiting"
  <2>1. CASE sub' = sub
    BY <1>1, <2>1
  <2>2. CASE n = "A" /\ sub' # sub
    <3>1. sub[p].primary = "waiting" /\ sub' = [sub EXCEPT ![p].primary = answer]
      BY <1>1, <1>5, <2>2 DEF Deliver, Submission
    <3>2. sub'[p] = [sub[p] EXCEPT !.primary = answer]
      BY <1>1, <3>1
    <3>3. QED
      BY <1>1, <1>5, <2>2, <3>1, <3>2 DEF Submission, OutcomesOfARequest
  <2>3. CASE n = "B" /\ sub' # sub
    <3>1. sub[p].secondary = "waiting" /\ sub' = [sub EXCEPT ![p].secondary = answer]
      BY <1>1, <1>5, <2>3 DEF Deliver, Submission
    <3>2. sub'[p] = [sub[p] EXCEPT !.secondary = answer]
      BY <1>1, <3>1
    <3>3. QED
      BY <1>1, <1>5, <2>3, <3>1, <3>2 DEF Submission, OutcomesOfARequest
  <2>4. QED
    BY <2>1, <2>2, <2>3 DEF Nodes
<1>7. CandidatesTypeOK'
  BY <1>2, <1>4, <1>5, <1>6 DEF CandidatesTypeOK
<1>8. AllCoherent'
  <2>1. CASE sub' = sub
    BY <2>1 DEF AllCoherent
  <2>2. CASE sub' # sub
    <3>1. sub[p].step \notin {"idle", "over"}
      BY <1>1, <1>6, <2>2 DEF Coherent, Idle, None
    <3>2. answer # None /\ answer # "waiting"
      BY DEF Answers, None
    <3>3. Coherent(sub'[p])
      BY <1>1, <1>6, <3>1, <3>2 DEF Coherent, Nodes, None
    <3>4. QED
      BY <1>6, <3>3 DEF AllCoherent
  <2>3. QED
    BY <2>1, <2>2
<1>9. OneClaimant'
  <2>1. \A q \in Subs : /\ Entitled(q)' <=> Entitled(q)
                        /\ sub'[q].step = sub[q].step
                        /\ Key(sub[q].hash)' = Key(sub[q].hash)
    BY <1>4, <1>6 DEF Entitled, Key
  <2>2. QED
    BY <1>4, <2>1 DEF OneClaimant, CandidatesTypeOK
<1>10. \A m, q : Untouched(m, q) => Untouched(m, q)'
  BY <1>2, <1>5 DEF Untouched
<1>11. answer = "rejected" => Untouched(n, p)'
  BY <1>2, <1>3, <1>5 DEF Untouched
<1>12. answer = "accepted" => <<n, p>> \in took'
  BY <1>5
<1>13. took \subseteq took'
  BY <1>5
<1>14. RequestsKnown'
  <2>1. net' \cap took' = {}
    BY <1>2, <1>5 DEF RequestsKnown
  <2>2. ASSUME NEW q \in Subs, q # p
        PROVE  /\ sub'[q].step = "idle" => \A m \in Nodes : Untouched(m, q)'
               /\ sub'[q].primary = "rejected" => Untouched("A", q)'
               /\ sub'[q].step # "over" /\ sub'[q].secondary \in {None, "skipped", "rejected"} =>
                    Untouched("B", q)'
               /\ sub'[q].secondary = "accepted" => <<"B", q>> \in took'
    BY <1>6, <1>10, <1>13, <2>2 DEF RequestsKnown
  <2>3. /\ sub'[p].step = "idle" => \A m \in Nodes : Untouched(m, p)'
        /\ sub'[p].primary = "rejected" => Untouched("A", p)'
    BY <1>6, <1>10, <1>11 DEF RequestsKnown, Nodes
  <2>4. /\ sub'[p].step # "over" /\ sub'[p].secondary \in {None, "skipped", "rejected"} =>
             Untouched("B", p)'
        /\ sub'[p].secondary = "accepted" => <<"B", p>> \in took'
    BY <1>6, <1>10, <1>11, <1>12, <1>13 DEF RequestsKnown, Nodes, Answers, None
  <2>5. QED
    BY <2>1, <2>2, <2>3, <2>4 DEF RequestsKnown
<1>15. RowsKnown'
  BY <1>4, <1>6 DEF RowsKnown
<1>16. RowTellsTruth'
  <2>1. \A h \in Hashes : row[h] # NoRow =>
          /\ row[h].status = "orphaned" => \A m \in Nodes : Untouched(m, row[h].by)
          /\ row[h].status = "submitted_secondary" => <<"B", row[h].by>> \in took
    BY DEF RowTellsTruth, Untouched
  <2>2. \A h \in Hashes : row[h] # NoRow =>
          /\ row[h].status = "orphaned" => \A m \in Nodes : <<m, row[h].by>> \notin took' \cup net'
          /\ row[h].status = "submitted_secondary" => <<"B", row[h].by>> \in took'
    BY <1>10, <1>13, <2>1 DEF Untouched
  <2>3. QED
    BY <1>4, <2>2 DEF RowTellsTruth, Untouched
<1>17. QED
  BY <1>7, <1>8, <1>9, <1>14, <1>15, <1>16

\* What is left of a submission that is over.
LEMMA OverFields ==
  ASSUME NEW p \in Subs, sub[p].hash \in Hashes
  PROVE  /\ Over(p).step = "over" /\ Over(p).hash = sub[p].hash
         /\ Over(p).claim \in {None, "running"}
         /\ Over(p).primary = None /\ Over(p).secondary = None /\ Over(p) \in Submission
  BY DEF Over, Unheard, Idle, Submission, Steps, Claims, OutcomesOfARequest

\* The row is written from the outcomes of a submission that is over.
LEMMA RecordKeeps ==
  ASSUME CandidatesInv, NEW p \in Subs, Record(p)
  PROVE  CandidatesInv'
<1> USE DEF CandidatesInv
<1>1. sub[p] \in Submission /\ Coherent(sub[p]) /\ sub \in [Subs -> Submission] /\ health \in BOOLEAN
  BY DEF CandidatesTypeOK, AllCoherent
<1>2. /\ mode' = mode /\ net' = net /\ took' = took /\ spent' = spent /\ health' = health
      /\ posted' = posted
  BY DEF Record, nodeVars
<1>3. /\ sub[p].step = "done" /\ sub[p].primary \notin {None, "waiting"}
      /\ sub[p].secondary # "waiting" /\ sub[p].hash \in Hashes
  BY <1>1 DEF Record, Coherent
<1>4. sub' = [sub EXCEPT ![p] = Over(p)]
  BY DEF Record
<1>5. /\ Over(p).step = "over" /\ Over(p).hash = sub[p].hash /\ Over(p).claim \in {None, "running"}
      /\ Over(p).primary = None /\ Over(p).secondary = None /\ Over(p) \in Submission
  BY <1>3, OverFields
<1>6. Moves(p) /\ sub'[p] = Over(p)
  BY <1>1, <1>2, <1>4, <1>5 DEF Moves
<1>7. Modest(p)
  BY <1>3, <1>5, <1>6 DEF Modest, Coherent, None
<1>8. AllCoherent' /\ OneClaimant'
  BY <1>2, <1>6, <1>7, ModestClaims
<1>9. RequestsKnown'
  BY <1>2, <1>6, <1>7 DEF RequestsKnown, Untouched, Moves, Modest
<1>10. CASE row' = row
  <2>1. CandidatesTypeOK'
    BY <1>2, <1>6, <1>10 DEF CandidatesTypeOK, Moves
  <2>2. RowsKnown' /\ RowTellsTruth'
    BY <1>2, <1>6, <1>7, <1>10 DEF RowsKnown, RowTellsTruth, Moves, Modest
  <2>3. QED
    BY <1>8, <1>9, <2>1, <2>2
<1>11. CASE row' # row
  <2>1. row' = [row EXCEPT ![sub[p].hash] = [status |-> initial_status(p), by |-> p]]
    BY <1>1, <1>3, <1>11 DEF Record, record_block_candidate, CandidatesTypeOK
  <2>0. /\ Response(p).ok <=> "accepted" \in Outcomes(p)
        /\ Response(p).authority_ok <=> sub[p].primary = "accepted"
        /\ Response(p).relay_failed <=> "local_canonical_relay_failed" \in Outcomes(p)
        /\ Response(p).ambiguous <=> NoAnswer \in Outcomes(p)
    BY DEF Response
  <2>2. initial_status(p) \in Statuses
    BY DEF initial_status, Statuses
  <2>3. CandidatesTypeOK'
    BY <1>2, <1>3, <1>6, <2>1, <2>2 DEF CandidatesTypeOK, Moves
  <2>4. initial_status(p) = "orphaned" => \A n \in Nodes : <<n, p>> \notin took \cup net
    <3>1. initial_status(p) = "orphaned" =>
             /\ "accepted" \notin Outcomes(p)
             /\ "local_canonical_relay_failed" \notin Outcomes(p)
             /\ NoAnswer \notin Outcomes(p)
      BY <2>0 DEF initial_status
    <3>2. initial_status(p) = "orphaned" =>
             sub[p].primary = "rejected" /\ sub[p].secondary \in {None, "skipped", "rejected"}
      BY <1>1, <1>3, <3>1 DEF Outcomes, Submission, OutcomesOfARequest, Answers, NoAnswer
    <3>3. QED
      BY <1>3, <3>2 DEF RequestsKnown, Untouched, Nodes
  <2>5. initial_status(p) = "submitted_secondary" => <<"B", p>> \in took
    <3>1. initial_status(p) = "submitted_secondary" => sub[p].secondary = "accepted"
      BY <2>0 DEF initial_status, Outcomes
    <3>2. QED
      BY <3>1 DEF RequestsKnown
  <2>6. RowsKnown'
    BY <1>3, <1>5, <1>6, <2>1 DEF RowsKnown, Moves, CandidatesTypeOK
  <2>7. RowTellsTruth'
    BY <1>2, <1>3, <2>1, <2>4, <2>5 DEF RowTellsTruth, CandidatesTypeOK
  <2>8. QED
    BY <1>8, <1>9, <2>3, <2>6, <2>7
<1>12. QED
  BY <1>10, <1>11

\* A restart: what the nodes and the files have is kept, what the bridge knew is gone.
LEMMA CrashKeeps ==
  ASSUME CandidatesInv, Crash
  PROVE  CandidatesInv'
<1> USE DEF CandidatesInv
<1>1. sub \in [Subs -> Submission] /\ \A q \in Subs : Coherent(sub[q])
  BY DEF CandidatesTypeOK, AllCoherent
<1>2. /\ mode' = mode /\ net' = net /\ took' = took /\ spent' = spent /\ posted' = posted
      /\ row' = row /\ health' = FALSE
  BY DEF Crash, nodeVars, NoHealth
<1>3. sub' = [q \in Subs |-> IF sub[q] = Idle THEN Idle ELSE [Over(q) EXCEPT !.claim = None]]
  BY DEF Crash
<1>4. ASSUME NEW q \in Subs, sub[q] # Idle
      PROVE  /\ sub'[q] \in Submission /\ sub'[q].step = "over" /\ sub'[q].hash = sub[q].hash
             /\ sub'[q].hash \in Hashes
             /\ sub'[q].claim = None /\ sub'[q].primary = None /\ sub'[q].secondary = None
  <2>1. sub[q].hash \in Hashes
    BY <1>1, <1>4 DEF Coherent, Submission
  <2>2. sub'[q] = [Over(q) EXCEPT !.claim = None]
    BY <1>3, <1>4
  <2>3. QED
    BY <2>1, <2>2, OverFields DEF Submission, Claims
<1>5. \A q \in Subs : sub[q] = Idle => sub'[q] = Idle
  BY <1>3
<1>6. Idle \in Submission
  BY DEF Idle, Submission, Steps, Claims, OutcomesOfARequest, None
<1>7. sub' \in [Subs -> Submission]
  BY <1>3, <1>4, <1>5, <1>6
<1>8. CandidatesTypeOK'
  BY <1>2, <1>7 DEF CandidatesTypeOK
<1>9. AllCoherent'
  <2>1. Coherent(Idle)
    BY DEF Coherent, Idle
  <2>2. \A q \in Subs : sub[q] # Idle => Coherent(sub'[q])
    BY <1>4 DEF Coherent
  <2>3. QED
    BY <1>5, <2>1, <2>2 DEF AllCoherent
<1>10. \A q \in Subs : sub'[q].hash = sub[q].hash /\ sub'[q].claim # "claimed"
  BY <1>4, <1>5 DEF Idle, None
<1>11. OneClaimant'
  <2>1. \A q \in Subs : Entitled(q)' => Entitled(q)
    BY <1>2, <1>10 DEF Entitled
  <2>2. \A q \in Subs : Key(sub[q].hash)' = Key(sub[q].hash)
    BY <1>2, <1>10 DEF Key
  <2>3. \A q \in posted : q \in Subs /\ sub[q].step # "idle"
    BY DEF OneClaimant, CandidatesTypeOK
  <2>4. \A q \in posted' : sub'[q].step \in {"posted", "done", "over"}
    BY <1>2, <1>4, <2>3 DEF Idle
  <2>5. QED
    BY <1>2, <2>1, <2>2, <2>4 DEF OneClaimant
<1>12. RequestsKnown'
  <2>1. ASSUME NEW q \in Subs
        PROVE  /\ sub'[q].step = "idle" => \A n \in Nodes : Untouched(n, q)'
               /\ sub'[q].primary # "rejected" /\ sub'[q].secondary # "accepted"
               /\ sub'[q].step # "over" => Untouched("B", q)'
    <3>1. CASE sub[q] = Idle
      <4>0. sub[q].step = "idle"
        BY <3>1 DEF Idle
      <4>1. \A n \in Nodes : Untouched(n, q)
        BY <4>0 DEF RequestsKnown
      <4>2. \A n \in Nodes : Untouched(n, q)'
        BY <1>2, <4>1 DEF Untouched
      <4>3. sub'[q].primary = None /\ sub'[q].secondary = None
        BY <1>5, <3>1 DEF Idle
      <4>4. QED
        BY <4>2, <4>3 DEF Nodes, None
    <3>2. CASE sub[q] # Idle
      BY <1>4, <3>2 DEF None
    <3>3. QED
      BY <3>1, <3>2
  <2>2. net' \cap took' = {}
    BY <1>2 DEF RequestsKnown
  <2>3. QED
    BY <2>1, <2>2 DEF RequestsKnown
<1>13. RowsKnown'
  <2>1. \A h \in Hashes : row[h] # NoRow => sub[row[h].by] # Idle
    BY DEF RowsKnown, Idle
  <2>2. QED
    BY <1>2, <1>4, <2>1 DEF RowsKnown
<1>14. RowTellsTruth'
  BY <1>2 DEF RowTellsTruth
<1>15. QED
  BY <1>8, <1>9, <1>11, <1>12, <1>13, <1>14

-----------------------------------------------------------------------------
LEMMA CandidatesStep ==
  ASSUME CandidatesInv, [Next]_candidateVars
  PROVE  CandidatesInv'
<1>1. CASE /\ UNCHANGED <<mode, net, took, posted, sub, row, spent>>
           /\ health' \in BOOLEAN
  BY <1>1 DEF CandidatesInv, CandidatesTypeOK, AllCoherent, OneClaimant, Entitled, Key,
              RequestsKnown, Untouched, RowsKnown, RowTellsTruth
<1>2. health \in BOOLEAN
  BY DEF CandidatesInv, CandidatesTypeOK
<1>3. CASE UNCHANGED candidateVars \/ (\E n \in Nodes : NodeMoves(n)) \/ CircuitCoolsDown
  BY <1>1, <1>2, <1>3 DEF candidateVars, NodeMoves, CircuitCoolsDown, nodeVars
<1>4. CASE refresh_health_once
  BY <1>1, <1>4 DEF refresh_health_once, secondary_submit_eligibility, NoHealth, nodeVars
<1>5. QED
  BY <1>3, <1>4, HandlesKeeps, StartKeeps, SecondaryKeeps, ClaimKeeps, PostKeeps, RecordKeeps,
     GiveUpKeeps, CrashKeeps DEF Next

LEMMA CandidatesInit ==
  ASSUME Init
  PROVE  CandidatesInv
<1>1. Idle \in Submission /\ Coherent(Idle)
  BY DEF Idle, Submission, Steps, Claims, OutcomesOfARequest, None, Coherent
<1>2. CandidatesTypeOK
  BY <1>1 DEF Init, CandidatesTypeOK, NoHealth, NoRow, Statuses
<1>3. AllCoherent /\ OneClaimant /\ RequestsKnown
  BY <1>1 DEF Init, AllCoherent, OneClaimant, Entitled, RequestsKnown, Untouched, Idle, None
<1>4. RowsKnown /\ RowTellsTruth
  BY DEF Init, RowsKnown, RowTellsTruth
<1>5. QED
  BY <1>2, <1>3, <1>4 DEF CandidatesInv

\* Claims, requests and outcomes of the submissions fit together at all times.
THEOREM CandidatesInvariant == Spec => []CandidatesInv
  BY CandidatesInit, CandidatesStep, PTL DEF Spec

\* submit_candidate and record_block_candidate: a row that starts as orphaned, and is
\* never looked at again, belongs to a candidate that no node has from this
\* submission nor will get from a request on its way; submitted_secondary means
\* that B has taken it.
THEOREM RowsAreTrue == Spec => []RowTellsTruth
<1>1. CandidatesInv => RowTellsTruth
  BY DEF CandidatesInv
<1>2. QED
  BY <1>1, CandidatesInvariant, PTL

-----------------------------------------------------------------------------
(***************************************************************************)
(* The refinement.                                                         *)
(***************************************************************************)
\* The submissions that have posted a request for a key.
Posters(k) == {p \in posted : Key(sub[p].hash) = k}

\* Steps that post nothing leave the posts of every key alone.
LEMMA PostsUnchanged ==
  ASSUME CandidatesInv, posted' = posted, mode' = mode,
         \A p \in posted : sub'[p].hash = sub[p].hash
  PROVE  [k \in Keys |-> Cardinality(Posters(k))]' = [k \in Keys |-> Cardinality(Posters(k))]
<1>1. ASSUME NEW k PROVE Posters(k)' = Posters(k)
  BY DEF Posters, Key
<1>2. QED
  BY <1>1 DEF Keys

\* The candidate of a submission that has posted is settled.
LEMMA HashSettled ==
  ASSUME CandidatesInv, [Next]_candidateVars
  PROVE  mode' = mode /\ \A p \in posted : sub'[p].hash = sub[p].hash
<1> USE DEF CandidatesInv, CandidatesTypeOK
<1>1. \A p \in posted : p \in Subs /\ sub[p] \in Submission /\ sub[p].step # "idle"
  BY DEF OneClaimant
<1>2. CASE UNCHANGED candidateVars \/ (\E n \in Nodes : NodeMoves(n)) \/ CircuitCoolsDown
             \/ refresh_health_once
  BY <1>2 DEF candidateVars, NodeMoves, CircuitCoolsDown, refresh_health_once
<1>3. ASSUME NEW n \in Nodes, NEW p \in Subs, NodeHandles(n, p)
      PROVE  mode' = mode /\ \A q \in posted : sub'[q].hash = sub[q].hash
  <2>1. PICK answer \in Answers : Deliver(n, p, answer)
    BY <1>3 DEF NodeHandles
  <2>2. CASE n = "A"
    BY <1>1, <1>3, <2>1, <2>2 DEF NodeHandles, Deliver, Submission
  <2>3. CASE n = "B"
    BY <1>1, <1>3, <2>1, <2>3 DEF NodeHandles, Deliver, Submission
  <2>4. QED
    BY <2>2, <2>3 DEF Nodes
<1>4. ASSUME NEW p \in Subs, NEW h \in Hashes, Start(p, h)
      PROVE  mode' = mode /\ \A q \in posted : sub'[q].hash = sub[q].hash
  <2>1. sub[p].step = "idle"
    BY <1>4 DEF Start, Idle
  <2>2. p \notin posted
    BY <1>1, <2>1
  <2>3. QED
    BY <1>1, <1>4, <2>2 DEF Start
<1>5. ASSUME NEW p \in Subs,
             SecondaryBegins(p) \/ ClaimReturns(p) \/ PostSecondary(p) \/ SecondaryEnds(p)
      PROVE  mode' = mode /\ \A q \in posted : sub'[q].hash = sub[q].hash
  <2>1. CASE SecondaryBegins(p)
    <3>1. mode' = mode
      BY <2>1 DEF SecondaryBegins
    <3>2. CASE Skip(p)
      BY <1>1, <3>1, <3>2 DEF Skip, Submission
    <3>3. CASE sub' = [sub EXCEPT ![p].step = "claiming", ![p].claim = "running", ![p].snap = FALSE]
      BY <1>1, <3>1, <3>3 DEF Submission
    <3>4. QED
      BY <2>1, <3>2, <3>3 DEF SecondaryBegins
  <2>2. CASE ClaimReturns(p)
    <3>1. mode' = mode
      BY <2>2 DEF ClaimReturns
    <3>2. CASE Skip(p)
      BY <1>1, <3>1, <3>2 DEF Skip, Submission
    <3>3. CASE sub' = [sub EXCEPT ![p].step = "recheck"]
      BY <1>1, <3>1, <3>3 DEF Submission
    <3>4. QED
      BY <2>2, <3>2, <3>3 DEF ClaimReturns
  <2>3. CASE PostSecondary(p)
    BY <1>1, <2>3 DEF PostSecondary, Skip, Submission
  <2>4. CASE SecondaryEnds(p)
    BY <1>1, <2>4 DEF SecondaryEnds, Submission
  <2>5. QED
    BY <1>5, <2>1, <2>2, <2>3, <2>4
<1>6. ASSUME NEW p \in Subs, Claim(p)
      PROVE  mode' = mode /\ \A q \in posted : sub'[q].hash = sub[q].hash
  BY <1>1, <1>6 DEF Claim, Submission
<1>7. ASSUME NEW p \in Subs, Record(p)
      PROVE  mode' = mode /\ \A q \in posted : sub'[q].hash = sub[q].hash
  <2>1. Over(p).hash = sub[p].hash
    BY DEF Over, Idle
  <2>2. QED
    BY <1>1, <1>7, <2>1 DEF Record
<1>8. ASSUME NEW p \in Subs, NEW field \in {"primary", "secondary"}, GiveUp(p, field)
      PROVE  mode' = mode /\ \A q \in posted : sub'[q].hash = sub[q].hash
  <2>1. CASE field = "primary"
    BY <1>1, <1>8, <2>1 DEF GiveUp, Submission
  <2>2. CASE field = "secondary"
    BY <1>1, <1>8, <2>2 DEF GiveUp, Submission
  <2>3. QED
    BY <2>1, <2>2
<1>9. ASSUME Crash
      PROVE  mode' = mode /\ \A q \in posted : sub'[q].hash = sub[q].hash
  <2>1. \A q \in Subs : [Over(q) EXCEPT !.claim = None].hash = sub[q].hash
    BY DEF Over, Idle
  <2>2. \A q \in posted : sub'[q] = [Over(q) EXCEPT !.claim = None]
    BY <1>1, <1>9 DEF Crash, Idle
  <2>3. QED
    BY <1>1, <1>9, <2>1, <2>2 DEF Crash
<1>10. QED
  BY <1>2, <1>3, <1>4, <1>5, <1>6, <1>7, <1>8, <1>9 DEF Next

\* The claim spends its key or does nothing the control can see.
LEMMA ClaimSpends ==
  ASSUME CandidatesInv, NEW p \in Subs, Claim(p)
  PROVE  spent' = spent \/ (Key(sub[p].hash) \in Keys /\ Key(sub[p].hash) \notin spent
                              /\ spent' = spent \cup {Key(sub[p].hash)})
<1>1. sub[p].step # "idle"
  <2>1. sub[p].claim = "running" /\ Coherent(sub[p])
    BY DEF CandidatesInv, AllCoherent, Claim
  <2>2. QED
    BY <2>1 DEF Coherent, Idle, None
<1>2. sub[p].hash \in Hashes
  BY <1>1 DEF CandidatesInv, AllCoherent, Coherent
<1>3. QED
  BY <1>2 DEF Claim, Key, Keys

\* The request goes out for a key that is spent and has no request yet.
LEMMA PostPosts ==
  ASSUME CandidatesInv, NEW p \in Subs, PostSecondary(p), posted' # posted
  PROVE  \E k \in Keys :
           /\ k \in spent /\ Posters(k) = {} /\ spent' = spent
           /\ Posters(k)' = {p}
           /\ \A l \in Keys : l # k => Posters(l)' = Posters(l)
<1> DEFINE k == Key(sub[p].hash)
<1>1. sub[p].step = "recheck" /\ posted' = posted \cup {p} /\ spent' = spent
  BY DEF PostSecondary
<1>2. sub[p].claim = "claimed" /\ sub[p].hash \in Hashes
  BY <1>1 DEF CandidatesInv, AllCoherent, Coherent
<1>3. Entitled(p) /\ p \notin posted /\ k \in spent /\ k \in Keys
  BY <1>1, <1>2 DEF Entitled, CandidatesInv, OneClaimant, Key, Keys
<1>4. Posters(k) = {}
  <2>1. ASSUME NEW q \in posted, Key(sub[q].hash) = k PROVE FALSE
    <3>1. q \in Subs /\ Entitled(q)
      BY DEF Entitled, CandidatesInv, CandidatesTypeOK
    <3>2. q = p
      BY <1>3, <2>1, <3>1 DEF CandidatesInv, OneClaimant
    <3>3. QED
      BY <1>3, <3>2
  <2>2. QED
    BY <2>1 DEF Posters
<1>5. \A q \in posted' : Key(sub[q].hash)' = Key(sub[q].hash)
  <2>1. mode' = mode /\ \A q \in posted : sub'[q].hash = sub[q].hash
    BY HashSettled DEF Next
  <2>2. sub'[p].hash = sub[p].hash
    BY DEF PostSecondary, Skip, CandidatesInv, CandidatesTypeOK, Submission
  <2>3. QED
    BY <1>1, <2>1, <2>2 DEF Key
<1>6. \A l \in Keys : Posters(l)' = IF l = k THEN Posters(l) \cup {p} ELSE Posters(l)
  BY <1>1, <1>5 DEF Posters
<1>7. QED
  BY <1>1, <1>3, <1>4, <1>6

\* Every step of the submitter is a step of the control, or none of its business.
LEMMA RefinesStep ==
  ASSUME CandidatesInv, [Next]_candidateVars
  PROVE  [Control!Next]_<<spent, [k \in Keys |-> Cardinality(Posters(k))]>>
<1> DEFINE Posts == [k \in Keys |-> Cardinality(Posters(k))]
<1>1. CASE posted' = posted /\ spent' = spent
  BY <1>1, HashSettled, PostsUnchanged
<1>2. CASE posted' # posted
  <2>1. PICK p \in Subs : PostSecondary(p)
    BY <1>2 DEF Next, candidateVars, NodeMoves, NodeHandles, refresh_health_once, Start,
                SecondaryBegins, Claim, ClaimReturns, SecondaryEnds, Record, GiveUp,
                CircuitCoolsDown, Crash
  <2>2. PICK k \in Keys : /\ k \in spent /\ Posters(k) = {} /\ spent' = spent
                          /\ Posters(k)' = {p}
                          /\ \A l \in Keys : l # k => Posters(l)' = Posters(l)
    BY <1>2, <2>1, PostPosts
  <2>3. Cardinality(Posters(k)) = 0 /\ Cardinality(Posters(k)') = 1
    BY <2>2, FS_EmptySet, FS_Singleton
  <2>4. Posts' = [Posts EXCEPT ![k] = 1]
    BY <2>2, <2>3 DEF Keys
  <2>5. QED
    BY <2>2, <2>3, <2>4 DEF Control!Next, Control!Post, Posters
<1>3. CASE posted' = posted /\ spent' # spent
  <2>1. PICK p \in Subs : Claim(p)
    BY <1>3 DEF Next, candidateVars, NodeMoves, NodeHandles, refresh_health_once, Start,
                SecondaryBegins, PostSecondary, ClaimReturns, SecondaryEnds, Record, GiveUp,
                CircuitCoolsDown, Crash
  <2>2. Posts' = Posts
    BY <1>3, HashSettled, PostsUnchanged
  <2>3. QED
    BY <1>3, <2>1, <2>2, ClaimSpends DEF Control!Next, Control!Spend, Posters
<1>4. QED
  BY <1>1, <1>2, <1>3

\* submit_candidate with PersistentCandidateLatch or PersistentCandidateJournal: across
\* restarts, claims that time out and files that are half written, node B is sent at
\* most one request per key, and only once the claim is on disk.
THEOREM SubmitterImplementsClaimOnce == Spec => ClaimsAreOnce
<1>1. Init => Control!Init
  <2> SUFFICES ASSUME Init PROVE Control!Init
    OBVIOUS
  <2>1. spent = {} /\ posted = {}
    BY DEF Init
  <2>2. \A k : {p \in posted : Key(sub[p].hash) = k} = {}
    BY <2>1
  <2>3. QED
    BY <2>1, <2>2, FS_EmptySet DEF Control!Init
<1>2. CandidatesInv /\ [Next]_candidateVars =>
        [Control!Next]_<<spent, [k \in Keys |-> Cardinality({p \in posted : Key(sub[p].hash) = k})]>>
  BY RefinesStep DEF Posters
<1>3. QED
  BY <1>1, <1>2, CandidatesInvariant, PTL DEF Spec, ClaimsAreOnce, Control!Spec
=============================================================================
