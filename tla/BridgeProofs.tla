---------------------------- MODULE BridgeProofs ----------------------------
(***************************************************************************)
(* What is proved of the parts of the bridge beside its jobs and           *)
(* candidates: for any number of connections, addresses, shares and        *)
(* restarts, permits, rows, shares and bans of sessions are kept; for any  *)
(* configuration and miner, the grace of a difficulty change is honoured;  *)
(* for any number of templates and tasks, a job has its own material; for  *)
(* any number of sessions, events and jobs, a fanout reported as complete  *)
(* was; and for any files and variables, a bridge that starts is safe.     *)
(***************************************************************************)
EXTENDS
  Sessions, Vardiff, TemplateCache, Latency, Startup, LedgerProofs, SequenceTheorems

-----------------------------------------------------------------------------
(***************************************************************************)
(* Sessions.                                                               *)
(***************************************************************************)

Labels == {"none", "reading", "answered", "opening", "inserting", "closing"}

SessionsTypeOK ==
    /\ pc \in [Conns -> Labels]
    /\ session \in [Conns -> Nat]
    /\ address \in [Conns -> Addresses \cup {NoAddress}]
    /\ wanted \in [Conns -> Addresses \cup {NoAddress}]
    /\ persisted \in [Conns -> BOOLEAN]
    /\ seen \in [Conns -> SUBSET (Works \X {NoAddress})]
    /\ work \in [Conns -> SUBSET Works]
    /\ accepted \in Nat
    /\ base \in Nat
    /\ active \in Int
    /\ offenses \in [OffenseKind -> Nat]
    /\ ban \in {"none", "running", "passed"}
    /\ holders \in [Addresses -> Int]
    /\ open \in Int
    /\ during \in [Conns -> Nat]

\* What a connection holds follows from where its task is.
Shape ==
    \A c \in Conns :
      /\ ~ Live(c) => address[c] = NoAddress /\ persisted[c] = FALSE /\ during[c] = 0
      /\ pc[c] # "opening" => wanted[c] = NoAddress
      /\ pc[c] = "opening" => wanted[c] \in Addresses
      /\ pc[c] # "inserting" => work[c] = {}

\* Session numbers are given out once.
Numbered ==
    /\ base <= accepted
    /\ \A c \in Conns : Live(c) => base < session[c] /\ session[c] <= accepted
    /\ \A c, d \in Conns : Live(c) /\ Live(d) /\ session[c] = session[d] => c = d

\* Only a row whose connection knows of it, or that a failed call left, has the
\* number of a live connection; and no row is from the future.
RowsKnown ==
    /\ \A r \in rows : r \in Nat /\ r <= accepted
    /\ \A c \in Conns : Live(c) /\ session[c] \in rows => persisted[c] \/ session[c] \in excused

\* Work in hand is marked as seen and not counted; work that was counted for a live
\* connection is marked as seen by it.
WorkMarked ==
    /\ \A c \in Conns : \A w \in work[c] : ShareKey(c, w) \in seen[c]
    /\ \A x \in counted :
         /\ x = <<x[1], x[2], x[3]>> /\ x[1] \in Nat /\ x[1] <= accepted - base
         /\ \A c \in Conns : Live(c) /\ extranonce1(c) = x[1] =>
              ShareKey(c, x[2]) \in seen[c] /\ x[2] \notin work[c]

\* A ban has its cause in the counters for as long as it runs, and a connection that
\* has begun a request during it does not read another one.
BanKnown ==
    /\ ban = "running" => \E k \in OffenseKind : offenses[k] >= OffenseLimit[k]
    /\ ban # "running" => \A c \in Conns : during[c] = 0
    /\ \A c \in Conns : during[c] # 0 => during[c] = 1 /\ pc[c] # "reading"

SessionsInv ==
    /\ SessionsTypeOK
    /\ Shape
    /\ Numbered
    /\ PermitsExact
    /\ RowsKnown /\ RowsAreLive
    /\ WorkMarked /\ WorkCountedOnce
    /\ BanKnown

-----------------------------------------------------------------------------
(***************************************************************************)
(* Counting connections.                                                   *)
(***************************************************************************)
LiveConns == {c \in Conns : Live(c)}

Count(f, a) == Cardinality({c \in Conns : f[c] = a})

\* Nobody holds an address when nobody has authorized.
LEMMA CountNone ==
  ASSUME SessionsAssumption, NEW a \in Addresses
  PROVE  Count([c \in Conns |-> NoAddress], a) = 0
<1>1. {c \in Conns : [d \in Conns |-> NoAddress][c] = a} = {}
  BY DEF SessionsAssumption
<1>2. QED
  BY <1>1, FS_EmptySet DEF Count

LEMMA LiveCount ==
  ASSUME SessionsAssumption
  PROVE  /\ IsFiniteSet(LiveConns) /\ Cardinality(LiveConns) \in Nat
         /\ \A c \in Conns : /\ c \notin LiveConns =>
                                  Cardinality(LiveConns \cup {c}) = Cardinality(LiveConns) + 1
                             /\ c \in LiveConns =>
                                  Cardinality(LiveConns \ {c}) = Cardinality(LiveConns) - 1
<1>1. IsFiniteSet(LiveConns)
  BY FS_Subset DEF SessionsAssumption, LiveConns
<1>2. QED
  BY <1>1, FS_CardinalityType, FS_AddElement, FS_RemoveElement

-----------------------------------------------------------------------------
(***************************************************************************)
(* Steps that leave a part of the invariant alone.                         *)
(***************************************************************************)
\* The task of a connection goes on.
Walks(c) == Live(c) /\ \E label \in Labels \ {"none"} : pc' = [pc EXCEPT ![c] = label]

SameLive == \A d \in Conns : Live(d)' <=> Live(d)

LEMMA WalksLive ==
  ASSUME SessionsTypeOK, NEW c \in Conns, Walks(c)
  PROVE  SameLive /\ pc' \in [Conns -> Labels] /\ pc'[c] # "none" /\ \A d \in Conns : d # c => pc'[d] = pc[d]
  BY DEF SessionsTypeOK, Walks, Live, SameLive

LEMMA QuietNumbered ==
  ASSUME Numbered, accepted' = accepted, base' = base,
         \A d \in Conns : Live(d)' => Live(d) /\ session'[d] = session[d]
  PROVE  Numbered'
  BY DEF Numbered

LEMMA QuietPermits ==
  ASSUME PermitsExact, SameLive, UNCHANGED <<active, open, holders, address, wanted>>
  PROVE  PermitsExact'
<1>1. {c \in Conns : Live(c)}' = {c \in Conns : Live(c)}
  BY DEF SameLive
<1>2. QED
  BY <1>1 DEF PermitsExact

LEMMA QuietRows ==
  ASSUME RowsKnown, RowsAreLive, SameLive, UNCHANGED <<rows, excused, session, persisted>>,
         accepted' = accepted
  PROVE  RowsKnown' /\ RowsAreLive'
  BY DEF RowsKnown, RowsAreLive, SameLive

LEMMA QuietWork ==
  ASSUME WorkMarked, WorkCountedOnce, SameLive,
         UNCHANGED <<counted, seen, work, session, base, accepted>>
  PROVE  WorkMarked' /\ WorkCountedOnce'
<1>1. WorkCountedOnce'
  BY DEF WorkCountedOnce
<1>2. WorkMarked'
  BY DEF WorkMarked, SameLive, extranonce1, ShareKey
<1>3. QED
  BY <1>1, <1>2

-----------------------------------------------------------------------------
(***************************************************************************)
(* Bans.                                                                   *)
(***************************************************************************)
\* A new offense keeps the cause of a ban that is running.
LEMMA OffenseTypes ==
  ASSUME SessionsAssumption, SessionsTypeOK, NEW kind \in OffenseKind, record_offense(kind)
  PROVE  /\ offenses' \in [OffenseKind -> Nat]
         /\ ban' \in {"none", "running", "passed"} /\ active' = active
         /\ ban # "passed" => \A k \in OffenseKind : offenses'[k] >= offenses[k]
         /\ ban' = "running" <=> (should_ban \/ ban = "running")
<1>1. Expired \in [OffenseKind -> Nat]
  BY DEF SessionsTypeOK, Expired, NoOffenses
<1>2. offenses' = [Expired EXCEPT ![kind] = IF @ < OffenseLimit[kind] THEN @ + 1 ELSE @]
  BY DEF record_offense
<1>3. offenses' \in [OffenseKind -> Nat] /\ \A k \in OffenseKind : offenses'[k] >= Expired[k]
  BY <1>1, <1>2
<1>4. ban # "passed" => Expired = offenses /\ ExpiredBan = ban
  BY DEF Expired, ExpiredBan
<1>5. ban' \in {"none", "running", "passed"} /\ active' = active
  BY DEF record_offense, ExpiredBan, SessionsTypeOK
<1>6. ban' = "running" <=> (should_ban \/ ban = "running")
  BY DEF record_offense, should_ban, ExpiredBan
<1>7. QED
  BY <1>3, <1>4, <1>5, <1>6

\* While a ban runs, the next offense of anybody is enough for it.
LEMMA BanPersists ==
  ASSUME SessionsAssumption, SessionsTypeOK, BanKnown, NEW kind \in OffenseKind, record_offense(kind)
  PROVE  ban = "running" => should_ban
<1> SUFFICES ASSUME ban = "running" PROVE should_ban
  OBVIOUS
<1>1. PICK k \in OffenseKind : offenses[k] >= OffenseLimit[k]
  BY DEF BanKnown
<1>2. offenses'[k] >= offenses[k] /\ offenses' \in [OffenseKind -> Nat]
  BY OffenseTypes
<1>3. offenses'[k] >= OffenseLimit[k]
  BY <1>1, <1>2 DEF SessionsTypeOK, SessionsAssumption
<1>4. QED
  BY <1>3 DEF should_ban

\* A request that begins during a ban is the last one of its connection.
LEMMA RequestBan ==
  ASSUME SessionsAssumption, SessionsTypeOK, BanKnown, NEW c \in Conns, Begin(c), Walks(c),
         \/ UNCHANGED <<offenses, ban>>
         \/ \E kind \in OffenseKind : record_offense(kind),
         ban = "running" => pc'[c] # "reading"
  PROVE  BanKnown' /\ during' \in [Conns -> Nat] /\ \A d \in Conns : ~ Live(d) => during'[d] = during[d]
<1>1. during[c] = 0 /\ Live(c)
  BY DEF Begin, BanKnown, SessionsTypeOK, Live
<1>2. \A d \in Conns : d # c => pc'[d] = pc[d]
  BY WalksLive
<1>3. during' = IF ban = "running" THEN [during EXCEPT ![c] = @ + 1] ELSE during
  BY DEF Begin
<1>4. /\ during' \in [Conns -> Nat]
      /\ \A d \in Conns : d # c => during'[d] = during[d]
      /\ during'[c] = IF ban = "running" THEN 1 ELSE 0
  BY <1>1, <1>3 DEF SessionsTypeOK
<1>5. ban = "running" => ban' = "running"
  BY OffenseTypes
<1>6. ban' = "running" => \E k \in OffenseKind : offenses'[k] >= OffenseLimit[k]
  <2>1. CASE UNCHANGED <<offenses, ban>>
    BY <2>1 DEF BanKnown
  <2>2. CASE \E kind \in OffenseKind : record_offense(kind)
    BY <2>2, OffenseTypes, BanPersists DEF should_ban
  <2>3. QED
    BY <2>1, <2>2
<1>7. ban' # "running" => \A d \in Conns : during'[d] = 0
  BY <1>1, <1>4, <1>5 DEF BanKnown
<1>8. \A d \in Conns : during'[d] # 0 => during'[d] = 1 /\ pc'[d] # "reading"
  BY <1>2, <1>4 DEF BanKnown
<1>9. QED
  BY <1>1, <1>4, <1>6, <1>7, <1>8 DEF BanKnown

-----------------------------------------------------------------------------
(***************************************************************************)
(* Requests that touch neither permits nor rows nor shares.                *)
(***************************************************************************)
LEMMA PlainRequestKeeps ==
  ASSUME SessionsAssumption, SessionsInv, NEW c \in Conns,
         MalformedFrame(c) \/ OtherRequest(c) \/ AuthorizeInvalid(c) \/ SubmitInvalid(c)
  PROVE  SessionsInv'
<1> USE DEF SessionsInv
<1>1. UNCHANGED <<connVars, dbVars, rest>> /\ Begin(c) /\ pc[c] = "reading"
  BY DEF MalformedFrame, OtherRequest, AuthorizeInvalid, SubmitInvalid, Begin
<1>2. /\ UNCHANGED <<session, address, wanted, persisted, seen, work>>
      /\ UNCHANGED <<rows, excused, shares, counted, accepted, base, holders, open, restarts>>
  BY <1>1 DEF connVars, dbVars, rest
<1>3. \/ UNCHANGED <<offenses, ban>> /\ active' = active
      \/ \E kind \in OffenseKind : record_offense(kind)
  BY DEF MalformedFrame, OtherRequest, AuthorizeInvalid, SubmitInvalid, abuseVars, OffenseKind
<1>4. \E label \in {"closing", "answered", "reading"} : pc' = [pc EXCEPT ![c] = label]
  BY DEF MalformedFrame, OtherRequest, AuthorizeInvalid, SubmitInvalid, EndsOr, Goto
<1>5. Walks(c) /\ pc'[c] \in {"closing", "answered", "reading"}
  BY <1>1, <1>4 DEF Walks, Live, Labels, SessionsTypeOK
<1>6. ban = "running" => pc'[c] # "reading"
  <2>1. CASE MalformedFrame(c)
    <3>1. ban = "running" => should_ban
      BY <2>1, BanPersists DEF MalformedFrame, OffenseKind
    <3>2. QED
      BY <2>1, <3>1 DEF MalformedFrame, Goto, SessionsTypeOK
  <2>2. CASE ~ MalformedFrame(c)
    BY <2>2 DEF OtherRequest, AuthorizeInvalid, SubmitInvalid, EndsOr, Goto, SessionsTypeOK
  <2>3. QED
    BY <2>1, <2>2
<1>7. BanKnown' /\ during' \in [Conns -> Nat] /\ \A d \in Conns : ~ Live(d) => during'[d] = during[d]
  BY <1>1, <1>3, <1>5, <1>6, RequestBan
<1>8. SameLive /\ pc' \in [Conns -> Labels] /\ \A d \in Conns : d # c => pc'[d] = pc[d]
  BY <1>5, WalksLive
<1>9. /\ offenses' \in [OffenseKind -> Nat] /\ ban' \in {"none", "running", "passed"}
      /\ active' = active
  BY <1>3, OffenseTypes DEF SessionsTypeOK
<1>10. SessionsTypeOK'
  BY <1>2, <1>7, <1>8, <1>9 DEF SessionsTypeOK
<1>11. Shape'
  BY <1>1, <1>2, <1>5, <1>7, <1>8 DEF Shape, SameLive
<1>12. Numbered'
  BY <1>2, <1>8, QuietNumbered DEF SameLive
<1>13. PermitsExact'
  BY <1>2, <1>8, <1>9, QuietPermits
<1>14. RowsKnown' /\ RowsAreLive' /\ WorkMarked' /\ WorkCountedOnce'
  BY <1>2, <1>8, QuietRows, QuietWork
<1>15. QED
  BY <1>7, <1>10, <1>11, <1>12, <1>13, <1>14

\* The response is written, the peer disconnects, or a ban passes.
LEMMA BetweenRequestsKeeps ==
  ASSUME SessionsAssumption, SessionsInv,
         BanPasses \/ \E c \in Conns : AfterResponse(c) \/ Disconnect(c)
  PROVE  SessionsInv'
<1> USE DEF SessionsInv
<1>1. /\ UNCHANGED <<session, address, wanted, persisted, seen, work>>
      /\ UNCHANGED <<rows, excused, shares, counted, accepted, base, holders, open, restarts>>
      /\ active' = active
  BY DEF BanPasses, AfterResponse, Disconnect, connVars, dbVars, rest, abuseVars
<1>2. /\ SameLive /\ pc' \in [Conns -> Labels]
      /\ \A d \in Conns : \/ pc'[d] = pc[d]
                          \/ pc[d] \in {"answered", "reading"} /\ pc'[d] \in {"closing", "reading"}
  <2>1. CASE BanPasses
    BY <2>1 DEF BanPasses, SameLive, Live, SessionsTypeOK
  <2>2. ASSUME NEW c \in Conns, AfterResponse(c) \/ Disconnect(c)
        PROVE  /\ Walks(c) /\ pc[c] \in {"answered", "reading"}
               /\ pc'[c] \in {"closing", "reading"}
    BY <2>2 DEF AfterResponse, Disconnect, EndsOr, Goto, Walks, Live, Labels, SessionsTypeOK
  <2>3. QED
    BY <2>1, <2>2, WalksLive
<1>3. /\ offenses' \in [OffenseKind -> Nat] /\ ban' \in {"none", "running", "passed"}
      /\ during' \in [Conns -> Nat] /\ \A d \in Conns : during[d] = 0 => during'[d] = 0
  <2>1. Expired \in [OffenseKind -> Nat] /\ ExpiredBan \in {"none", "running"}
    BY DEF Expired, ExpiredBan, NoOffenses, SessionsTypeOK
  <2>2. QED
    BY <2>1 DEF BanPasses, AfterResponse, Disconnect, abuseVars, SessionsTypeOK
<1>4. SessionsTypeOK'
  BY <1>1, <1>2, <1>3 DEF SessionsTypeOK
<1>5. Shape'
  BY <1>1, <1>2, <1>3 DEF Shape, SameLive
<1>6. Numbered' /\ PermitsExact'
  BY <1>1, <1>2, QuietNumbered, QuietPermits DEF SameLive
<1>7. RowsKnown' /\ RowsAreLive' /\ WorkMarked' /\ WorkCountedOnce'
  BY <1>1, <1>2, QuietRows, QuietWork
<1>8. BanKnown'
  <2>1. CASE BanPasses
    BY <2>1 DEF BanPasses, BanKnown
  <2>2. ASSUME NEW c \in Conns, AfterResponse(c) PROVE BanKnown'
    <3>1. during' = during /\ ban' = ExpiredBan /\ offenses' = Expired
      BY <2>2 DEF AfterResponse
    <3>2. CASE ban = "running"
      <4>1. ban' = "running" /\ offenses' = offenses /\ pc' = [pc EXCEPT ![c] = "closing"]
        BY <2>2, <3>1, <3>2 DEF AfterResponse, Goto, ExpiredBan, Expired
      <4>2. QED
        BY <3>1, <3>2, <4>1 DEF BanKnown, SessionsTypeOK
    <3>3. CASE ban # "running"
      BY <3>1, <3>3 DEF BanKnown, ExpiredBan
    <3>4. QED
      BY <3>2, <3>3
  <2>3. ASSUME NEW c \in Conns, Disconnect(c) PROVE BanKnown'
    BY <2>3 DEF Disconnect, Goto, abuseVars, BanKnown, SessionsTypeOK
  <2>4. QED
    BY <2>1, <2>2, <2>3
<1>9. QED
  BY <1>4, <1>5, <1>6, <1>7, <1>8

-----------------------------------------------------------------------------
(***************************************************************************)
(* A connection is accepted.                                               *)
(***************************************************************************)
LEMMA AcceptKeeps ==
  ASSUME SessionsAssumption, SessionsInv, NEW c \in Conns, Accept(c)
  PROVE  SessionsInv'
<1> USE DEF SessionsInv
<1>1. /\ UNCHANGED <<address, wanted, persisted, seen, work, base, holders, during, restarts>>
      /\ UNCHANGED <<rows, excused, shares, counted>>
  BY DEF Accept, dbVars
<1>2. /\ offenses' \in [OffenseKind -> Nat] /\ ban' \in {"none", "running", "passed"}
      /\ ban' = "running" => ban = "running" /\ offenses' = offenses
      /\ ban = "running" => ban' = "running"
  BY DEF Accept, Expired, ExpiredBan, NoOffenses, SessionsTypeOK
<1>3. CASE UNCHANGED <<pc, session, accepted, active, open>>
  <2>1. SameLive
    BY <1>3 DEF SameLive, Live
  <2>2. SessionsTypeOK' /\ Shape' /\ BanKnown'
    BY <1>1, <1>2, <1>3 DEF SessionsTypeOK, Shape, BanKnown, Live
  <2>3. Numbered' /\ PermitsExact' /\ RowsKnown' /\ RowsAreLive' /\ WorkMarked' /\ WorkCountedOnce'
    BY <1>1, <1>3, <2>1, QuietNumbered, QuietPermits, QuietRows, QuietWork DEF SameLive
  <2>4. QED
    BY <2>2, <2>3
<1>4. CASE /\ pc' = [pc EXCEPT ![c] = "reading"]
           /\ accepted' = accepted + 1
           /\ session' = [session EXCEPT ![c] = accepted']
           /\ active' = active + 1 /\ open' = open + 1
           /\ active < MaxPerIp
  <2>1. pc[c] = "none" /\ ~ Live(c) /\ wanted[c] = NoAddress /\ work[c] = {} /\ during[c] = 0
    BY DEF Accept, Live, Shape
  <2>2. /\ pc' \in [Conns -> Labels] /\ session' \in [Conns -> Nat]
        /\ pc'[c] = "reading" /\ session'[c] = accepted + 1
        /\ \A d \in Conns : d # c => pc'[d] = pc[d] /\ session'[d] = session[d]
    BY <1>4 DEF SessionsTypeOK, Labels
  <2>3. Live(c)' /\ \A d \in Conns : d # c => (Live(d)' <=> Live(d))
    BY <2>2 DEF Live
  <2>4. SessionsTypeOK'
    BY <1>1, <1>2, <1>4, <2>2 DEF SessionsTypeOK
  <2>5. Shape'
    BY <1>1, <2>1, <2>2, <2>3 DEF Shape
  <2>6. Numbered'
    BY <1>1, <1>4, <2>2, <2>3 DEF Numbered, SessionsTypeOK
  <2>7. PermitsExact'
    <3>1. LiveConns' = LiveConns \cup {c}
      BY <2>3 DEF LiveConns
    <3>2. Cardinality(LiveConns') = Cardinality(LiveConns) + 1
      BY <2>1, <3>1, LiveCount DEF LiveConns
    <3>3. active = Cardinality(LiveConns) /\ open = active
      BY DEF PermitsExact, LiveConns
    <3>4. active' = Cardinality({d \in Conns : Live(d)})' /\ open' = active' /\ active' <= MaxPerIp
      BY <1>4, <3>2, <3>3 DEF LiveConns, SessionsTypeOK, SessionsAssumption
    <3>5. QED
      BY <1>1, <3>4 DEF PermitsExact
  <2>8. RowsKnown'
    <3>1. accepted + 1 \notin rows
      BY DEF RowsKnown, SessionsTypeOK
    <3>2. QED
      BY <1>1, <1>4, <2>2, <2>3, <3>1 DEF RowsKnown, SessionsTypeOK
  <2>9. RowsAreLive'
    BY <1>1, <2>1, <2>2, <2>3 DEF RowsAreLive
  <2>10. WorkCountedOnce'
    BY <1>1 DEF WorkCountedOnce
  <2>11. WorkMarked'
    <3>1. \A x \in counted : x[1] # extranonce1(c)'
      BY <1>1, <1>4, <2>2 DEF WorkMarked, extranonce1, SessionsTypeOK, Numbered
    <3>2. \A d \in Conns : d # c => extranonce1(d)' = extranonce1(d)
      BY <1>1, <2>2 DEF extranonce1
    <3>3. \A x \in counted : x[1] <= accepted' - base'
      BY <1>1, <1>4 DEF WorkMarked, SessionsTypeOK
    <3>4. QED
      BY <1>1, <2>3, <3>1, <3>2, <3>3 DEF WorkMarked, ShareKey
  <2>12. BanKnown'
    BY <1>1, <1>2, <2>1, <2>2 DEF BanKnown
  <2>13. QED
    BY <2>4, <2>5, <2>6, <2>7, <2>8, <2>9, <2>10, <2>11, <2>12
<1>5. QED
  BY <1>3, <1>4 DEF Accept, SessionsTypeOK, SessionsAssumption

-----------------------------------------------------------------------------
(***************************************************************************)
(* Authorization.                                                          *)
(***************************************************************************)
\* What the permits of an address are counted by.
Held(a) == Count(address, a) + Count(wanted, a)

LEMMA PermitsCounted ==
  ASSUME SessionsAssumption, SessionsTypeOK
  PROVE  PermitsExact <=> /\ active = Cardinality(LiveConns) /\ open = active /\ active <= MaxPerIp
                          /\ \A a \in Addresses : holders[a] = Held(a) /\ holders[a] <= MaxPerAddress
  BY DEF PermitsExact, LiveConns, Held, Count

\* Connection c alone takes, moves or gives back a permit, and the counters follow.
PermitMoves(c) ==
    /\ \A d \in Conns : d # c => address'[d] = address[d] /\ wanted'[d] = wanted[d]
    /\ \A x \in Addresses :
         /\ holders'[x] = holders[x]
              + (IF address'[c] = x THEN 1 ELSE 0) - (IF address[c] = x THEN 1 ELSE 0)
              + (IF wanted'[c] = x THEN 1 ELSE 0) - (IF wanted[c] = x THEN 1 ELSE 0)
         /\ holders'[x] <= MaxPerAddress

LEMMA PermitsFollow ==
  ASSUME SessionsAssumption, SessionsTypeOK, SessionsTypeOK', PermitsExact, NEW c \in Conns,
         PermitMoves(c)
  PROVE  \A x \in Addresses : holders'[x] = Held(x)' /\ holders'[x] <= MaxPerAddress
<1> USE DEF PermitMoves
<1> SUFFICES ASSUME NEW x \in Addresses PROVE holders'[x] = Held(x)'
  OBVIOUS
<1>1. /\ address \in [Conns -> Addresses \cup {NoAddress}]
      /\ wanted \in [Conns -> Addresses \cup {NoAddress}]
  BY DEF SessionsTypeOK
<1>2. /\ Count(address, x) \in Nat
      /\ Count(address', x) =
           Count(address, x) + (IF address'[c] = x THEN 1 ELSE 0) - (IF address[c] = x THEN 1 ELSE 0)
  <2> DEFINE F == {d \in Conns : address[d] = x}
             G == {d \in Conns : address'[d] = x}
  <2>1. IsFiniteSet(F)
    BY FS_Subset DEF SessionsAssumption
  <2>2. G \ {c} = F \ {c} /\ (c \in G <=> address'[c] = x) /\ (c \in F <=> address[c] = x)
    BY <1>1
  <2>3. Cardinality(F) = Count(address, x) /\ Cardinality(G) = Count(address', x)
    BY DEF Count
  <2> HIDE DEF F, G
  <2>4. QED
    BY <2>1, <2>2, <2>3, SetUpdate
<1>3. /\ Count(wanted, x) \in Nat
      /\ Count(wanted', x) =
           Count(wanted, x) + (IF wanted'[c] = x THEN 1 ELSE 0) - (IF wanted[c] = x THEN 1 ELSE 0)
  <2> DEFINE F == {d \in Conns : wanted[d] = x}
             G == {d \in Conns : wanted'[d] = x}
  <2>1. IsFiniteSet(F)
    BY FS_Subset DEF SessionsAssumption
  <2>2. G \ {c} = F \ {c} /\ (c \in G <=> wanted'[c] = x) /\ (c \in F <=> wanted[c] = x)
    BY <1>1
  <2>3. Cardinality(F) = Count(wanted, x) /\ Cardinality(G) = Count(wanted', x)
    BY DEF Count
  <2> HIDE DEF F, G
  <2>4. QED
    BY <2>1, <2>2, <2>3, SetUpdate
<1>4. holders[x] = Count(address, x) + Count(wanted, x)
  BY PermitsCounted DEF Held
<1>5. Held(x)' = Count(address', x) + Count(wanted', x)
  BY DEF Held, Count
<1>6. QED
  BY <1>2, <1>3, <1>4, <1>5

\* mining.authorize.
LEMMA AuthorizeKeeps ==
  ASSUME SessionsAssumption, SessionsInv, NEW c \in Conns, NEW a \in Addresses, Authorize(c, a)
  PROVE  SessionsInv'
<1> USE DEF SessionsInv
<1>1. /\ UNCHANGED <<session, persisted, seen, work, active, offenses, ban, rows, excused, shares>>
      /\ UNCHANGED <<counted, accepted, base, open, restarts>>
      /\ Begin(c) /\ pc[c] = "reading" /\ wanted[c] = NoAddress /\ Live(c)
  BY DEF Authorize, abuseVars, dbVars, Begin, Shape, Live
<1>2. CASE Goto(c, "answered") /\ UNCHANGED <<address, wanted, holders>>
  <2>1. Walks(c) /\ pc'[c] = "answered"
    BY <1>1, <1>2 DEF Goto, Walks, Labels, SessionsTypeOK
  <2>2. SameLive /\ pc' \in [Conns -> Labels] /\ \A d \in Conns : d # c => pc'[d] = pc[d]
    BY <2>1, WalksLive
  <2>3. BanKnown' /\ during' \in [Conns -> Nat] /\ \A d \in Conns : ~ Live(d) => during'[d] = during[d]
    BY <1>1, <2>1, RequestBan
  <2>4. SessionsTypeOK'
    BY <1>1, <1>2, <2>2, <2>3 DEF SessionsTypeOK
  <2>5. Shape'
    BY <1>1, <1>2, <2>1, <2>2, <2>3 DEF Shape, SameLive
  <2>6. Numbered' /\ PermitsExact' /\ RowsKnown' /\ RowsAreLive' /\ WorkMarked' /\ WorkCountedOnce'
    BY <1>1, <1>2, <2>2, QuietNumbered, QuietPermits, QuietRows, QuietWork DEF SameLive
  <2>7. QED
    BY <2>3, <2>4, <2>5, <2>6
<1>3. CASE address[c] # a /\ holders[a] < MaxPerAddress /\ Assign(c, a)
  <2>1. Walks(c) /\ pc'[c] = "answered"
    BY <1>1, <1>3 DEF Assign, Goto, Walks, Labels, SessionsTypeOK
  <2>2. SameLive /\ pc' \in [Conns -> Labels] /\ \A d \in Conns : d # c => pc'[d] = pc[d]
    BY <2>1, WalksLive
  <2>3. BanKnown' /\ during' \in [Conns -> Nat] /\ \A d \in Conns : ~ Live(d) => during'[d] = during[d]
    BY <1>1, <2>1, RequestBan
  <2>4. address' = [address EXCEPT ![c] = a] /\ wanted' = [wanted EXCEPT ![c] = NoAddress]
    BY <1>3 DEF Assign
  <2>5. holders' \in [Addresses -> Int] /\ \A x \in Addresses :
           holders'[x] = holders[x] + (IF a = x THEN 1 ELSE 0) - (IF address[c] = x THEN 1 ELSE 0)
    BY <1>1, <1>3 DEF Assign, SessionsTypeOK
  <2>6. SessionsTypeOK'
    BY <1>1, <2>2, <2>3, <2>4, <2>5 DEF SessionsTypeOK
  <2>7. Shape'
    BY <1>1, <2>1, <2>2, <2>3, <2>4 DEF Shape, SameLive, SessionsTypeOK
  <2>8. PermitsExact'
    <3>1. \A x \in Addresses : holders[x] \in Int /\ holders[x] <= MaxPerAddress
      BY DEF PermitsExact, SessionsTypeOK
    <3>2. PermitMoves(c)
      <4>1. ASSUME NEW x \in Addresses
            PROVE  /\ holders'[x] = holders[x]
                        + (IF address'[c] = x THEN 1 ELSE 0) - (IF address[c] = x THEN 1 ELSE 0)
                        + (IF wanted'[c] = x THEN 1 ELSE 0) - (IF wanted[c] = x THEN 1 ELSE 0)
                   /\ holders'[x] <= MaxPerAddress
        <5>1. wanted'[c] # x /\ wanted[c] # x /\ address'[c] = a
          BY <1>1, <2>4 DEF SessionsAssumption, SessionsTypeOK
        <5>2. holders[x] \in Int /\ holders[x] <= MaxPerAddress /\ MaxPerAddress \in Nat
          BY <3>1 DEF SessionsAssumption
        <5>3. holders'[x] =
                holders[x] + (IF a = x THEN 1 ELSE 0) - (IF address[c] = x THEN 1 ELSE 0)
          BY <2>5
        <5>4. QED
          BY <1>3, <5>1, <5>2, <5>3
      <4>2. QED
        BY <2>4, <4>1 DEF PermitMoves, SessionsTypeOK
    <3>3. \A x \in Addresses : holders'[x] = Held(x)' /\ holders'[x] <= MaxPerAddress
      BY <2>6, <3>2, PermitsFollow
    <3>4. LiveConns' = LiveConns
      BY <2>2 DEF LiveConns, SameLive
    <3>5. QED
      BY <1>1, <2>6, <3>3, <3>4, PermitsCounted DEF PermitsExact, LiveConns, Held, Count
  <2>9. Numbered' /\ RowsKnown' /\ RowsAreLive' /\ WorkMarked' /\ WorkCountedOnce'
    BY <1>1, <2>2, QuietNumbered, QuietRows, QuietWork DEF SameLive
  <2>10. QED
    BY <2>3, <2>6, <2>7, <2>8, <2>9
<1>4. CASE /\ address[c] # a /\ holders[a] < MaxPerAddress
           /\ wanted' = [wanted EXCEPT ![c] = a]
           /\ holders' = [holders EXCEPT ![a] = @ + 1]
           /\ Goto(c, "opening")
           /\ UNCHANGED address
  <2>1. Walks(c) /\ pc'[c] = "opening"
    BY <1>1, <1>4 DEF Goto, Walks, Labels, SessionsTypeOK
  <2>2. SameLive /\ pc' \in [Conns -> Labels] /\ \A d \in Conns : d # c => pc'[d] = pc[d]
    BY <2>1, WalksLive
  <2>3. BanKnown' /\ during' \in [Conns -> Nat] /\ \A d \in Conns : ~ Live(d) => during'[d] = during[d]
    BY <1>1, <2>1, RequestBan
  <2>4. SessionsTypeOK'
    <3>1. holders' \in [Addresses -> Int] /\ wanted' \in [Conns -> Addresses \cup {NoAddress}]
      BY <1>4 DEF SessionsTypeOK
    <3>2. QED
      BY <1>1, <1>4, <2>2, <2>3, <3>1 DEF SessionsTypeOK
  <2>5. Shape'
    BY <1>1, <1>4, <2>1, <2>2, <2>3 DEF Shape, SameLive, SessionsTypeOK
  <2>6. PermitsExact'
    <3>1. \A x \in Addresses : holders[x] \in Int /\ holders[x] <= MaxPerAddress
      BY DEF PermitsExact, SessionsTypeOK
    <3>2. PermitMoves(c)
      <4>1. ASSUME NEW x \in Addresses
            PROVE  /\ holders'[x] = holders[x]
                        + (IF address'[c] = x THEN 1 ELSE 0) - (IF address[c] = x THEN 1 ELSE 0)
                        + (IF wanted'[c] = x THEN 1 ELSE 0) - (IF wanted[c] = x THEN 1 ELSE 0)
                   /\ holders'[x] <= MaxPerAddress
        <5>1. wanted'[c] = a /\ wanted[c] # x /\ address'[c] = address[c]
          BY <1>1, <1>4 DEF SessionsAssumption, SessionsTypeOK
        <5>2. holders[x] \in Int /\ holders[x] <= MaxPerAddress /\ MaxPerAddress \in Nat
          BY <3>1 DEF SessionsAssumption
        <5>3. holders'[x] = IF a = x THEN holders[x] + 1 ELSE holders[x]
          BY <1>4 DEF SessionsTypeOK
        <5>4. QED
          BY <1>4, <5>1, <5>2, <5>3
      <4>2. QED
        BY <1>4, <4>1 DEF PermitMoves, SessionsTypeOK
    <3>4. \A x \in Addresses : holders'[x] = Held(x)' /\ holders'[x] <= MaxPerAddress
      BY <2>4, <3>2, PermitsFollow
    <3>5. LiveConns' = LiveConns
      BY <2>2 DEF LiveConns, SameLive
    <3>6. QED
      BY <1>1, <2>4, <3>4, <3>5, PermitsCounted DEF PermitsExact, LiveConns, Held, Count
  <2>7. Numbered' /\ RowsKnown' /\ RowsAreLive' /\ WorkMarked' /\ WorkCountedOnce'
    BY <1>1, <2>2, QuietNumbered, QuietRows, QuietWork DEF SameLive
  <2>8. QED
    BY <2>3, <2>4, <2>5, <2>6, <2>7
<1>5. QED
  BY <1>2, <1>3, <1>4 DEF Authorize, try_open_address_session

\* open_session returns.
LEMMA OpenSessionKeeps ==
  ASSUME SessionsAssumption, SessionsInv, NEW c \in Conns, OpenSession(c)
  PROVE  SessionsInv'
<1> USE DEF SessionsInv
<1>1. /\ UNCHANGED <<session, seen, work, active, offenses, ban, shares, counted, accepted, base>>
      /\ UNCHANGED <<open, during, restarts>>
      /\ pc[c] = "opening" /\ wanted[c] \in Addresses /\ wanted[c] # NoAddress /\ Live(c)
  BY DEF OpenSession, abuseVars, Shape, Live, SessionsAssumption
<1>2. /\ address' = [address EXCEPT ![c] = wanted[c]] /\ wanted' = [wanted EXCEPT ![c] = NoAddress]
      /\ pc' = [pc EXCEPT ![c] = "answered"]
  BY DEF OpenSession, Assign, Goto
<1>3. Walks(c) /\ pc'[c] = "answered"
  BY <1>1, <1>2 DEF Walks, Labels, SessionsTypeOK
<1>4. SameLive /\ pc' \in [Conns -> Labels] /\ \A d \in Conns : d # c => pc'[d] = pc[d]
  BY <1>3, WalksLive
<1>5. holders' \in [Addresses -> Int] /\ \A x \in Addresses :
         holders'[x] = IF address[c] = x THEN holders[x] - 1 ELSE holders[x]
  BY <1>1 DEF OpenSession, Assign, SessionsTypeOK
<1>6. persisted' \in [Conns -> BOOLEAN] /\ \A d \in Conns : d # c => persisted'[d] = persisted[d]
  BY DEF OpenSession, SessionsTypeOK
<1>7. SessionsTypeOK'
  <2>1. address' \in [Conns -> Addresses \cup {NoAddress}] /\ wanted' \in [Conns -> Addresses \cup {NoAddress}]
    BY <1>1, <1>2 DEF SessionsTypeOK
  <2>2. QED
    BY <1>1, <1>4, <1>5, <1>6, <2>1 DEF SessionsTypeOK
<1>8. Shape'
  BY <1>1, <1>2, <1>3, <1>4, <1>6 DEF Shape, SameLive, SessionsTypeOK
<1>9. PermitsExact'
  <2>1. \A x \in Addresses : holders[x] \in Int /\ holders[x] <= MaxPerAddress
    BY DEF PermitsExact, SessionsTypeOK
  <2>2. PermitMoves(c)
    <3>1. ASSUME NEW x \in Addresses
          PROVE  /\ holders'[x] = holders[x]
                      + (IF address'[c] = x THEN 1 ELSE 0) - (IF address[c] = x THEN 1 ELSE 0)
                      + (IF wanted'[c] = x THEN 1 ELSE 0) - (IF wanted[c] = x THEN 1 ELSE 0)
                 /\ holders'[x] <= MaxPerAddress
      <4>1. wanted'[c] # x /\ address'[c] = wanted[c]
        BY <1>2 DEF SessionsAssumption, SessionsTypeOK
      <4>2. holders[x] \in Int /\ holders[x] <= MaxPerAddress /\ MaxPerAddress \in Nat
        BY <2>1 DEF SessionsAssumption
      <4>3. holders'[x] = IF address[c] = x THEN holders[x] - 1 ELSE holders[x]
        BY <1>5
      <4>4. QED
        BY <4>1, <4>2, <4>3
    <3>2. QED
      BY <1>2, <3>1 DEF PermitMoves, SessionsTypeOK
  <2>3. \A x \in Addresses : holders'[x] = Held(x)' /\ holders'[x] <= MaxPerAddress
    BY <1>7, <2>2, PermitsFollow
  <2>4. LiveConns' = LiveConns
    BY <1>4 DEF LiveConns, SameLive
  <2>5. QED
    BY <1>1, <1>7, <2>3, <2>4, PermitsCounted DEF PermitsExact, LiveConns, Held, Count
<1>10. Numbered'
  BY <1>1, <1>4, QuietNumbered DEF SameLive
<1>11. WorkMarked' /\ WorkCountedOnce'
  BY <1>1, <1>4, QuietWork
<1>12. /\ rows \subseteq rows' /\ rows' \subseteq rows \cup {session[c]} /\ excused \subseteq excused'
       /\ persisted'[c] \/ session[c] \in excused'
  BY DEF OpenSession, SessionsTypeOK
<1>13. RowsKnown'
  <2>1. \A r \in rows' : r \in Nat /\ r <= accepted'
    BY <1>1, <1>12 DEF RowsKnown, Numbered, SessionsTypeOK
  <2>2. ASSUME NEW d \in Conns, Live(d), session[d] \in rows'
        PROVE  persisted'[d] \/ session[d] \in excused'
    <3>1. CASE d = c
      BY <1>12, <3>1
    <3>2. CASE d # c
      <4>1. session[d] # session[c]
        BY <1>1, <2>2, <3>2 DEF Numbered
      <4>2. QED
        BY <1>6, <1>12, <2>2, <3>2, <4>1 DEF RowsKnown
    <3>3. QED
      BY <3>1, <3>2
  <2>3. QED
    BY <1>1, <1>4, <2>1, <2>2 DEF RowsKnown, SameLive
<1>14. RowsAreLive'
  BY <1>1, <1>4, <1>12 DEF RowsAreLive, SameLive
<1>15. BanKnown'
  BY <1>1, <1>3, <1>4 DEF BanKnown
<1>16. QED
  BY <1>7, <1>8, <1>9, <1>10, <1>11, <1>13, <1>14, <1>15

-----------------------------------------------------------------------------
(***************************************************************************)
(* Shares.                                                                 *)
(***************************************************************************)
LEMMA SubmitKeeps ==
  ASSUME SessionsAssumption, SessionsInv, NEW c \in Conns, NEW w \in Works, Submit(c, w)
  PROVE  SessionsInv'
<1> USE DEF SessionsInv
<1>1. /\ UNCHANGED <<session, address, wanted, persisted, active, offenses, ban, rows, excused>>
      /\ UNCHANGED <<shares, counted, accepted, base, holders, open, restarts>>
      /\ Begin(c) /\ pc[c] = "reading" /\ work[c] = {} /\ Live(c)
  BY DEF Submit, abuseVars, dbVars, rest, Begin, Shape, Live
<1>2. PICK label \in {"closing", "answered", "inserting"} :
         /\ pc' = [pc EXCEPT ![c] = label]
         /\ \/ /\ label # "inserting" /\ work' = work
               /\ seen' = seen \/ seen' = [seen EXCEPT ![c] = @ \cup {ShareKey(c, w)}]
            \/ /\ ShareKey(c, w) \notin seen[c]
               /\ seen' = [seen EXCEPT ![c] = @ \cup {ShareKey(c, w)}]
               /\ label = "inserting" /\ work' = [work EXCEPT ![c] = {w}]
  BY DEF Submit, EndsOr, Goto
<1>3. Walks(c) /\ pc'[c] = label
  BY <1>1, <1>2 DEF Walks, Labels, SessionsTypeOK
<1>4. SameLive /\ pc' \in [Conns -> Labels] /\ \A d \in Conns : d # c => pc'[d] = pc[d]
  BY <1>3, WalksLive
<1>5. BanKnown' /\ during' \in [Conns -> Nat] /\ \A d \in Conns : ~ Live(d) => during'[d] = during[d]
  BY <1>1, <1>2, <1>3, RequestBan
<1>6. /\ seen' \in [Conns -> SUBSET (Works \X {NoAddress})] /\ work' \in [Conns -> SUBSET Works]
      /\ \A d \in Conns : d # c => seen'[d] = seen[d] /\ work'[d] = work[d]
      /\ seen[c] \subseteq seen'[c]
      /\ \/ work'[c] = {}
         \/ label = "inserting" /\ work'[c] = {w} /\ ShareKey(c, w) \notin seen[c] /\ ShareKey(c, w) \in seen'[c]
  <2>1. ShareKey(c, w) \in Works \X {NoAddress}
    BY DEF ShareKey
  <2>2. seen \in [Conns -> SUBSET (Works \X {NoAddress})] /\ work \in [Conns -> SUBSET Works]
    BY DEF SessionsTypeOK
  <2>3. QED
    BY <1>1, <1>2, <2>1, <2>2
<1>7. SessionsTypeOK'
  BY <1>1, <1>4, <1>5, <1>6 DEF SessionsTypeOK
<1>8. Shape'
  BY <1>1, <1>3, <1>4, <1>5, <1>6 DEF Shape, SameLive
<1>9. Numbered' /\ PermitsExact' /\ RowsKnown' /\ RowsAreLive'
  BY <1>1, <1>4, QuietNumbered, QuietPermits, QuietRows DEF SameLive
<1>10. WorkCountedOnce'
  BY <1>1 DEF WorkCountedOnce
<1>11. WorkMarked'
  <2>1. \A d \in Conns : \A v \in work'[d] : ShareKey(d, v) \in seen'[d]
    BY <1>6 DEF WorkMarked
  <2>2. \A d \in Conns : \A v \in work'[d] : ShareKey(d, v)' \in seen'[d]
    BY <2>1 DEF ShareKey
  <2>3. \A x \in counted, d \in Conns : Live(d) /\ extranonce1(d) = x[1] =>
           ShareKey(d, x[2]) \in seen'[d] /\ x[2] \notin work'[d]
    BY <1>6 DEF WorkMarked
  <2>4. \A x \in counted, d \in Conns : Live(d)' /\ extranonce1(d)' = x[1] =>
           ShareKey(d, x[2])' \in seen'[d] /\ x[2] \notin work'[d]
    BY <1>1, <1>4, <2>3 DEF ShareKey, extranonce1, SameLive
  <2>5. QED
    BY <1>1, <2>2, <2>4 DEF WorkMarked
<1>12. QED
  BY <1>5, <1>7, <1>8, <1>9, <1>10, <1>11

\* insert_share: the row is written or not, and a new one is counted.
LEMMA InsertShareKeeps ==
  ASSUME SessionsAssumption, SessionsInv, NEW c \in Conns, InsertShare(c)
  PROVE  SessionsInv'
<1> USE DEF SessionsInv
<1>1. /\ UNCHANGED <<session, address, wanted, persisted, seen, active, offenses, ban, rows, excused>>
      /\ UNCHANGED <<accepted, base, holders, open, restarts, during>>
      /\ pc[c] = "inserting" /\ Live(c) /\ work' = [work EXCEPT ![c] = {}]
  BY DEF InsertShare, abuseVars, rest, Live
<1>2. PICK label \in {"closing", "answered"} : pc' = [pc EXCEPT ![c] = label]
  BY DEF InsertShare, EndsOr, Goto
<1>3. Walks(c) /\ pc'[c] = label
  BY <1>1, <1>2 DEF Walks, Labels, SessionsTypeOK
<1>4. SameLive /\ pc' \in [Conns -> Labels] /\ \A d \in Conns : d # c => pc'[d] = pc[d]
  BY <1>3, WalksLive
<1>5. /\ work' \in [Conns -> SUBSET Works] /\ work'[c] = {}
      /\ \A d \in Conns : d # c => work'[d] = work[d]
  BY <1>1 DEF SessionsTypeOK
<1>6. SessionsTypeOK'
  BY <1>1, <1>4, <1>5 DEF SessionsTypeOK
<1>7. Shape'
  BY <1>1, <1>3, <1>4, <1>5 DEF Shape, SameLive
<1>8. Numbered' /\ PermitsExact' /\ RowsKnown' /\ RowsAreLive'
  BY <1>1, <1>4, QuietNumbered, QuietPermits, QuietRows DEF SameLive
<1>9. BanKnown'
  BY <1>1, <1>3, <1>4 DEF BanKnown
<1> DEFINE counts == {<<extranonce1(c), w, address[c]>> : w \in work[c]}
<1>10. counted' = counted \/ counted' = counted \cup counts
  BY DEF InsertShare
<1>11. \A x \in counts : /\ x = <<x[1], x[2], x[3]>> /\ x[1] = extranonce1(c) /\ x[3] = address[c]
                         /\ x[2] \in work[c]
  OBVIOUS
<1>12. extranonce1(c) \in Nat /\ extranonce1(c) <= accepted - base
  BY <1>1 DEF extranonce1, Numbered, SessionsTypeOK
<1> HIDE DEF counts
<1>13. WorkCountedOnce'
  <2>1. ASSUME NEW x \in counted, NEW y \in counts PROVE ~ (x[1] = y[1] /\ x[2] = y[2])
    BY <1>1, <1>11 DEF WorkMarked
  <2>2. ASSUME NEW x \in counts, NEW y \in counts, x[2] = y[2] PROVE x = y
    BY <1>11, <2>2
  <2>3. QED
    BY <1>10, <1>11, <2>1, <2>2 DEF WorkCountedOnce
<1>14. WorkMarked'
  <2>1. \A d \in Conns : \A w \in work'[d] : ShareKey(d, w)' \in seen'[d]
    BY <1>1, <1>5 DEF WorkMarked, ShareKey
  <2>2. \A d \in Conns : extranonce1(d)' = extranonce1(d)
    BY <1>1 DEF extranonce1
  <2>3. ASSUME NEW d \in Conns, Live(d), extranonce1(d) = extranonce1(c) PROVE d = c
    BY <1>1, <2>3 DEF Numbered, extranonce1, SessionsTypeOK
  <2>4. ASSUME NEW x \in counts
        PROVE  /\ x = <<x[1], x[2], x[3]>> /\ x[1] \in Nat /\ x[1] <= accepted' - base'
               /\ \A d \in Conns : Live(d)' /\ extranonce1(d)' = x[1] =>
                    ShareKey(d, x[2])' \in seen'[d] /\ x[2] \notin work'[d]
    <3>1. x = <<x[1], x[2], x[3]>> /\ x[1] = extranonce1(c) /\ x[2] \in work[c]
      BY <1>11
    <3>2. x[1] \in Nat /\ x[1] <= accepted' - base'
      BY <1>1, <1>12, <3>1
    <3>3. ShareKey(c, x[2])' \in seen'[c] /\ x[2] \notin work'[c]
      BY <1>1, <1>5, <3>1 DEF WorkMarked, ShareKey
    <3>4. QED
      BY <1>4, <2>2, <2>3, <3>1, <3>2, <3>3 DEF SameLive
  <2>5. ASSUME NEW x \in counted
        PROVE  /\ x = <<x[1], x[2], x[3]>> /\ x[1] \in Nat /\ x[1] <= accepted' - base'
               /\ \A d \in Conns : Live(d)' /\ extranonce1(d)' = x[1] =>
                    ShareKey(d, x[2])' \in seen'[d] /\ x[2] \notin work'[d]
    BY <1>1, <1>4, <1>5, <2>2 DEF WorkMarked, ShareKey, SameLive
  <2>6. QED
    BY <1>10, <2>1, <2>4, <2>5 DEF WorkMarked
<1>15. QED
  BY <1>6, <1>7, <1>8, <1>9, <1>13, <1>14

-----------------------------------------------------------------------------
(***************************************************************************)
(* Ends and starts.                                                        *)
(***************************************************************************)
\* The end of handle_client, whatever led to it.
LEMMA CloseKeeps ==
  ASSUME SessionsAssumption, SessionsInv, NEW c \in Conns, Close(c)
  PROVE  SessionsInv'
<1> USE DEF SessionsInv
<1>1. /\ UNCHANGED <<offenses, ban, shares, counted, accepted, base, restarts>>
      /\ pc[c] = "closing" /\ wanted[c] = NoAddress /\ work[c] = {} /\ Live(c)
      /\ open' = open - 1 /\ active' = active - 1
  BY DEF Close, Shape, Live
<1>2. /\ pc' = [pc EXCEPT ![c] = "none"] /\ session' = [session EXCEPT ![c] = 0]
      /\ address' = [address EXCEPT ![c] = NoAddress] /\ wanted' = [wanted EXCEPT ![c] = NoAddress]
      /\ persisted' = [persisted EXCEPT ![c] = FALSE] /\ seen' = [seen EXCEPT ![c] = {}]
      /\ work' = [work EXCEPT ![c] = {}] /\ during' = [during EXCEPT ![c] = 0]
  BY DEF Close, Goto, Reset
<1>3. \A d \in Conns : d # c =>
        /\ pc'[d] = pc[d] /\ session'[d] = session[d] /\ address'[d] = address[d]
        /\ wanted'[d] = wanted[d] /\ persisted'[d] = persisted[d] /\ seen'[d] = seen[d]
        /\ work'[d] = work[d] /\ during'[d] = during[d]
  BY <1>2 DEF SessionsTypeOK
<1>4. /\ pc'[c] = "none" /\ address'[c] = NoAddress /\ wanted'[c] = NoAddress /\ work'[c] = {}
      /\ persisted'[c] = FALSE /\ during'[c] = 0
  BY <1>2 DEF SessionsTypeOK
<1>5. ~ Live(c)' /\ \A d \in Conns : d # c => (Live(d)' <=> Live(d))
  BY <1>3, <1>4 DEF Live
<1>6. holders' = [x \in Addresses |-> IF x = address[c] THEN holders[x] - 1 ELSE holders[x]]
  BY DEF Close
<1>7. SessionsTypeOK'
  <2>1. pc' \in [Conns -> Labels] /\ session' \in [Conns -> Nat]
    BY <1>2 DEF SessionsTypeOK, Labels
  <2>2. address' \in [Conns -> Addresses \cup {NoAddress}] /\ wanted' \in [Conns -> Addresses \cup {NoAddress}]
    BY <1>2 DEF SessionsTypeOK
  <2>3. /\ persisted' \in [Conns -> BOOLEAN] /\ seen' \in [Conns -> SUBSET (Works \X {NoAddress})]
        /\ work' \in [Conns -> SUBSET Works]
    BY <1>2 DEF SessionsTypeOK
  <2>4. during' \in [Conns -> Nat] /\ holders' \in [Addresses -> Int] /\ active' \in Int /\ open' \in Int
    BY <1>1, <1>2, <1>6 DEF SessionsTypeOK
  <2>5. QED
    BY <1>1, <2>1, <2>2, <2>3, <2>4 DEF SessionsTypeOK
<1>8. Shape'
  BY <1>3, <1>4, <1>5 DEF Shape
<1>9. Numbered'
  BY <1>1, <1>3, <1>5, QuietNumbered
<1>10. PermitsExact'
  <2>1. \A x \in Addresses : holders[x] \in Int /\ holders[x] <= MaxPerAddress
    BY DEF PermitsExact, SessionsTypeOK
  <2>2. PermitMoves(c)
    <3>1. ASSUME NEW x \in Addresses
          PROVE  /\ holders'[x] = holders[x]
                      + (IF address'[c] = x THEN 1 ELSE 0) - (IF address[c] = x THEN 1 ELSE 0)
                      + (IF wanted'[c] = x THEN 1 ELSE 0) - (IF wanted[c] = x THEN 1 ELSE 0)
                 /\ holders'[x] <= MaxPerAddress
      <4>1. wanted'[c] # x /\ address'[c] # x /\ wanted[c] # x
        BY <1>1, <1>4 DEF SessionsAssumption
      <4>2. holders[x] \in Int /\ holders[x] <= MaxPerAddress /\ MaxPerAddress \in Nat
        BY <2>1 DEF SessionsAssumption
      <4>3. holders'[x] = IF address[c] = x THEN holders[x] - 1 ELSE holders[x]
        BY <1>6
      <4>4. QED
        BY <4>1, <4>2, <4>3
    <3>2. QED
      BY <1>3, <3>1 DEF PermitMoves
  <2>3. \A x \in Addresses : holders'[x] = Held(x)' /\ holders'[x] <= MaxPerAddress
    BY <1>7, <2>2, PermitsFollow
  <2>4. LiveConns' = LiveConns \ {c} /\ c \in LiveConns
    BY <1>1, <1>5 DEF LiveConns
  <2>5. Cardinality(LiveConns') = Cardinality(LiveConns) - 1
    BY <2>4, LiveCount
  <2>6. active = Cardinality(LiveConns) /\ open = active /\ active <= MaxPerIp
    BY DEF PermitsExact, LiveConns
  <2>7. active' = Cardinality(LiveConns') /\ open' = active' /\ active' <= MaxPerIp
    BY <1>1, <2>5, <2>6 DEF SessionsTypeOK, SessionsAssumption
  <2>8. QED
    BY <2>3, <2>7 DEF PermitsExact, LiveConns, Held, Count
<1>11. /\ rows' \subseteq rows /\ excused \subseteq excused'
       /\ session[c] \in rows' => session[c] \in excused'
  <2>1. session[c] \in rows => persisted[c] \/ session[c] \in excused
    BY <1>1 DEF RowsKnown
  <2>2. QED
    BY <2>1 DEF Close, CloseRow
<1>12. RowsKnown'
  BY <1>1, <1>3, <1>5, <1>11 DEF RowsKnown
<1>13. RowsAreLive'
  <2>1. ASSUME NEW r \in rows', r \notin excused' PROVE \E d \in Conns : Live(d)' /\ session'[d] = r
    <3>1. PICK d \in Conns : Live(d) /\ session[d] = r
      BY <1>11, <2>1 DEF RowsAreLive
    <3>2. d # c
      BY <1>11, <2>1, <3>1
    <3>3. QED
      BY <1>3, <1>5, <3>1, <3>2
  <2>2. QED
    BY <2>1 DEF RowsAreLive
<1>14. WorkCountedOnce'
  BY <1>1 DEF WorkCountedOnce
<1>15. WorkMarked'
  <2>1. \A d \in Conns : \A w \in work'[d] : ShareKey(d, w)' \in seen'[d]
    BY <1>3, <1>4 DEF WorkMarked, ShareKey
  <2>2. \A d \in Conns : d # c => extranonce1(d)' = extranonce1(d)
    BY <1>1, <1>3 DEF extranonce1
  <2>3. \A x \in counted, d \in Conns : Live(d)' /\ extranonce1(d)' = x[1] =>
           ShareKey(d, x[2])' \in seen'[d] /\ x[2] \notin work'[d]
    BY <1>3, <1>5, <2>2 DEF WorkMarked, ShareKey
  <2>4. QED
    BY <1>1, <2>1, <2>3 DEF WorkMarked
<1>16. BanKnown'
  BY <1>1, <1>3, <1>4 DEF BanKnown
<1>17. QED
  BY <1>7, <1>8, <1>9, <1>10, <1>12, <1>13, <1>14, <1>15, <1>16

\* The state of a bridge without connections.
Fresh ==
    /\ pc = [c \in Conns |-> "none"]
    /\ session = [c \in Conns |-> 0]
    /\ address = [c \in Conns |-> NoAddress]
    /\ wanted = [c \in Conns |-> NoAddress]
    /\ persisted = [c \in Conns |-> FALSE]
    /\ seen = [c \in Conns |-> {}]
    /\ work = [c \in Conns |-> {}]
    /\ base = accepted /\ accepted \in Nat
    /\ active = 0 /\ open = 0
    /\ offenses = NoOffenses
    /\ ban = "none"
    /\ holders = [a \in Addresses |-> 0]
    /\ counted = {}
    /\ during = [c \in Conns |-> 0]
    /\ rows \subseteq excused /\ \A r \in rows : r \in Nat /\ r <= accepted

LEMMA FreshIsFine ==
  ASSUME SessionsAssumption, Fresh
  PROVE  SessionsInv
<1> USE DEF Fresh
<1>1. SessionsTypeOK
  BY DEF SessionsTypeOK, Labels, NoOffenses
<1>2. \A c \in Conns : ~ Live(c)
  BY DEF Live
<1>3. Shape /\ Numbered /\ RowsKnown /\ RowsAreLive /\ WorkMarked /\ WorkCountedOnce /\ BanKnown
  BY <1>2 DEF Shape, Numbered, RowsKnown, RowsAreLive, WorkMarked, WorkCountedOnce, BanKnown
<1>4. PermitsExact
  <2>1. LiveConns = {}
    BY <1>2 DEF LiveConns
  <2>2. Cardinality(LiveConns) = 0
    BY <2>1, FS_EmptySet
  <2>3. \A a \in Addresses : Held(a) = 0
    BY CountNone DEF Held
  <2>4. QED
    BY <1>1, <2>2, <2>3, PermitsCounted DEF SessionsAssumption
<1>5. QED
  BY <1>1, <1>3, <1>4 DEF SessionsInv

LEMMA RestartKeeps ==
  ASSUME SessionsAssumption, SessionsInv, Restart
  PROVE  SessionsInv'
<1>1. Fresh'
  <2>1. PICK late \in SUBSET {session[c] : c \in {d \in Conns : pc[d] = "opening"}} :
           rows' = late /\ excused' = excused \cup late
    BY DEF Restart, close_stale_sessions
  <2>2. \A r \in late : r \in Nat /\ r <= accepted
    BY DEF SessionsInv, Numbered, Live, SessionsTypeOK
  <2>3. accepted \in Nat
    BY DEF SessionsInv, SessionsTypeOK
  <2>4. QED
    BY <2>1, <2>2, <2>3 DEF Restart, Fresh, NoOffenses
<1>2. SessionsAssumption'
  BY DEF SessionsAssumption
<1>3. Fresh' => SessionsInv'
  BY <1>2, FreshIsFine, PTL
<1>4. QED
  BY <1>1, <1>3

-----------------------------------------------------------------------------
LEMMA SessionsBegin ==
  ASSUME SessionsAssumption, SessionsInit
  PROVE  SessionsInv
<1>1. Fresh
  BY DEF SessionsInit, Fresh, NoOffenses
<1>2. QED
  BY <1>1, FreshIsFine

LEMMA SessionsStep ==
  ASSUME SessionsAssumption, SessionsInv, [SessionsNext]_sessionVars
  PROVE  SessionsInv'
<1>1. CASE UNCHANGED sessionVars
  <2>1. SessionsTypeOK' /\ Shape' /\ Numbered' /\ PermitsExact'
    BY <1>1 DEF sessionVars, SessionsInv, SessionsTypeOK, Shape, Numbered, PermitsExact, Live
  <2>2. RowsKnown' /\ RowsAreLive' /\ BanKnown'
    BY <1>1 DEF sessionVars, SessionsInv, RowsKnown, RowsAreLive, BanKnown, Live
  <2>3. WorkMarked' /\ WorkCountedOnce'
    BY <1>1 DEF sessionVars, SessionsInv, WorkMarked, WorkCountedOnce, Live, ShareKey, extranonce1
  <2>4. QED
    BY <2>1, <2>2, <2>3 DEF SessionsInv
<1>2. CASE SessionsNext
  BY <1>2, RestartKeeps, BetweenRequestsKeeps, AcceptKeeps, PlainRequestKeeps, OpenSessionKeeps,
     InsertShareKeeps, CloseKeeps, AuthorizeKeeps, SubmitKeeps DEF SessionsNext
<1>3. QED
  BY <1>1, <1>2

\* What connections hold, what the database has of them, and what the counters of
\* offenses say fit together at all times.
THEOREM SessionsInvariant == SessionsAssumption => (SessionsSpec => []SessionsInv)
<1> SUFFICES ASSUME SessionsAssumption PROVE SessionsSpec => []SessionsInv
  OBVIOUS
<1>1. SessionsInit => SessionsInv
  BY SessionsBegin
<1>2. SessionsInv /\ [SessionsNext]_sessionVars => SessionsInv'
  BY SessionsStep
<1>3. QED
  BY <1>1, <1>2, PTL DEF SessionsSpec

\* AbuseManager, ConnectionPermit, AddressPermit and StratumConnectionGuard: on every
\* path a connection may end on, through reauthorizations and failing database calls,
\* no permit leaks, none is given back twice, and no limit is passed.
THEOREM PermitsAreExact == SessionsAssumption => (SessionsSpec => []PermitsExact)
<1>1. SessionsInv => PermitsExact
  BY DEF SessionsInv
<1>2. QED
  BY <1>1, SessionsInvariant, PTL

\* open_session, close_session and close_stale_sessions: a row that looks open is that
\* of an open connection, or a call of the database failed for it.
THEOREM OpenRowsAreLive == SessionsAssumption => (SessionsSpec => []RowsAreLive)
<1>1. SessionsInv => RowsAreLive
  BY DEF SessionsInv
<1>2. QED
  BY <1>1, SessionsInvariant, PTL

\* seen_shares, extranonce1 and insert_share: between two starts of the bridge no piece
\* of work is counted twice, not for another address and not after a failed call.
THEOREM NoWorkTwice == SessionsAssumption => (SessionsSpec => []WorkCountedOnce)
<1>1. SessionsInv => WorkCountedOnce
  BY DEF SessionsInv
<1>2. QED
  BY <1>1, SessionsInvariant, PTL

\* record_offense, is_banned and try_open: during a ban no connection of the address
\* gets more than one more request in, whichever of them brought it about.
THEOREM BansCutOff == SessionsAssumption => (SessionsSpec => []BanCutsOff)
<1>1. SessionsInv => BanCutsOff
  BY DEF SessionsInv, BanKnown, BanCutsOff, SessionsTypeOK
<1>2. QED
  BY <1>1, SessionsInvariant, PTL


-----------------------------------------------------------------------------
(***************************************************************************)
(* Variable difficulty.                                                    *)
(***************************************************************************)

VardiffTypeOK ==
    /\ rate \in Nat \ {0}
    /\ current \in Nat \ {0}
    /\ previous \in Nat
    /\ grace \in Int
    /\ started \in BOOLEAN
    /\ suggested \in BOOLEAN
    /\ adjusted \in Nat
    /\ ewma \in Nat
    /\ \A x \in told : x.difficulty \in Nat /\ x.ago \in Nat

\* x is the difficulty before the current one, and the grace runs from its replacement.
LastReplaced(x, before, left) == x.difficulty = before /\ before # None /\ left = Grace - x.ago

\* x was replaced min_adjust_secs ago or longer, and another one since.
Outdated(x, set) == x.ago >= MinAdjust /\ \E y \in set : y.ago < x.ago

\* A difficulty that is remembered is the one before the current one or an outdated one,
\* and the time until the next change runs from the last replacement.
OnlyPrevious ==
    /\ \A x \in told :
         /\ LastReplaced(x, previous, grace) \/ Outdated(x, told)
         /\ x.ago < Grace
         /\ started => adjusted <= x.ago
    /\ ~ suggested /\ ~ started => told = {}

VardiffInv == VardiffTypeOK /\ OnlyPrevious

-----------------------------------------------------------------------------
(***************************************************************************)
(* Arithmetic of the adjustment.                                           *)
(***************************************************************************)

\* A quotient of naturals is one.
LEMMA QuotientIsNat ==
  ASSUME NEW a \in Nat, NEW d \in Nat \ {0}
  PROVE  a \div d \in Nat
  OBVIOUS

\* What is rounded, and what is quantized, is a difficulty.
LEMMA RoundedIsNat ==
  ASSUME NEW a \in Nat, NEW d \in Nat \ {0}
  PROVE  Rounded(a, d) \in Nat
<1>1. 2 * a + d \in Nat /\ 2 * d \in Nat \ {0}
  OBVIOUS
<1>2. QED
  BY <1>1, QuotientIsNat DEF Rounded

\* quantize_difficulty stays between the limits.
LEMMA QuantizedIsDifficulty ==
  ASSUME NEW x \in Nat
  PROVE  quantize_difficulty(x) \in Nat \ {0}
  BY VardiffAssumption DEF quantize_difficulty, Clamp

\* The moving average, the desired difficulty and the suggested one are numbers.
LEMMA AverageIsNat ==
  ASSUME VardiffTypeOK, NEW t \in Nat
  PROVE  Average(t) \in Nat
<1>1. Clamp(t, 50, 4 * Target) \in Nat
  BY DEF Clamp, Target
<1>2. ewma \in Nat
  BY DEF VardiffTypeOK
<1>3. Clamp(t, 50, 4 * Target) + 3 * ewma \in Nat
  BY <1>1, <1>2
<1>4. (Clamp(t, 50, 4 * Target) + 3 * ewma) \div 4 \in Nat
  BY <1>3, QuotientIsNat
<1>5. QED
  BY <1>1, <1>4 DEF Average

\* The difficulty record_accepted_share asks for.
LEMMA DesiredIsNat ==
  ASSUME VardiffTypeOK, NEW average \in Nat
  PROVE  Desired(average) \in Nat
<1>1. current \in Nat /\ current * Target \in Nat
  BY DEF VardiffTypeOK, Target
<1>2. Target \div Factor = 10000
  BY DEF Target, Factor
<1>3. /\ Clamp(average, Target \div Factor, Target) \in Nat \ {0}
      /\ Clamp(average, Target, Target * Factor) \in Nat \ {0}
  BY <1>2 DEF Clamp, Target, Factor
<1>4. /\ Rounded(current * Target, Clamp(average, Target \div Factor, Target)) \in Nat
      /\ Rounded(current * Target, Clamp(average, Target, Target * Factor)) \in Nat
  BY <1>1, <1>3, RoundedIsNat
<1>5. QED
  BY <1>1, <1>4 DEF Desired

\* The difficulty a suggestion may bring.
LEMMA SuggestedIsDifficulty ==
  ASSUME VardiffTypeOK, NEW s \in Suggestions
  PROVE  Suggested(s) \in Nat \ {0}
<1>1. s \in Nat /\ current \in Nat
  BY VardiffAssumption DEF VardiffTypeOK
<1>2. Clamp(s, MinDifficulty, MaxDifficulty) \in Nat
  BY <1>1, VardiffAssumption DEF Clamp
<1>3. Clamp(2 * Clamp(s, MinDifficulty, MaxDifficulty), current, 4 * current) \in Nat
  BY <1>1, <1>2 DEF Clamp
<1>4. QED
  BY <1>3, RoundedIsNat, QuantizedIsDifficulty DEF Suggested

-----------------------------------------------------------------------------
(***************************************************************************)
(* The steps.                                                              *)
(***************************************************************************)

\* A session begins.
LEMMA VardiffStarts ==
  VardiffInit => VardiffInv
<1> SUFFICES ASSUME VardiffInit PROVE VardiffInv
  OBVIOUS
<1>1. current \in Nat \ {0}
  BY VardiffAssumption, QuantizedIsDifficulty DEF VardiffInit
<1>2. rate \in Nat \ {0}
  BY VardiffAssumption DEF VardiffInit
<1>3. VardiffTypeOK
  <2>1. previous \in Nat /\ grace \in Int /\ adjusted \in Nat /\ ewma \in Nat
    BY SMT DEF VardiffInit, None, NoTime
  <2>2. started \in BOOLEAN /\ suggested \in BOOLEAN
    BY Zenon DEF VardiffInit
  <2>3. \A x \in told : x.difficulty \in Nat /\ x.ago \in Nat
    BY DEF VardiffInit
  <2>4. QED
    BY <1>1, <1>2, <2>1, <2>2, <2>3, Zenon DEF VardiffTypeOK
<1>4. OnlyPrevious
  BY DEF VardiffInit, OnlyPrevious
<1>5. QED
  BY <1>3, <1>4 DEF VardiffInv

\* Time passes and nothing is replaced: what is remembered ages with the grace.
LEMMA AgesKeeps ==
  ASSUME VardiffInv, NEW t \in Nat, told' = Aged(t), grace' = GraceAfter(t), previous' = previous
  PROVE  /\ grace' \in Int
         /\ \A x \in told' :
              /\ x.difficulty \in Nat /\ x.ago \in Nat /\ x.ago < Grace
              /\ LastReplaced(x, previous', grace') \/ Outdated(x, told')
              /\ started => adjusted + t <= x.ago
              /\ t <= x.ago
<1>1. grace' \in Int
  BY DEF VardiffInv, VardiffTypeOK, GraceAfter, NoTime
<1>2. SUFFICES ASSUME NEW x \in told'
               PROVE  /\ x.difficulty \in Nat /\ x.ago \in Nat /\ x.ago < Grace
                      /\ LastReplaced(x, previous', grace') \/ Outdated(x, told')
                      /\ started => adjusted + t <= x.ago
                      /\ t <= x.ago
  BY <1>1
<1>3. PICK y \in told : y.ago + t < Grace /\ x = [difficulty |-> y.difficulty, ago |-> y.ago + t]
  BY DEF Aged
<1>4. /\ y.difficulty \in Nat /\ y.ago \in Nat /\ adjusted \in Nat /\ (started => adjusted <= y.ago)
      /\ LastReplaced(y, previous, grace) \/ Outdated(y, told)
  BY DEF VardiffInv, VardiffTypeOK, OnlyPrevious
<1>5. x.difficulty = y.difficulty /\ x.ago = y.ago + t
  BY <1>3
<1>6. LastReplaced(y, previous, grace) => LastReplaced(x, previous', grace')
  <2>1. SUFFICES ASSUME LastReplaced(y, previous, grace) PROVE LastReplaced(x, previous', grace')
    OBVIOUS
  <2>2. y.difficulty = previous /\ previous # None /\ grace = Grace - y.ago
    BY <2>1 DEF LastReplaced
  <2>3. grace >= t
    BY <1>3, <1>4, <2>2, VardiffAssumption
  <2>4. grace' = grace - t
    BY <2>3 DEF GraceAfter
  <2>5. QED
    BY <1>4, <1>5, <2>2, <2>4, VardiffAssumption DEF LastReplaced
<1>7. Outdated(y, told) => Outdated(x, told')
  <2>1. SUFFICES ASSUME Outdated(y, told) PROVE Outdated(x, told')
    OBVIOUS
  <2>2. PICK z \in told : z.ago < y.ago /\ y.ago >= MinAdjust
    BY <2>1 DEF Outdated
  <2>3. z.ago \in Nat
    BY DEF VardiffInv, VardiffTypeOK
  <2>4. z.ago + t < Grace
    BY <1>3, <1>4, <2>2, <2>3, VardiffAssumption
  <2>5. [difficulty |-> z.difficulty, ago |-> z.ago + t] \in told'
    BY <2>4 DEF Aged
  <2>6. PICK w \in told' : w.ago = z.ago + t
    BY <2>5
  <2>7. w.ago < x.ago /\ x.ago >= MinAdjust
    BY <1>4, <1>5, <2>2, <2>3, <2>6, VardiffAssumption
  <2>8. QED
    BY <2>7 DEF Outdated
<1>8. QED
  BY <1>3, <1>4, <1>5, <1>6, <1>7

\* A change: what was remembered before it is outdated by it.
LEMMA ChangeKeeps ==
  ASSUME VardiffInv, NEW next \in Nat \ {0}, NEW t \in Nat,
         \A y \in told : y.ago + t >= MinAdjust, apply_difficulty(next, t)
  PROVE  /\ current' \in Nat \ {0} /\ previous' \in Nat /\ grace' \in Int /\ adjusted' = 0
         /\ \A x \in told' :
              /\ x.difficulty \in Nat /\ x.ago \in Nat /\ x.ago < Grace
              /\ LastReplaced(x, previous', grace') \/ Outdated(x, told')
              /\ adjusted' <= x.ago
<1>1. /\ previous' = current /\ current' = next /\ grace' = Grace /\ adjusted' = 0
      /\ told' = Aged(t) \cup {[difficulty |-> current, ago |-> 0]}
  BY DEF apply_difficulty
<1>2. current \in Nat \ {0}
  BY DEF VardiffInv, VardiffTypeOK
<1>3. PICK new : new = [difficulty |-> current, ago |-> 0]
  OBVIOUS
<1>4. /\ new \in told' /\ new.difficulty = current /\ new.ago = 0
      /\ told' = Aged(t) \cup {new}
  BY <1>1, <1>3
<1>5. LastReplaced(new, previous', grace')
  BY <1>1, <1>2, <1>4, VardiffAssumption DEF LastReplaced, None
<1>6. ASSUME NEW x \in Aged(t)
      PROVE  x.difficulty \in Nat /\ x.ago \in Nat /\ x.ago < Grace /\ Outdated(x, told')
  <2>1. PICK y \in told : y.ago + t < Grace /\ x = [difficulty |-> y.difficulty, ago |-> y.ago + t]
    BY DEF Aged
  <2>2. x.difficulty = y.difficulty /\ x.ago = y.ago + t
    BY <2>1
  <2>3. y.difficulty \in Nat /\ y.ago \in Nat
    BY DEF VardiffInv, VardiffTypeOK
  <2>4. x.ago >= MinAdjust /\ new.ago < x.ago
    BY <1>4, <2>2, <2>3, VardiffAssumption
  <2>5. QED
    BY <1>4, <2>1, <2>2, <2>3, <2>4 DEF Outdated
<1>7. ASSUME NEW x \in told'
      PROVE  /\ x.difficulty \in Nat /\ x.ago \in Nat /\ x.ago < Grace
             /\ LastReplaced(x, previous', grace') \/ Outdated(x, told')
             /\ adjusted' <= x.ago
  <2>1. CASE x = new
    BY <1>1, <1>2, <1>4, <1>5, <2>1, VardiffAssumption
  <2>2. CASE x \in Aged(t)
    <3>1. x.difficulty \in Nat /\ x.ago \in Nat /\ x.ago < Grace /\ Outdated(x, told')
      BY <1>6, <2>2
    <3>2. adjusted' = 0
      BY <1>1
    <3>3. adjusted' <= x.ago
      BY <3>1, <3>2
    <3>4. QED
      BY <3>1, <3>3, Zenon
  <2>3. QED
    BY <1>4, <2>1, <2>2
<1>8. current' \in Nat \ {0} /\ previous' \in Nat /\ grace' \in Int /\ adjusted' = 0
  BY <1>1, <1>2, VardiffAssumption
<1>9. QED
  BY <1>7, <1>8, Zenon

\* A suggestion is taken before the first share, when nothing has been replaced.
LEMMA SuggestionKeepsVardiffInv ==
  ASSUME VardiffInv, apply_suggested_difficulty
  PROVE  VardiffInv'
<1>1. /\ ~ suggested /\ ~ started /\ suggested' = TRUE /\ rate' = rate /\ started' = started /\ ewma' = ewma
  BY DEF apply_suggested_difficulty
<1>2. told = {}
  BY <1>1 DEF VardiffInv, OnlyPrevious
<1>3. PICK s \in Suggestions :
        \/ UNCHANGED <<current, previous, grace, adjusted, told, adjustments>>
        \/ apply_difficulty(Suggested(s), 0)
  BY DEF apply_suggested_difficulty
<1>4. CASE UNCHANGED <<current, previous, grace, adjusted, told, adjustments>>
  BY <1>1, <1>2, <1>4 DEF VardiffInv, VardiffTypeOK, OnlyPrevious
<1>5. CASE apply_difficulty(Suggested(s), 0)
  <2>1. Suggested(s) \in Nat \ {0}
    BY SuggestedIsDifficulty DEF VardiffInv
  <2>2. \A y \in told : y.ago + 0 >= MinAdjust
    BY <1>2
  <2>3. PICK next \in Nat \ {0} : next = Suggested(s)
    BY <2>1
  <2>4. apply_difficulty(next, 0)
    BY <1>5, <2>3
  <2>5. /\ current' \in Nat \ {0} /\ previous' \in Nat /\ grace' \in Int /\ adjusted' = 0
        /\ \A x \in told' :
             /\ x.difficulty \in Nat /\ x.ago \in Nat /\ x.ago < Grace
             /\ LastReplaced(x, previous', grace') \/ Outdated(x, told')
             /\ adjusted' <= x.ago
    BY <2>2, <2>4, ChangeKeeps
  <2>6. QED
    BY <1>1, <2>5 DEF VardiffInv, VardiffTypeOK, OnlyPrevious
<1>6. QED
  BY <1>3, <1>4, <1>5

\* A share: a change is made only when the last one is min_adjust_secs old.
LEMMA ShareKeepsVardiffInv ==
  ASSUME VardiffInv, Share
  PROVE  VardiffInv'
<1> DEFINE t == (Target * current) \div rate
           since == IF adjusted + t < MinAdjust THEN adjusted + t ELSE MinAdjust
           next == quantize_difficulty(Desired(Average(t)))
<1>1. t \in Nat
  <2>1. Target * current \in Nat /\ rate \in Nat \ {0}
    BY DEF VardiffInv, VardiffTypeOK, Target
  <2>2. QED
    BY <2>1, QuotientIsNat
<1>2. rate' = rate /\ suggested' = suggested /\ record_accepted_share(t)
  BY DEF Share
<1> HIDE DEF t
<1>3. Average(t) \in Nat
  BY <1>1, AverageIsNat DEF VardiffInv
<1>4. next \in Nat \ {0}
  BY <1>3, DesiredIsNat, QuantizedIsDifficulty DEF VardiffInv
<1>5. adjusted \in Nat /\ ewma \in Nat /\ current \in Nat \ {0} /\ previous \in Nat
  BY DEF VardiffInv, VardiffTypeOK
<1>6. /\ started' = TRUE /\ ewma' = IF started THEN Average(t) ELSE ewma
      /\ IF ~ started \/ ~ AdjustDue(since) \/ TooClose(next)
         THEN /\ adjusted' = IF started THEN since ELSE 0
              /\ grace' = GraceAfter(t)
              /\ told' = Aged(t)
              /\ UNCHANGED <<current, previous, adjustments>>
         ELSE apply_difficulty(next, t)
  BY <1>2 DEF record_accepted_share
<1>7. since \in Nat /\ since <= adjusted + t /\ (AdjustDue(since) => adjusted + t >= MinAdjust)
  BY <1>1, <1>5, VardiffAssumption DEF AdjustDue
<1> HIDE DEF next, since
<1>8. CASE ~ started \/ ~ AdjustDue(since) \/ TooClose(next)
  <2>1. /\ adjusted' = IF started THEN since ELSE 0
        /\ grace' = GraceAfter(t) /\ told' = Aged(t) /\ current' = current /\ previous' = previous
    BY <1>6, <1>8
  <2>2. /\ grace' \in Int
        /\ \A x \in told' :
             /\ x.difficulty \in Nat /\ x.ago \in Nat /\ x.ago < Grace
             /\ LastReplaced(x, previous', grace') \/ Outdated(x, told')
             /\ started => adjusted + t <= x.ago
             /\ t <= x.ago
    BY <1>1, <2>1, AgesKeeps
  <2>3. \A x \in told' : adjusted' <= x.ago
    BY <1>1, <1>5, <1>7, <2>1, <2>2
  <2>4. ewma' \in Nat /\ adjusted' \in Nat
    BY <1>3, <1>5, <1>6, <1>7, <2>1
  <2>5. VardiffTypeOK'
    BY <1>2, <1>5, <1>6, <2>1, <2>2, <2>4 DEF VardiffInv, VardiffTypeOK
  <2>6. OnlyPrevious'
    BY <1>6, <2>2, <2>3 DEF OnlyPrevious
  <2>7. QED
    BY <2>5, <2>6 DEF VardiffInv
<1>9. CASE ~ (~ started \/ ~ AdjustDue(since) \/ TooClose(next))
  <2>1. apply_difficulty(next, t) /\ started /\ AdjustDue(since)
    BY <1>6, <1>9
  <2>2. ASSUME NEW y \in told PROVE y.ago + t >= MinAdjust
    <3>1. y.ago \in Nat /\ adjusted <= y.ago
      BY <2>1 DEF VardiffInv, VardiffTypeOK, OnlyPrevious
    <3>2. QED
      BY <1>1, <1>5, <1>7, <2>1, <3>1, VardiffAssumption
  <2>3. /\ current' \in Nat \ {0} /\ previous' \in Nat /\ grace' \in Int /\ adjusted' = 0
        /\ \A x \in told' :
             /\ x.difficulty \in Nat /\ x.ago \in Nat /\ x.ago < Grace
             /\ LastReplaced(x, previous', grace') \/ Outdated(x, told')
             /\ adjusted' <= x.ago
    <3>1. PICK n \in Nat \ {0} : n = next
      BY <1>4 DEF next
    <3>2. PICK u \in Nat : u = t
      BY <1>1
    <3>3. apply_difficulty(n, u) /\ \A y \in told : y.ago + u >= MinAdjust
      BY <2>1, <2>2, <3>1, <3>2
    <3>4. QED
      BY <3>3, ChangeKeeps
  <2>4. ewma' \in Nat
    BY <1>3, <1>5, <1>6
  <2>5. QED
    BY <1>2, <1>6, <2>3, <2>4 DEF VardiffInv, VardiffTypeOK, OnlyPrevious
<1>10. QED
  BY <1>8, <1>9

\* Every step of a session keeps the invariant.
LEMMA VardiffStep ==
  ASSUME VardiffInv, [VardiffNext]_vardiffVars
  PROVE  VardiffInv'
<1>1. CASE apply_suggested_difficulty
  BY <1>1, SuggestionKeepsVardiffInv
<1>2. CASE Share
  BY <1>2, ShareKeepsVardiffInv
<1>3. CASE RateChanges
  <2>1. rate' \in Nat \ {0}
    BY <1>3, VardiffAssumption DEF RateChanges
  <2>2. QED
    BY <1>3, <2>1 DEF RateChanges, VardiffInv, VardiffTypeOK, OnlyPrevious
<1>4. CASE UNCHANGED vardiffVars
  BY <1>4 DEF vardiffVars, VardiffInv, VardiffTypeOK, OnlyPrevious
<1>5. QED
  BY <1>1, <1>2, <1>3, <1>4 DEF VardiffNext

\* docs/protocol-spec.md, apply_difficulty and record_accepted_share: for every limit
\* of the difficulties, min_adjust_secs and grace, and every sequence of speeds, the
\* difficulty before the last change is accepted for the grace, and every difficulty for
\* the shorter of the two times after its replacement: only one before the current one is
\* kept, and the next change waits for min_adjust_secs.
THEOREM GraceIsHonoured ==
  VardiffSpec => []GraceHonoured
<1>1. VardiffInit => VardiffInv
  BY VardiffStarts
<1>2. VardiffInv /\ [VardiffNext]_vardiffVars => VardiffInv'
  BY VardiffStep
<1>3. VardiffInv => GraceHonoured
  <2>1. SUFFICES ASSUME VardiffInv, NEW x \in Forgiven PROVE x.difficulty >= previous_difficulty_in_grace
    BY DEF GraceHonoured
  <2>2. /\ x \in told /\ x.ago < Grace /\ x.ago \in Nat /\ previous \in Nat /\ current \in Nat
        /\ \A y \in told : y.ago \in Nat
    BY <2>1 DEF VardiffInv, VardiffTypeOK, OnlyPrevious, Forgiven
  <2>3. ~ Outdated(x, told)
    <3>1. x.ago < MinAdjust \/ \A y \in told : x.ago <= y.ago
      BY DEF Forgiven
    <3>2. QED
      BY <2>2, <3>1, VardiffAssumption DEF Outdated
  <2>4. x.difficulty = previous /\ previous # None /\ grace = Grace - x.ago
    BY <2>1, <2>2, <2>3 DEF VardiffInv, OnlyPrevious, LastReplaced
  <2>5. grace # NoTime
    BY <2>2, <2>4, VardiffAssumption DEF NoTime
  <2>6. QED
    BY <2>2, <2>4, <2>5 DEF previous_difficulty_in_grace
<1>4. QED
  BY <1>1, <1>2, <1>3, PTL DEF VardiffSpec

-----------------------------------------------------------------------------
(***************************************************************************)
(* The template cache.                                                     *)
(***************************************************************************)

Stored == Templates \cup {NoTemplate}

CacheTypeOK ==
    /\ entries \in [JobNames -> [template : Stored, slot : 0 .. MaxSlots, fetch_started : BOOLEAN]]
    /\ order \in Seq(JobNames)
    /\ issued \in [1 .. MaxSlots -> Stored]
    /\ material \in [1 .. MaxSlots -> Stored]
    /\ task \in [1 .. MaxTasks ->
                   [template : Stored, slot : 0 .. MaxSlots, material : Stored,
                    phase : {"none", "waiting", "fetching", "finishing", "over"}]]
    /\ slots \in 0 .. MaxSlots
    /\ tasks \in 0 .. MaxTasks
    /\ in_flight = tasks

\* A slot was handed out, with this template.
IssuedWith(slot, template) ==
    template \in Templates /\ slot \in 1 .. slots /\ issued[slot] = template

\* An entry is the one of its job, and its slot was handed out with its template.
EntriesOwn ==
    \A j \in JobNames : entries[j] # NoEntry =>
      /\ IssuedWith(entries[j].slot, entries[j].template)
      /\ entries[j].template.job = j
      /\ j \in Range(order)

\* A task fetches for the slot and the template it was begun with.
TasksOwn ==
    \A n \in 1 .. MaxTasks :
      IF n <= tasks
      THEN /\ IssuedWith(task[n].slot, task[n].template)
           /\ task[n].material \in {NoTemplate, task[n].template}
      ELSE task[n] = NoTask

\* A slot that was not handed out is empty.
NewSlotsEmpty == \A s \in 1 .. MaxSlots : s > slots => material[s] = NoTemplate

CacheInv ==
    /\ CacheTypeOK
    /\ EntriesOwn
    /\ TasksOwn
    /\ NewSlotsEmpty
    /\ OwnMaterial
    /\ NoFetchForgotten

-----------------------------------------------------------------------------
\* slot_for: the order has the new job in it, however many make room for it.
LEMMA KeptHasJob ==
  ASSUME order \in Seq(JobNames), NEW t \in Templates
  PROVE  Kept(t) \in Seq(JobNames) /\ t.job \in Range(Kept(t))
<1> DEFINE i == CHOOSE i \in DOMAIN order : order[i] = t.job
           retained == IF t.job \in Range(order) THEN RemoveAt(order, i) ELSE order
<1>1. retained \in Seq(JobNames)
  <2>1. CASE t.job \in Range(order)
    <3>1. DOMAIN order = 1 .. Len(order) /\ Len(order) \in Nat
      BY LenProperties
    <3>2. i \in 1 .. Len(order)
      BY <2>1, <3>1 DEF Range
    <3> HIDE DEF i
    <3>3. SubSeq(order, 1, i - 1) \in Seq(JobNames)
      <4>1. \A k \in 1 .. i - 1 : order[k] \in JobNames
        BY <3>1, <3>2, ElementOfSeq
      <4>2. 1 \in Int /\ i - 1 \in Int
        BY <3>2
      <4>3. QED
        BY <4>1, <4>2, SubSeqProperties
    <3>4. SubSeq(order, i + 1, Len(order)) \in Seq(JobNames)
      <4>1. \A k \in i + 1 .. Len(order) : order[k] \in JobNames
        BY <3>1, <3>2, ElementOfSeq
      <4>2. i + 1 \in Int /\ Len(order) \in Int
        BY <3>1, <3>2
      <4>3. QED
        BY <4>1, <4>2, SubSeqProperties
    <3>5. QED
      BY <2>1, <3>3, <3>4, ConcatProperties DEF RemoveAt
  <2>2. CASE t.job \notin Range(order)
    BY <2>2
  <2>3. QED
    BY <2>1, <2>2
<1>2. Order(t) = Append(retained, t.job)
  BY DEF Order
<1> HIDE DEF i, retained
<1>3. t.job \in JobNames
  BY DEF JobNames
<1> DEFINE n == Len(retained)
<1>4. /\ Order(t) \in Seq(JobNames) /\ Order(t) # <<>> /\ n \in Nat
      /\ Len(Order(t)) = n + 1 /\ Order(t)[n + 1] = t.job
  BY <1>1, <1>2, <1>3, AppendProperties, LenProperties
<1>5. CASE n + 1 > MaxEntries
  <2>1. Kept(t) = Tail(Order(t)) /\ n >= 1
    BY <1>4, <1>5, CacheAssumption DEF Kept
  <2> HIDE DEF n
  <2>2. Kept(t) \in Seq(JobNames) /\ Len(Kept(t)) = n /\ Kept(t)[n] = t.job
    <3>1. /\ Tail(Order(t)) \in Seq(JobNames) /\ Len(Tail(Order(t))) = Len(Order(t)) - 1
          /\ \A k \in 1 .. Len(Tail(Order(t))) : Tail(Order(t))[k] = Order(t)[k + 1]
      BY <1>4, HeadTailProperties
    <3>2. QED
      BY <1>4, <2>1, <3>1
  <2>3. DOMAIN Kept(t) = 1 .. n /\ n \in 1 .. n
    BY <1>4, <2>1, <2>2, LenProperties
  <2>4. QED
    BY <2>2, <2>3 DEF Range
<1>6. CASE ~ (n + 1 > MaxEntries)
  <2>1. Kept(t) = Order(t)
    BY <1>4, <1>6 DEF Kept
  <2> HIDE DEF n
  <2>2. QED
    BY <1>4, <2>1, LenProperties DEF Range
<1>7. QED
  BY <1>5, <1>6

\* The facts a step uses about an entry: its slot is one of those handed out.
LEMMA EntryOf ==
  ASSUME CacheInv, NEW t \in Templates, entries[t.job].template = t
  PROVE  /\ t.job \in JobNames /\ entries[t.job] # NoEntry
         /\ entries[t.job].slot \in 1 .. slots /\ entries[t.job].slot \in 1 .. MaxSlots
         /\ IssuedWith(entries[t.job].slot, t) /\ t.job \in Range(order)
<1>1. t.job \in JobNames
  BY DEF JobNames
<1>2. entries[t.job] # NoEntry
  BY CacheAssumption DEF NoEntry
<1>3. /\ IssuedWith(entries[t.job].slot, entries[t.job].template)
      /\ t.job \in Range(order)
  BY <1>1, <1>2 DEF CacheInv, EntriesOwn
<1>4. slots \in 0 .. MaxSlots
  BY DEF CacheInv, CacheTypeOK
<1>5. QED
  BY <1>1, <1>2, <1>3, <1>4, CacheAssumption DEF IssuedWith

\* Two entries have two slots, for a slot was handed out with one template.
LEMMA SlotsDiffer ==
  ASSUME CacheInv, NEW j \in JobNames, NEW k \in JobNames, entries[j] # NoEntry,
         entries[k].slot = entries[j].slot
  PROVE  k = j
<1>1. IssuedWith(entries[j].slot, entries[j].template) /\ entries[j].template.job = j
  BY DEF CacheInv, EntriesOwn
<1>2. entries[k] # NoEntry
  BY <1>1 DEF NoEntry, IssuedWith
<1>3. IssuedWith(entries[k].slot, entries[k].template) /\ entries[k].template.job = k
  BY <1>2 DEF CacheInv, EntriesOwn
<1>4. QED
  BY <1>1, <1>3 DEF IssuedWith

\* A task that has not ended.
Alive(n) == task[n].phase \in {"waiting", "fetching", "finishing"}

\* It was begun, for the slot and the template it was given.
LEMMA AliveWasBegun ==
  ASSUME CacheInv, NEW n \in 1 .. MaxTasks, Alive(n)
  PROVE  n <= tasks /\ IssuedWith(task[n].slot, task[n].template)
<1>1. task[n] # NoTask
  BY DEF Alive, NoTask
<1>2. QED
  BY <1>1 DEF CacheInv, TasksOwn

\* The entry of a job and the task that fetches for its slot have the same template.
LEMMA TaskOfEntry ==
  ASSUME CacheInv, NEW n \in 1 .. MaxTasks, Alive(n), NEW j \in JobNames, entries[j].fetch_started,
         task[n].slot = entries[j].slot
  PROVE  /\ entries[j] # NoEntry /\ task[n].template = entries[j].template
         /\ task[n].template.job = j /\ task[n].template \in Templates
<1>1. entries[j] # NoEntry
  BY DEF NoEntry
<1>2. IssuedWith(entries[j].slot, entries[j].template) /\ entries[j].template.job = j
  BY <1>1 DEF CacheInv, EntriesOwn
<1>3. IssuedWith(task[n].slot, task[n].template)
  BY AliveWasBegun
<1>4. QED
  BY <1>1, <1>2, <1>3 DEF IssuedWith

\* A fetch is begun: the tasks before it keep what they have, and at most the last of
\* them, if it is for another job, ends.
LEMMA SpawnTasks ==
  ASSUME CacheInv, NEW t \in Templates, NEW slot \in 1 .. MaxSlots, Spawn(t, slot)
  PROVE  /\ tasks' = tasks + 1 /\ tasks' \in 1 .. MaxTasks /\ in_flight' = tasks'
         /\ task'[tasks'].slot = slot /\ task'[tasks'].template = t /\ Alive(tasks)'
         /\ task'[tasks'].material = NoTemplate
         /\ \A n \in 1 .. MaxTasks : n # tasks' =>
              /\ task'[n].slot = task[n].slot /\ task'[n].template = task[n].template
              /\ task'[n].material = task[n].material
              /\ (n = in_flight /\ task[n].template.job # t.job /\ task[n].phase # "none")
                   \/ task'[n] = task[n]
         /\ task' \in [1 .. MaxTasks ->
                         [template : Stored, slot : 0 .. MaxSlots, material : Stored,
                          phase : {"none", "waiting", "fetching", "finishing", "over"}]]
<1> DEFINE begun == [template |-> t, slot |-> slot, phase |-> "waiting", material |-> NoTemplate]
           old == Aborted(t)
           Task == [template : Stored, slot : 0 .. MaxSlots, material : Stored,
                    phase : {"none", "waiting", "fetching", "finishing", "over"}]
<1>1. tasks \in 0 .. MaxTasks /\ in_flight = tasks /\ task \in [1 .. MaxTasks -> Task]
  BY DEF CacheInv, CacheTypeOK
<1>2. tasks < MaxTasks /\ tasks' = tasks + 1 /\ in_flight' = tasks + 1
      /\ task' = [old EXCEPT ![tasks + 1] = begun]
  BY DEF Spawn
<1>3. tasks + 1 \in 1 .. MaxTasks
  BY <1>1, <1>2, CacheAssumption
<1>4. /\ begun.template = t /\ begun.slot = slot /\ begun.phase = "waiting"
      /\ begun.material = NoTemplate /\ begun \in Task
  <2>1. slot \in 0 .. MaxSlots /\ t \in Stored /\ NoTemplate \in Stored
    BY DEF Stored
  <2>2. QED
    BY <2>1
<1>5. \A n \in 1 .. MaxTasks :
        /\ old[n].slot = task[n].slot /\ old[n].template = task[n].template
        /\ old[n].material = task[n].material
        /\ old[n] \in Task
        /\ (n = in_flight /\ task[n].template.job # t.job /\ task[n].phase # "none")
             \/ old[n] = task[n]
  BY <1>1 DEF Aborted
<1>6. old \in [1 .. MaxTasks -> Task]
  <2>1. old = [n \in 1 .. MaxTasks |-> old[n]]
    BY DEF Aborted
  <2>2. QED
    BY <1>5, <2>1
<1> HIDE DEF begun, old, Task
<1>7. task' \in [1 .. MaxTasks -> Task] /\ task'[tasks + 1] = begun
  BY <1>2, <1>3, <1>4, <1>6
<1>8. \A n \in 1 .. MaxTasks : n # tasks + 1 => task'[n] = old[n]
  BY <1>2, <1>6
<1>9. Alive(tasks)'
  BY <1>2, <1>4, <1>7 DEF Alive
<1>10. QED
  BY <1>2, <1>3, <1>4, <1>5, <1>7, <1>8, <1>9 DEF Task

\* TasksOwn after a fetch was begun for a slot that has been handed out.
LEMMA SpawnKeepsTasksOwn ==
  ASSUME CacheInv, NEW t \in Templates, NEW slot \in 1 .. MaxSlots, Spawn(t, slot),
         slots' \in Nat, slots' >= slots, IssuedWith(slot, t)',
         \A s \in 1 .. slots : issued'[s] = issued[s]
  PROVE  TasksOwn'
<1> SUFFICES ASSUME NEW n \in 1 .. MaxTasks
             PROVE  IF n <= tasks'
                    THEN /\ IssuedWith(task[n].slot, task[n].template)'
                         /\ task'[n].material \in {NoTemplate, task'[n].template}
                    ELSE task'[n] = NoTask
  BY DEF TasksOwn, IssuedWith
<1>1. tasks \in 0 .. MaxTasks /\ in_flight = tasks /\ slots \in 0 .. MaxSlots
  BY DEF CacheInv, CacheTypeOK
<1>2. tasks' = tasks + 1
  BY SpawnTasks
<1>3. CASE n = tasks'
  <2>1. task'[n].slot = slot /\ task'[n].template = t /\ task'[n].material = NoTemplate
    BY <1>3, SpawnTasks
  <2>2. QED
    BY <1>3, <2>1 DEF IssuedWith
<1>4. CASE n <= tasks
  <2>1. IssuedWith(task[n].slot, task[n].template) /\ task[n].material \in {NoTemplate, task[n].template}
    BY <1>4 DEF CacheInv, TasksOwn
  <2>2. /\ task'[n].slot = task[n].slot /\ task'[n].template = task[n].template
        /\ task'[n].material = task[n].material
    BY <1>1, <1>2, <1>4, SpawnTasks
  <2>3. n <= tasks'
    BY <1>1, <1>2, <1>4
  <2>4. QED
    BY <1>1, <2>1, <2>2, <2>3 DEF IssuedWith
<1>5. CASE n > tasks'
  <2>1. n > tasks /\ n # in_flight /\ n # tasks'
    BY <1>1, <1>2, <1>5
  <2>2. task[n] = NoTask
    BY <1>1, <2>1 DEF CacheInv, TasksOwn
  <2>3. task'[n] = task[n]
    BY <2>1, SpawnTasks
  <2>4. QED
    BY <1>1, <1>2, <1>5, <2>2, <2>3
<1>6. QED
  BY <1>1, <1>2, <1>3, <1>4, <1>5

\* The fetch of another job goes on, unless it is the one that cancel_fetch is told of.
LEMMA SpawnForgetsNone ==
  ASSUME CacheInv, NEW t \in Templates, NEW slot \in 1 .. MaxSlots, Spawn(t, slot),
         NEW j \in JobNames, j # t.job, entries[j].fetch_started,
         material[entries[j].slot] = NoTemplate,
         ~ (in_flight # 0 /\ task[in_flight].template.job = j)
  PROVE  \E n \in 1 .. MaxTasks : task'[n].slot = entries[j].slot /\ Alive(n)'
<1>1. PICK n \in 1 .. MaxTasks : task[n].slot = entries[j].slot /\ Alive(n)
  BY DEF CacheInv, NoFetchForgotten, Alive
<1>2. n <= tasks /\ task[n].template.job = j
  BY <1>1, AliveWasBegun, TaskOfEntry
<1>3. n # in_flight /\ n # tasks'
  <2>1. tasks' = tasks + 1 /\ tasks \in Nat
    BY SpawnTasks DEF CacheInv, CacheTypeOK
  <2>2. QED
    BY <1>2, <2>1
<1>4. task'[n] = task[n]
  BY <1>3, SpawnTasks
<1>5. QED
  BY <1>1, <1>4 DEF Alive

-----------------------------------------------------------------------------
\* The permit is acquired, or the node answers: only the phase and the material of a
\* task that goes on change.
LEMMA FetchKeepsInv ==
  ASSUME CacheInv, NEW n \in 1 .. MaxTasks, BeginFetch(n) \/ EndFetch(n)
  PROVE  CacheInv'
<1>1. /\ entries' = entries /\ order' = order /\ issued' = issued /\ material' = material
      /\ in_flight' = in_flight /\ slots' = slots /\ tasks' = tasks
  BY DEF BeginFetch, EndFetch
<1>2. CacheTypeOK
  BY DEF CacheInv
<1>3. n <= tasks /\ IssuedWith(task[n].slot, task[n].template)
  <2>1. Alive(n)
    BY DEF BeginFetch, EndFetch, Alive
  <2>2. QED
    BY <2>1, AliveWasBegun
<1>4. \E reached \in {"fetching", "finishing"}, from \in {NoTemplate, task[n].template} :
        task' = [task EXCEPT ![n].phase = reached, ![n].material = from]
  <2>1. CASE BeginFetch(n)
    <3>1. task[n].material \in {NoTemplate, task[n].template}
      BY <1>3 DEF CacheInv, TasksOwn
    <3>2. task' = [task EXCEPT ![n].phase = "fetching"]
      BY <2>1 DEF BeginFetch
    <3>3. [task EXCEPT ![n].phase = "fetching"]
            = [task EXCEPT ![n].phase = "fetching", ![n].material = task[n].material]
      BY <1>2 DEF CacheTypeOK
    <3>4. QED
      BY <3>1, <3>2, <3>3
  <2>2. CASE EndFetch(n)
    BY <2>2 DEF EndFetch, Fetched
  <2>3. QED
    BY <2>1, <2>2
<1>5. PICK reached \in {"fetching", "finishing"}, from \in {NoTemplate, task[n].template} :
        task' = [task EXCEPT ![n].phase = reached, ![n].material = from]
  BY <1>4
<1>6. /\ task'[n].slot = task[n].slot /\ task'[n].template = task[n].template
      /\ task'[n].material = from /\ Alive(n)'
      /\ \A m \in 1 .. MaxTasks : m # n => task'[m] = task[m]
  BY <1>2, <1>5 DEF CacheTypeOK, Alive
<1>7. CacheTypeOK'
  <2>1. from \in Stored
    BY <1>2 DEF CacheTypeOK, Stored
  <2>2. QED
    BY <1>1, <1>2, <1>5, <2>1, ZenonT(30) DEF CacheTypeOK
<1>8. TasksOwn'
  <2>1. \A m \in 1 .. MaxTasks : m # n =>
          IF m <= tasks
          THEN /\ IssuedWith(task[m].slot, task[m].template)'
               /\ task'[m].material \in {NoTemplate, task'[m].template}
          ELSE task'[m] = NoTask
    BY <1>1, <1>6 DEF CacheInv, TasksOwn, IssuedWith
  <2>2. /\ IssuedWith(task[n].slot, task[n].template)'
        /\ task'[n].material \in {NoTemplate, task'[n].template}
    BY <1>1, <1>3, <1>5, <1>6 DEF IssuedWith
  <2>3. QED
    BY <1>1, <1>3, <2>1, <2>2 DEF TasksOwn
<1>9. NoFetchForgotten'
  <2>1. \A m \in 1 .. MaxTasks : Alive(m) => Alive(m)' /\ task'[m].slot = task[m].slot
    BY <1>6 DEF Alive
  <2>2. QED
    BY <1>1, <2>1 DEF CacheInv, NoFetchForgotten, Alive
<1>10. EntriesOwn' /\ NewSlotsEmpty' /\ OwnMaterial'
  BY <1>1 DEF CacheInv, EntriesOwn, NewSlotsEmpty, OwnMaterial, IssuedWith
<1>11. QED
  BY <1>7, <1>8, <1>9, <1>10 DEF CacheInv

\* finish_fetch: the entry, if it is still the one, may be fetched for again, and its
\* slot gets the material.
LEMMA FinishKeepsInv ==
  ASSUME CacheInv, NEW n \in 1 .. MaxTasks, finish_fetch(n)
  PROVE  CacheInv'
<1> DEFINE t == task[n].template
           same == entries[t.job].template = t /\ entries[t.job].slot = task[n].slot
<1>1. /\ order' = order /\ issued' = issued /\ in_flight' = in_flight /\ slots' = slots
      /\ tasks' = tasks /\ task' = [task EXCEPT ![n].phase = "over"]
  BY DEF finish_fetch
<1>2. CacheTypeOK /\ Alive(n)
  BY DEF CacheInv, finish_fetch, Alive
<1>3. n <= tasks /\ IssuedWith(task[n].slot, t) /\ task[n].material \in {NoTemplate, t}
  <2>1. n <= tasks /\ IssuedWith(task[n].slot, t)
    BY <1>2, AliveWasBegun
  <2>2. QED
    BY <2>1 DEF CacheInv, TasksOwn
<1>4. /\ entries' = (IF same THEN [entries EXCEPT ![t.job].fetch_started = FALSE] ELSE entries)
      /\ material' = (IF same /\ task[n].material # NoTemplate
                      THEN [material EXCEPT ![task[n].slot] = task[n].material] ELSE material)
  BY DEF finish_fetch
<1>5. t \in Templates /\ t.job \in JobNames /\ t \in Stored /\ task[n].slot \in 1 .. MaxSlots
      /\ task[n].material \in Stored
  BY <1>2, <1>3, CacheAssumption DEF IssuedWith, JobNames, Stored, CacheTypeOK
<1>6. same => entries[t.job] # NoEntry /\ t.job \in Range(order)
  BY <1>5, EntryOf
<1> HIDE DEF t, same
<1>7. /\ \A m \in 1 .. MaxTasks : m # n => task'[m] = task[m]
      /\ task'[n].slot = task[n].slot /\ task'[n].template = t /\ task'[n].material = task[n].material
  BY <1>1, <1>2 DEF CacheTypeOK, t
<1>8. \A j \in JobNames :
        /\ entries'[j].slot = entries[j].slot /\ entries'[j].template = entries[j].template
        /\ entries'[j].fetch_started => entries[j].fetch_started /\ ~ (same /\ j = t.job)
        /\ entries[j] = NoEntry => entries'[j] = NoEntry
  <2>1. CASE same
    BY <1>2, <1>4, <1>5, <1>6, <2>1 DEF CacheTypeOK
  <2>2. CASE ~ same
    BY <1>4, <2>2
  <2>3. QED
    BY <2>1, <2>2
<1>9. CacheTypeOK'
  <2>1. entries' \in [JobNames -> [template : Stored, slot : 0 .. MaxSlots, fetch_started : BOOLEAN]]
    BY <1>2, <1>4, ZenonT(30) DEF CacheTypeOK
  <2>2. material' \in [1 .. MaxSlots -> Stored]
    BY <1>2, <1>4, <1>5 DEF CacheTypeOK
  <2>3. QED
    BY <1>1, <1>2, <2>1, <2>2 DEF CacheTypeOK
<1>10. EntriesOwn'
  BY <1>1, <1>8 DEF CacheInv, EntriesOwn, IssuedWith
<1>11. TasksOwn'
  BY <1>1, <1>3, <1>7 DEF CacheInv, TasksOwn, IssuedWith, t
<1>12. \A s \in 1 .. MaxSlots :
         \/ material'[s] = material[s]
         \/ same /\ s = task[n].slot /\ material'[s] = t /\ material'[s] # NoTemplate
  BY <1>2, <1>3, <1>4 DEF CacheTypeOK
<1>13. NewSlotsEmpty'
  <2>1. task[n].slot <= slots
    BY <1>2, <1>3 DEF IssuedWith, CacheTypeOK
  <2>2. QED
    BY <1>1, <1>2, <1>12, <2>1 DEF CacheInv, NewSlotsEmpty, CacheTypeOK
<1>14. OwnMaterial'
  <2> SUFFICES ASSUME NEW s \in 1 .. MaxSlots, material'[s] # NoTemplate
               PROVE  material'[s] = issued[s] /\ \E j \in Range(order) : entries'[j].slot = s
    BY <1>1 DEF OwnMaterial
  <2>0. Range(order) \subseteq JobNames
    BY <1>2, RangeOfSeq DEF CacheTypeOK
  <2>1. CASE material'[s] = material[s]
    BY <1>8, <2>0, <2>1 DEF CacheInv, OwnMaterial
  <2>2. CASE same /\ s = task[n].slot /\ material'[s] = t
    BY <1>3, <1>5, <1>6, <1>8, <2>2 DEF IssuedWith, same
  <2>3. QED
    BY <1>12, <2>1, <2>2
<1>15. NoFetchForgotten'
  <2> SUFFICES ASSUME NEW j \in JobNames, entries'[j].fetch_started,
                      material'[entries'[j].slot] = NoTemplate
               PROVE  \E m \in 1 .. MaxTasks : task'[m].slot = entries'[j].slot /\ Alive(m)'
    BY DEF NoFetchForgotten, Alive
  <2>1. entries[j].fetch_started /\ ~ (same /\ j = t.job) /\ entries'[j].slot = entries[j].slot
    BY <1>8
  <2>2. entries[j] # NoEntry
    BY <2>1 DEF NoEntry
  <2>3. entries[j].slot \in 1 .. MaxSlots
    BY <1>2, <2>2 DEF CacheInv, EntriesOwn, IssuedWith, CacheTypeOK
  <2>4. material[entries[j].slot] = NoTemplate
    BY <1>12, <2>1, <2>3
  <2>5. PICK m \in 1 .. MaxTasks : task[m].slot = entries[j].slot /\ Alive(m)
    BY <2>1, <2>4 DEF CacheInv, NoFetchForgotten, Alive
  <2>6. task[m].template = entries[j].template /\ task[m].template.job = j
    BY <2>1, <2>5, TaskOfEntry
  <2>7. m # n
    BY <2>1, <2>5, <2>6 DEF same, t
  <2>8. QED
    BY <1>7, <2>1, <2>5, <2>7 DEF Alive
<1>16. QED
  BY <1>9, <1>10, <1>11, <1>13, <1>14, <1>15 DEF CacheInv

\* The entries after cancel_fetch: at most one of another job has lost its mark.
LEMMA CancelledIs ==
  ASSUME NEW t, NEW es, NEW j \in JobNames,
         es[j] \in [template : Stored, slot : 0 .. MaxSlots, fetch_started : BOOLEAN]
  PROVE  /\ Cancelled(es, t)[j] \in [template : Stored, slot : 0 .. MaxSlots, fetch_started : BOOLEAN]
         /\ Cancelled(es, t)[j].slot = es[j].slot
         /\ Cancelled(es, t)[j].template = es[j].template
         /\ j = t.job => Cancelled(es, t)[j] = es[j]
         /\ Cancelled(es, t)[j].fetch_started =>
              es[j].fetch_started /\ (j = t.job \/ ~ (in_flight # 0 /\ task[in_flight].template.job = j))
         /\ es[j] = NoEntry => Cancelled(es, t)[j] = NoEntry
<1>1. Cancelled(es, t)[j] = IF in_flight # 0 /\ task[in_flight].template.job = j /\ j # t.job
                            THEN [es[j] EXCEPT !.fetch_started = FALSE] ELSE es[j]
  BY DEF Cancelled
<1>2. ASSUME es[j] = NoEntry PROVE [es[j] EXCEPT !.fetch_started = FALSE] = NoEntry
  <2> DEFINE e == es[j]
  <2>1. e \in [template : Stored, slot : 0 .. MaxSlots, fetch_started : BOOLEAN] /\ ~ e.fetch_started
    BY <1>2 DEF NoEntry
  <2> HIDE DEF e
  <2>2. [e EXCEPT !.fetch_started = FALSE] = e
    BY <2>1
  <2>3. QED
    BY <1>2, <2>2 DEF e
<1>3. QED
  BY <1>1, <1>2

\* current_job with a template whose slot is filled or being fetched.
LEMMA KnownKeepsInv ==
  ASSUME CacheInv, NEW t \in Templates, entries[t.job].template = t,
         entries[t.job].fetch_started \/ material[entries[t.job].slot] # NoTemplate,
         entries' = [entries EXCEPT ![t.job].fetch_started = TRUE],
         UNCHANGED <<order, issued, material, task, in_flight, slots, tasks>>
  PROVE  CacheInv'
<1>1. /\ order' = order /\ issued' = issued /\ material' = material /\ task' = task
      /\ in_flight' = in_flight /\ slots' = slots /\ tasks' = tasks
  OBVIOUS
<1>2. CacheTypeOK
  BY DEF CacheInv
<1>3. t.job \in JobNames /\ entries[t.job] # NoEntry /\ entries[t.job].slot \in 1 .. MaxSlots
  BY EntryOf
<1>4. \A j \in JobNames :
        /\ entries'[j].slot = entries[j].slot /\ entries'[j].template = entries[j].template
        /\ j # t.job => entries'[j] = entries[j]
        /\ entries[j] = NoEntry => entries'[j] = NoEntry
  BY <1>2, <1>3 DEF CacheTypeOK
<1>5. CacheTypeOK'
  BY <1>1, <1>2 DEF CacheTypeOK
<1>6. EntriesOwn'
  BY <1>1, <1>4 DEF CacheInv, EntriesOwn, IssuedWith
<1>7. TasksOwn' /\ NewSlotsEmpty'
  BY <1>1 DEF CacheInv, TasksOwn, NewSlotsEmpty, IssuedWith
<1>8. OwnMaterial'
  <2>1. Range(order) \subseteq JobNames
    BY <1>2, RangeOfSeq DEF CacheTypeOK
  <2>2. QED
    BY <1>1, <1>4, <2>1 DEF CacheInv, OwnMaterial
<1>9. NoFetchForgotten'
  BY <1>1, <1>4 DEF CacheInv, NoFetchForgotten
<1>10. QED
  BY <1>5, <1>6, <1>7, <1>8, <1>9 DEF CacheInv

\* current_job with a template whose fetch failed or was cancelled.
LEMMA AgainKeepsInv ==
  ASSUME CacheInv, NEW t \in Templates, entries[t.job].template = t,
         Spawn(t, entries[t.job].slot),
         entries' = Cancelled([entries EXCEPT ![t.job].fetch_started = TRUE], t),
         UNCHANGED <<order, issued, material, slots>>
  PROVE  CacheInv'
<1> DEFINE EntryRec == [template : Stored, slot : 0 .. MaxSlots, fetch_started : BOOLEAN]
           begunFor == [entries EXCEPT ![t.job].fetch_started = TRUE]
<1>1. order' = order /\ issued' = issued /\ material' = material /\ slots' = slots
  OBVIOUS
<1>2. CacheTypeOK
  BY DEF CacheInv
<1>3. /\ t.job \in JobNames /\ entries[t.job] # NoEntry /\ entries[t.job].slot \in 1 .. MaxSlots
      /\ IssuedWith(entries[t.job].slot, t)
  BY EntryOf
<1>0. PICK slot \in 1 .. MaxSlots : slot = entries[t.job].slot
  BY <1>3
<1>s. Spawn(t, slot)
  BY <1>0
<1>4. \A j \in JobNames :
        /\ begunFor[j] \in EntryRec
        /\ begunFor[j].slot = entries[j].slot /\ begunFor[j].template = entries[j].template
        /\ j # t.job => begunFor[j] = entries[j]
        /\ entries[j] = NoEntry => begunFor[j] = NoEntry
  BY <1>2, <1>3 DEF CacheTypeOK
<1>5. entries' = Cancelled(begunFor, t)
  OBVIOUS
<1> HIDE DEF begunFor
<1>6. \A j \in JobNames :
        /\ entries'[j] \in EntryRec
        /\ entries'[j].slot = entries[j].slot /\ entries'[j].template = entries[j].template
        /\ entries[j] = NoEntry => entries'[j] = NoEntry
        /\ entries'[j].fetch_started /\ j # t.job =>
             entries[j].fetch_started /\ ~ (in_flight # 0 /\ task[in_flight].template.job = j)
  <2> SUFFICES ASSUME NEW j \in JobNames
               PROVE  /\ entries'[j] \in EntryRec
                      /\ entries'[j].slot = entries[j].slot /\ entries'[j].template = entries[j].template
                      /\ entries[j] = NoEntry => entries'[j] = NoEntry
                      /\ entries'[j].fetch_started /\ j # t.job =>
                           entries[j].fetch_started /\ ~ (in_flight # 0 /\ task[in_flight].template.job = j)
    OBVIOUS
  <2>1. begunFor[j] \in EntryRec
    BY <1>4
  <2>2. QED
    BY <1>4, <1>5, <2>1, CancelledIs
<1>e. \A j \in JobNames : entries'[j].slot = entries[j].slot
  BY <1>6
<1>7. CacheTypeOK'
  <2>1. entries' \in [JobNames -> EntryRec]
    <3>1. entries' = [j \in JobNames |-> entries'[j]]
      BY <1>5 DEF Cancelled
    <3>2. QED
      BY <1>6, <3>1
  <2>2. tasks' \in 0 .. MaxTasks /\ in_flight' = tasks'
    BY <1>s, SpawnTasks
  <2>3. task' \in [1 .. MaxTasks ->
                      [template : Stored, slot : 0 .. MaxSlots, material : Stored,
                       phase : {"none", "waiting", "fetching", "finishing", "over"}]]
    BY <1>s, SpawnTasks
  <2>4. QED
    BY <1>1, <1>2, <2>1, <2>2, <2>3 DEF CacheTypeOK
<1>8. EntriesOwn'
  BY <1>1, <1>6 DEF CacheInv, EntriesOwn, IssuedWith
<1>9. NewSlotsEmpty'
  BY <1>1 DEF CacheInv, NewSlotsEmpty
<1>10. TasksOwn'
  <2>1. slots' \in Nat /\ slots' >= slots
    BY <1>1, <1>2 DEF CacheTypeOK
  <2>2. IssuedWith(slot, t)'
    BY <1>0, <1>1, <1>3 DEF IssuedWith
  <2>3. QED
    BY <1>s, <1>1, <2>1, <2>2, SpawnKeepsTasksOwn
<1>11. OwnMaterial'
  <2>1. Range(order) \subseteq JobNames
    BY <1>2, RangeOfSeq DEF CacheTypeOK
  <2> SUFFICES ASSUME NEW s \in 1 .. MaxSlots, material[s] # NoTemplate
               PROVE  material[s] = issued[s] /\ \E j \in Range(order) : entries'[j].slot = s
    BY <1>1 DEF OwnMaterial
  <2>2. material[s] = issued[s] /\ \E j \in Range(order) : entries[j].slot = s
    BY DEF CacheInv, OwnMaterial
  <2>3. QED
    BY <1>e, <2>1, <2>2
<1>12. NoFetchForgotten'
  <2> SUFFICES ASSUME NEW j \in JobNames, entries'[j].fetch_started,
                      material'[entries'[j].slot] = NoTemplate
               PROVE  \E m \in 1 .. MaxTasks : task'[m].slot = entries'[j].slot /\ Alive(m)'
    BY DEF NoFetchForgotten, Alive
  <2>1. CASE j = t.job
    <3>1. tasks' \in 1 .. MaxTasks /\ task'[tasks'].slot = slot /\ Alive(tasks)'
      BY <1>s, SpawnTasks
    <3>2. QED
      BY <1>0, <1>e, <2>1, <3>1 DEF Alive
  <2>2. CASE j # t.job
    <3>1. entries[j].fetch_started /\ material[entries[j].slot] = NoTemplate
          /\ ~ (in_flight # 0 /\ task[in_flight].template.job = j)
      BY <1>1, <1>6, <2>2
    <3>2. QED
      BY <1>s, <1>e, <2>2, <3>1, SpawnForgetsNone
  <2>3. QED
    BY <2>1, <2>2
<1>13. QED
  BY <1>7, <1>8, <1>9, <1>10, <1>11, <1>12 DEF CacheInv

\* current_job with a template that is new: its entry, in the place of others.
LEMMA NewKeepsInv ==
  ASSUME CacheInv, NEW t \in Templates, NewEntry(t), Spawn(t, slots + 1),
         entries' = Cancelled(
              [j \in JobNames |->
                 IF j = t.job THEN [template |-> t, slot |-> slots + 1, fetch_started |-> TRUE]
                 ELSE IF j \in Range(Kept(t)) THEN entries[j] ELSE NoEntry], t)
  PROVE  CacheInv'
<1> DEFINE EntryRec == [template : Stored, slot : 0 .. MaxSlots, fetch_started : BOOLEAN]
           es == [j \in JobNames |->
                    IF j = t.job THEN [template |-> t, slot |-> slots + 1, fetch_started |-> TRUE]
                    ELSE IF j \in Range(Kept(t)) THEN entries[j] ELSE NoEntry]
           kept == Range(Kept(t))
           Goes(s) == \E j \in JobNames : entries[j].slot = s /\ (j = t.job \/ j \notin kept)
<1>1. CacheTypeOK
  BY DEF CacheInv
<1>2. slots < MaxSlots /\ slots' = slots + 1 /\ order' = Kept(t) /\ issued' = [issued EXCEPT ![slots + 1] = t]
  BY DEF NewEntry
<1>3. PICK slot \in 1 .. MaxSlots : slot = slots + 1
  BY <1>1, <1>2, CacheAssumption DEF CacheTypeOK
<1>4. Spawn(t, slot) /\ slots \in Nat
  BY <1>1, <1>3 DEF CacheTypeOK
<1>5. \A s \in 1 .. MaxSlots : material'[s] = IF Goes(s) THEN NoTemplate ELSE material[s]
  BY DEF NewEntry
<1>6. material' \in [1 .. MaxSlots -> Stored]
  <2>1. \A s \in 1 .. MaxSlots : material'[s] \in Stored
    BY <1>1, <1>5 DEF CacheTypeOK, Stored
  <2>2. material' = [s \in 1 .. MaxSlots |-> material'[s]]
    BY DEF NewEntry
  <2>3. QED
    BY <2>1, <2>2
<1>7. Kept(t) \in Seq(JobNames) /\ t.job \in kept /\ t.job \in JobNames
  BY <1>1, KeptHasJob DEF CacheTypeOK, JobNames
<1>8. \A j \in JobNames :
        /\ j = t.job => es[j].template = t /\ es[j].slot = slot /\ es[j].fetch_started
        /\ j # t.job => es[j] = NoEntry \/ (j \in kept /\ es[j] = entries[j])
        /\ j # t.job /\ j \in kept => es[j] = entries[j]
        /\ es[j] \in EntryRec
  <2>1. NoEntry \in EntryRec
    BY CacheAssumption DEF NoEntry, Stored
  <2>2. t \in Stored /\ slot \in 0 .. MaxSlots
    BY DEF Stored
  <2>3. \A j \in JobNames : entries[j] \in EntryRec
    BY <1>1 DEF CacheTypeOK
  <2>4. QED
    BY <1>3, <2>1, <2>2, <2>3
<1>9. entries' = Cancelled(es, t)
  OBVIOUS
<1> HIDE DEF es
<1>10. \A j \in JobNames :
        /\ entries'[j] \in EntryRec
        /\ entries'[j].slot = es[j].slot /\ entries'[j].template = es[j].template
        /\ es[j] = NoEntry => entries'[j] = NoEntry
        /\ entries'[j].fetch_started => es[j].fetch_started
        /\ entries'[j].fetch_started /\ j # t.job =>
             ~ (in_flight # 0 /\ task[in_flight].template.job = j)
  <2> SUFFICES ASSUME NEW j \in JobNames
               PROVE  /\ entries'[j] \in EntryRec
                      /\ entries'[j].slot = es[j].slot /\ entries'[j].template = es[j].template
                      /\ es[j] = NoEntry => entries'[j] = NoEntry
                      /\ entries'[j].fetch_started => es[j].fetch_started
                      /\ entries'[j].fetch_started /\ j # t.job =>
                           ~ (in_flight # 0 /\ task[in_flight].template.job = j)
    OBVIOUS
  <2>1. es[j] \in EntryRec
    BY <1>8
  <2>2. QED
    BY <1>9, <2>1, CancelledIs
<1>11. CacheTypeOK'
  <2>1. entries' \in [JobNames -> EntryRec]
    <3>1. entries' = [j \in JobNames |-> entries'[j]]
      BY <1>9 DEF Cancelled
    <3>2. QED
      BY <1>10, <3>1
  <2>2. tasks' \in 0 .. MaxTasks /\ in_flight' = tasks'
    BY <1>4, SpawnTasks
  <2>3. task' \in [1 .. MaxTasks ->
                      [template : Stored, slot : 0 .. MaxSlots, material : Stored,
                       phase : {"none", "waiting", "fetching", "finishing", "over"}]]
    BY <1>4, SpawnTasks
  <2>4. issued' \in [1 .. MaxSlots -> Stored]
    BY <1>1, <1>2 DEF CacheTypeOK, Stored
  <2>5. slots' \in 0 .. MaxSlots /\ order' \in Seq(JobNames)
    BY <1>1, <1>2, <1>7, CacheAssumption DEF CacheTypeOK
  <2>6. QED
    BY <1>6, <2>1, <2>2, <2>3, <2>4, <2>5 DEF CacheTypeOK
<1> HIDE DEF EntryRec, kept, Goes
<1>12. /\ \A s \in 1 .. slots : issued'[s] = issued[s]
       /\ issued'[slot] = t /\ slot \in 1 .. slots' /\ \A s \in 1 .. slots : s \in 1 .. slots'
  BY <1>1, <1>2, <1>3, <1>4 DEF CacheTypeOK
<1>13. TasksOwn'
  <2>1. slots' \in Nat /\ slots' >= slots /\ IssuedWith(slot, t)'
    BY <1>2, <1>4, <1>12 DEF IssuedWith
  <2>2. QED
    BY <1>4, <1>12, <2>1, SpawnKeepsTasksOwn
<1>14. EntriesOwn'
  <2> SUFFICES ASSUME NEW j \in JobNames, entries'[j] # NoEntry
               PROVE  /\ entries'[j].template \in Templates /\ entries'[j].slot \in 1 .. slots'
                      /\ issued'[entries'[j].slot] = entries'[j].template
                      /\ entries'[j].template.job = j /\ j \in kept
    BY <1>2 DEF EntriesOwn, IssuedWith, kept
  <2>1. entries'[j].slot = es[j].slot /\ entries'[j].template = es[j].template
    BY <1>10
  <2>2. CASE j = t.job
    BY <1>7, <1>8, <1>12, <2>1, <2>2
  <2>3. CASE j # t.job
    <3>1. j \in kept /\ es[j] = entries[j] /\ entries[j] # NoEntry
      BY <1>8, <1>10, <2>3
    <3>2. /\ entries[j].template \in Templates /\ entries[j].slot \in 1 .. slots
          /\ issued[entries[j].slot] = entries[j].template /\ entries[j].template.job = j
      BY <3>1 DEF CacheInv, EntriesOwn, IssuedWith
    <3>3. QED
      BY <1>12, <2>1, <3>1, <3>2
  <2>4. QED
    BY <2>2, <2>3
<1>15. NewSlotsEmpty'
  <2> SUFFICES ASSUME NEW s \in 1 .. MaxSlots, s > slots' PROVE material'[s] = NoTemplate
    BY DEF NewSlotsEmpty
  <2>1. s > slots
    BY <1>2, <1>4
  <2>2. QED
    BY <1>5, <2>1 DEF CacheInv, NewSlotsEmpty
<1>16. OwnMaterial'
  <2> SUFFICES ASSUME NEW s \in 1 .. MaxSlots, material'[s] # NoTemplate
               PROVE  material'[s] = issued'[s] /\ \E j \in kept : entries'[j].slot = s
    BY <1>2 DEF OwnMaterial, kept
  <2>1. material'[s] = material[s] /\ ~ Goes(s)
    BY <1>5
  <2>2. s \in 1 .. slots
    BY <1>4, <2>1 DEF CacheInv, NewSlotsEmpty
  <2>3. material[s] = issued[s]
    BY <2>1 DEF CacheInv, OwnMaterial
  <2>4. PICK j \in Range(order) : entries[j].slot = s
    BY <2>1 DEF CacheInv, OwnMaterial
  <2>5. j \in JobNames
    BY <1>1, RangeOfSeq DEF CacheTypeOK
  <2>6. j # t.job /\ j \in kept
    BY <2>1, <2>4, <2>5 DEF Goes
  <2>7. entries'[j].slot = s
    BY <1>8, <1>10, <2>4, <2>5, <2>6
  <2>8. QED
    BY <1>12, <2>1, <2>2, <2>3, <2>6, <2>7
<1>17. NoFetchForgotten'
  <2> SUFFICES ASSUME NEW j \in JobNames, entries'[j].fetch_started,
                      material'[entries'[j].slot] = NoTemplate
               PROVE  \E m \in 1 .. MaxTasks : task'[m].slot = entries'[j].slot /\ Alive(m)'
    BY DEF NoFetchForgotten, Alive
  <2>1. entries'[j].slot = es[j].slot /\ es[j].fetch_started
    BY <1>10
  <2>2. CASE j = t.job
    <3>1. tasks' \in 1 .. MaxTasks /\ task'[tasks'].slot = slot /\ Alive(tasks)'
      BY <1>4, SpawnTasks
    <3>2. entries'[j].slot = slot
      BY <1>8, <2>1, <2>2
    <3>3. QED
      BY <3>1, <3>2 DEF Alive
  <2>3. CASE j # t.job
    <3>1. es[j] # NoEntry
      BY <2>1 DEF NoEntry
    <3>2. j \in kept /\ es[j] = entries[j] /\ entries[j] # NoEntry
      BY <1>8, <2>3, <3>1
    <3>3. ~ Goes(entries[j].slot)
      BY <2>3, <3>2, SlotsDiffer DEF Goes
    <3>4. entries[j].slot \in 1 .. slots
      BY <3>2 DEF CacheInv, EntriesOwn, IssuedWith
    <3>5. entries[j].slot \in 1 .. MaxSlots
      BY <1>1, <3>4, CacheAssumption DEF CacheTypeOK
    <3>6. material[entries[j].slot] = NoTemplate
      BY <1>5, <2>1, <3>2, <3>3, <3>5
    <3>7. ~ (in_flight # 0 /\ task[in_flight].template.job = j)
      BY <1>10, <2>3
    <3>8. entries[j].fetch_started /\ entries'[j].slot = entries[j].slot
      BY <2>1, <3>2
    <3>9. QED
      BY <1>4, <2>3, <3>6, <3>7, <3>8, SpawnForgetsNone
  <2>4. QED
    BY <2>2, <2>3
<1>18. QED
  BY <1>11, <1>13, <1>14, <1>15, <1>16, <1>17 DEF CacheInv

\* Every step of the cache keeps its invariant.
LEMMA CacheStep ==
  ASSUME CacheInv, [CacheNext]_cacheVars
  PROVE  CacheInv'
<1>1. CASE UNCHANGED cacheVars
  BY <1>1 DEF cacheVars, CacheInv, CacheTypeOK, EntriesOwn, TasksOwn, NewSlotsEmpty, OwnMaterial,
              NoFetchForgotten, IssuedWith
<1>2. ASSUME NEW t \in Templates, current_job(t) PROVE CacheInv'
  <2> USE <1>2 DEF current_job
  <2>1. CASE entries[t.job].template = t
    BY <2>1, KnownKeepsInv, AgainKeepsInv
  <2>2. CASE entries[t.job].template # t
    BY <2>2, NewKeepsInv
  <2>3. QED
    BY <2>1, <2>2
<1>3. QED
  BY <1>1, <1>2, FetchKeepsInv, FinishKeepsInv DEF CacheNext

\* LiveTemplateProvider and TemplateMaterialCache, whatever templates the node gives,
\* with any number of entries, jobs handed out and fetches: a job has the material of
\* its own template or none, only jobs in the cache have any, and a fetch that counts
\* as started is on its way.
THEOREM CacheIsSafe == CacheSpec => []MaterialMatchesJob
<1>1. CacheInit => CacheInv
  <2> SUFFICES ASSUME CacheInit PROVE CacheInv
    OBVIOUS
  <2>1. NoTemplate \in Stored /\ 0 \in 0 .. MaxSlots /\ 0 \in 0 .. MaxTasks
    BY CacheAssumption DEF Stored
  <2>2. CacheTypeOK
    BY <2>1 DEF CacheInit, CacheTypeOK, NoEntry, NoTask
  <2>3. EntriesOwn /\ NewSlotsEmpty /\ OwnMaterial
    BY DEF CacheInit, EntriesOwn, NewSlotsEmpty, OwnMaterial
  <2>4. TasksOwn
    BY DEF CacheInit, TasksOwn
  <2>5. NoFetchForgotten
    BY DEF CacheInit, NoFetchForgotten, NoEntry
  <2>6. QED
    BY <2>2, <2>3, <2>4, <2>5 DEF CacheInv
<1>2. CacheInv /\ [CacheNext]_cacheVars => CacheInv'
  BY CacheStep
<1>3. CacheInv => MaterialMatchesJob
  BY DEF CacheInv, MaterialMatchesJob
<1>4. QED
  BY <1>1, <1>2, <1>3, PTL DEF CacheSpec

-----------------------------------------------------------------------------
(***************************************************************************)
(* Replacement latency.                                                    *)
(***************************************************************************)

EventRec == [stage : {"none", "observed", "ready", "published"}, key : JobIds, job : JobIds,
             old : BOOLEAN, pending : SUBSET Clients, target : Nat, success : SUBSET Clients,
             failed : Nat, skipped : Nat, gap : Nat, audience : SUBSET Clients]
Statuses == {"complete", "timeout", "failed", "tracking_gap"}
Reasons == {"all_notified", "partial_notify_failure", "partial_notify_skip", "zero_sessions",
            "session_disconnected", "superseded", "stage_timeout", "out_of_order",
            "untracked_sessions", "session_roster", "read_or_persist"}
SummaryRec == [status : Statuses, reason : Reasons, target : Nat, success : SUBSET Clients, sum : Nat,
               gap : Nat, audience : SUBSET Clients]
StateRec == [events : [Ids -> EventRec], dedupe : [JobIds -> {NoId} \cup Ids],
             published : [JobIds -> {NoId} \cup Ids], completed : SUBSET SummaryRec]
Phases == {"new", "entering", "uncounted", "tracked", "untracked", "leaving", "uncounting", "gone"}

\* Everything a session was waited for is counted, nobody is waited for who has been
\* sent the job, and an event that has lost nobody is on its way to its whole audience
\* unless it waits for a session that has left, and so for ever.
EventOK(e, ph) ==
    /\ Cardinality(e.success) + e.failed + e.skipped + Cardinality(e.pending) >= e.target
    /\ e.success \cap e.pending = {}
    /\ e.stage # "published" => e.success = {}
    /\ e.gap = 0 /\ e.failed = 0 /\ e.skipped = 0 =>
         \/ e.audience \subseteq e.success \cup e.pending
         \/ \E s \in e.pending : ph[s] \in {"leaving", "gone"}

SummaryOK(r) ==
    /\ r.sum >= r.target
    /\ r.status = "complete" /\ r.reason \in {"all_notified", "zero_sessions"}
         => r.audience \subseteq r.success

\* The two indices and the events agree, but for the events ids, which are about to
\* leave: they may be missing in the second index and wait for nobody.
Indexed(st, ids) ==
    /\ \A i \in Ids : st.events[i].stage # "none" => st.dedupe[st.events[i].key] = i
    /\ \A i, m \in Ids : /\ st.events[i].stage = "published" /\ st.events[m].stage = "published"
                         /\ st.events[i].job = st.events[m].job
                         => i = m
    /\ \A i \in Ids \ ids : st.events[i].stage = "published" =>
         st.published[st.events[i].job] = i /\ st.events[i].pending # {}
    /\ \A k \in JobIds : st.dedupe[k] # NoId =>
         st.events[st.dedupe[k]].stage # "none" /\ st.events[st.dedupe[k]].key = k
    /\ \A j \in JobIds : st.published[j] # NoId =>
         st.events[st.published[j]].stage = "published" /\ st.events[st.published[j]].job = j

\* Events are numbered from 1 and jobs as they are published.
Bounded(st, n, jb) ==
    \A i \in Ids : /\ st.events[i].stage # "none" => i <= n
                   /\ st.events[i].stage = "published" => st.events[i].job <= jb

EventsOK(st, ph) == \A i \in Ids : EventOK(st.events[i], ph)
SummariesOK(st) == \A r \in st.completed : SummaryOK(r)

StateOK(st, ids, ph, n, jb) ==
    /\ st \in StateRec
    /\ Indexed(st, ids)
    /\ Bounded(st, n, jb)
    /\ EventsOK(st, ph)
    /\ SummariesOK(st)

Untracking == {s \in Clients : phase[s] \in {"untracked", "uncounting"}}

\* The counters are exact at every moment, the roster holds the sessions that were put
\* on it, some of which may have left.
CountersExact ==
    /\ phase \in [Clients -> Phases]
    /\ total = Cardinality(Present)
    /\ untracked = Cardinality(Untracking)
    /\ stale \in Nat
    /\ roster \subseteq {s \in Clients : phase[s] \in {"tracked", "leaving", "gone"}}

WatchOK ==
    /\ next_id \in 0 .. MaxEvents /\ event \in 0 .. MaxEvents
    /\ ready \in BOOLEAN /\ job \in JobIds
    /\ ready => job < MaxJobs

\* A session sends a job that has a number.
HeldOK == held \in [Clients -> JobIds]

LatencyInv ==
    /\ CountersExact
    /\ WatchOK
    /\ StateOK(state, {}, phase, next_id, job)

-----------------------------------------------------------------------------
(***************************************************************************)
(* Summaries and the state that is left.                                   *)
(***************************************************************************)

\* Sets of sessions have a size.
LEMMA ClientSets ==
  ASSUME NEW S \in SUBSET Clients
  PROVE  IsFiniteSet(S) /\ Cardinality(S) \in Nat
  BY LatencyAssumption, FS_Subset, FS_CardinalityType

\* The event nobody has observed.
LEMMA NoEventIs ==
  /\ NoEvent \in EventRec /\ NoEvent.stage = "none" /\ \A ph : EventOK(NoEvent, ph)
<1>1. 0 \in JobIds
  BY LatencyAssumption DEF JobIds
<1>2. NoEvent \in EventRec
  BY <1>1 DEF NoEvent, EventRec
<1>3. Cardinality({}) = 0
  BY FS_EmptySet
<1>4. QED
  BY <1>2, <1>3 DEF NoEvent, EventOK

\* What finish_locked makes of an event.
LEMMA SummaryIs ==
  ASSUME NEW e \in EventRec, NEW status \in Statuses, NEW reason \in Reasons, NEW ph, EventOK(e, ph)
  PROVE  /\ Summary(e, status, reason) \in SummaryRec
         /\ Summary(e, status, reason).status = status
         /\ Summary(e, status, reason).reason = reason
         /\ Summary(e, status, reason).audience = e.audience
         /\ Summary(e, status, reason).success = e.success
         /\ Summary(e, status, reason).sum >= Summary(e, status, reason).target
<1>1. /\ e.target \in Nat /\ e.success \in SUBSET Clients /\ e.pending \in SUBSET Clients
      /\ e.failed \in Nat /\ e.skipped \in Nat /\ e.gap \in Nat /\ e.audience \in SUBSET Clients
  BY DEF EventRec
<1>2. Cardinality(e.success) \in Nat /\ Cardinality(e.pending) \in Nat
  BY <1>1, ClientSets
<1>3. Cardinality(e.success) + e.failed + e.skipped + Cardinality(e.pending) \in Nat
  BY <1>1, <1>2
<1>4. Cardinality(e.success) + e.failed + e.skipped + Cardinality(e.pending) >= e.target
  BY DEF EventOK
<1>5. QED
  BY <1>1, <1>3, <1>4 DEF Summary, SummaryRec

\* The parts of what finish_locked returns.
LEMMA FinishIs ==
  ASSUME NEW st \in StateRec, NEW ids, NEW verdict
  PROVE  /\ \A i \in Ids : finish_locked(st, ids, verdict).events[i] =
              IF i \in ids /\ st.events[i].stage # "none" THEN NoEvent ELSE st.events[i]
         /\ \A k \in JobIds : finish_locked(st, ids, verdict).dedupe[k] =
              IF \E i \in Ids : i \in ids /\ st.events[i].stage # "none" /\ st.events[i].key = k
              THEN NoId ELSE st.dedupe[k]
         /\ \A j \in JobIds : finish_locked(st, ids, verdict).published[j] =
              IF \E i \in Ids : i \in ids /\ st.events[i].stage = "published" /\ st.events[i].job = j
              THEN NoId ELSE st.published[j]
         /\ finish_locked(st, ids, verdict).completed = st.completed \cup
              {Summary(st.events[i], verdict[i].status, verdict[i].reason) : i \in ids \cap InFlight(st)}
<1> DEFINE over == ids \cap InFlight(st)
           f == finish_locked(st, ids, verdict)
<1>1. /\ f.events = [i \in Ids |-> IF i \in over THEN NoEvent ELSE st.events[i]]
      /\ f.dedupe = [k \in JobIds |-> IF \E i \in over : st.events[i].key = k THEN NoId ELSE st.dedupe[k]]
      /\ f.published = [j \in JobIds |->
           IF \E i \in over : st.events[i].stage = "published" /\ st.events[i].job = j
           THEN NoId ELSE st.published[j]]
      /\ f.completed = st.completed \cup
           {Summary(st.events[i], verdict[i].status, verdict[i].reason) : i \in over}
  BY DEF finish_locked
<1>2. \A i : i \in over <=> i \in Ids /\ i \in ids /\ st.events[i].stage # "none"
  BY DEF InFlight
<1> HIDE DEF over, f
<1>3. \A i \in Ids : f.events[i] = IF i \in ids /\ st.events[i].stage # "none" THEN NoEvent ELSE st.events[i]
  BY <1>1, <1>2
<1>4. \A k \in JobIds : f.dedupe[k] =
        IF \E i \in Ids : i \in ids /\ st.events[i].stage # "none" /\ st.events[i].key = k
        THEN NoId ELSE st.dedupe[k]
  BY <1>1, <1>2
<1>5. \A j \in JobIds : f.published[j] =
        IF \E i \in Ids : i \in ids /\ st.events[i].stage = "published" /\ st.events[i].job = j
        THEN NoId ELSE st.published[j]
  BY <1>1, <1>2
<1>6. f.completed = st.completed \cup
        {Summary(st.events[i], verdict[i].status, verdict[i].reason) : i \in ids \cap InFlight(st)}
  BY <1>1 DEF over
<1>7. QED
  BY <1>3, <1>4, <1>5, <1>6 DEF f

\* finish_locked of the events ids, with verdicts that are true of them.
LEMMA FinishKeeps ==
  ASSUME NEW st, NEW ids, NEW ph, NEW n, NEW jb, StateOK(st, ids, ph, n, jb), NEW verdict,
         \A i \in ids \cap InFlight(st) :
           /\ verdict[i].status \in Statuses /\ verdict[i].reason \in Reasons
           /\ verdict[i].status = "complete" /\ verdict[i].reason \in {"all_notified", "zero_sessions"}
                => st.events[i].audience \subseteq st.events[i].success
  PROVE  StateOK(finish_locked(st, ids, verdict), {}, ph, n, jb)
<1> DEFINE f == finish_locked(st, ids, verdict)
<1>1. /\ st \in StateRec /\ Indexed(st, ids) /\ Bounded(st, n, jb) /\ EventsOK(st, ph) /\ SummariesOK(st)
      /\ \A i \in Ids : st.events[i] \in EventRec
  BY DEF StateOK, StateRec
<1>2. /\ \A i \in Ids : f.events[i] =
           IF i \in ids /\ st.events[i].stage # "none" THEN NoEvent ELSE st.events[i]
      /\ \A k \in JobIds : f.dedupe[k] =
           IF \E i \in Ids : i \in ids /\ st.events[i].stage # "none" /\ st.events[i].key = k
           THEN NoId ELSE st.dedupe[k]
      /\ \A j \in JobIds : f.published[j] =
           IF \E i \in Ids : i \in ids /\ st.events[i].stage = "published" /\ st.events[i].job = j
           THEN NoId ELSE st.published[j]
      /\ f.completed = st.completed \cup
           {Summary(st.events[i], verdict[i].status, verdict[i].reason) : i \in ids \cap InFlight(st)}
  BY <1>1, FinishIs
<1>3. f = [events |-> f.events, dedupe |-> f.dedupe, published |-> f.published, completed |-> f.completed]
      /\ f.events = [i \in Ids |-> f.events[i]] /\ f.dedupe = [k \in JobIds |-> f.dedupe[k]]
      /\ f.published = [j \in JobIds |-> f.published[j]]
  BY DEF finish_locked
<1> HIDE DEF f
<1>4. /\ NoEvent \in EventRec /\ NoEvent.stage = "none" /\ EventOK(NoEvent, ph)
  BY NoEventIs
<1>5. \A i \in Ids : f.events[i].stage # "none" =>
        f.events[i] = st.events[i] /\ i \notin ids
  BY <1>2, <1>4
<1>6. \A r \in f.completed : r \in SummaryRec /\ SummaryOK(r)
  <2>1. ASSUME NEW i \in ids \cap InFlight(st)
        PROVE  /\ Summary(st.events[i], verdict[i].status, verdict[i].reason) \in SummaryRec
               /\ SummaryOK(Summary(st.events[i], verdict[i].status, verdict[i].reason))
    <3>1. i \in Ids /\ st.events[i] \in EventRec /\ EventOK(st.events[i], ph)
      BY <1>1 DEF InFlight, EventsOK
    <3>2. PICK status \in Statuses : status = verdict[i].status
      OBVIOUS
    <3>3. PICK reason \in Reasons : reason = verdict[i].reason
      OBVIOUS
    <3>4. status = "complete" /\ reason \in {"all_notified", "zero_sessions"}
            => st.events[i].audience \subseteq st.events[i].success
      BY <3>2, <3>3
    <3>5. PICK e \in EventRec : e = st.events[i]
      BY <3>1
    <3>6. /\ Summary(e, status, reason) \in SummaryRec
          /\ Summary(e, status, reason).status = status
          /\ Summary(e, status, reason).reason = reason
          /\ Summary(e, status, reason).audience = e.audience
          /\ Summary(e, status, reason).success = e.success
          /\ Summary(e, status, reason).sum >= Summary(e, status, reason).target
      BY <3>1, <3>5, SummaryIs
    <3>7. SummaryOK(Summary(e, status, reason))
      BY <3>4, <3>5, <3>6 DEF SummaryOK
    <3>8. QED
      BY <3>2, <3>3, <3>5, <3>6, <3>7
  <2>2. \A r \in st.completed : r \in SummaryRec /\ SummaryOK(r)
    BY <1>1 DEF SummariesOK, StateRec
  <2>3. QED
    BY <1>2, <2>1, <2>2
<1>7. f \in StateRec
  <2>1. \A i \in Ids : f.events[i] \in EventRec
    BY <1>1, <1>2, <1>4
  <2>2. \A k \in JobIds : f.dedupe[k] \in {NoId} \cup Ids /\ f.published[k] \in {NoId} \cup Ids
    BY <1>1, <1>2 DEF StateRec
  <2>3. f.events \in [Ids -> EventRec]
    BY <1>3, <2>1, Zenon
  <2>4. f.dedupe \in [JobIds -> {NoId} \cup Ids]
    BY <1>3, <2>2, Zenon
  <2>5. f.published \in [JobIds -> {NoId} \cup Ids]
    BY <1>3, <2>2, Zenon
  <2>6. f.completed \in SUBSET SummaryRec
    BY <1>6
  <2>7. [events |-> f.events, dedupe |-> f.dedupe, published |-> f.published, completed |-> f.completed]
          \in StateRec
    BY <2>3, <2>4, <2>5, <2>6 DEF StateRec
  <2>8. QED
    BY <1>3, <2>7, Zenon
<1>8. Indexed(f, {})
  <2>1. ASSUME NEW i \in Ids, f.events[i].stage # "none"
        PROVE  f.dedupe[f.events[i].key] = i
    <3>1. f.events[i] = st.events[i] /\ i \notin ids /\ st.events[i].stage # "none"
          /\ st.events[i].key \in JobIds
      BY <1>1, <1>5, <2>1 DEF EventRec
    <3>2. st.dedupe[st.events[i].key] = i
      BY <1>1, <3>1 DEF Indexed
    <3>3. ~ \E m \in Ids : m \in ids /\ st.events[m].stage # "none" /\ st.events[m].key = st.events[i].key
      BY <1>1, <3>1, <3>2 DEF Indexed
    <3>4. QED
      BY <1>2, <3>1, <3>2, <3>3
  <2>2. ASSUME NEW i \in Ids, NEW m \in Ids, f.events[i].stage = "published",
               f.events[m].stage = "published", f.events[i].job = f.events[m].job
        PROVE  i = m
    BY <1>1, <1>5, <2>2 DEF Indexed
  <2>3. ASSUME NEW i \in Ids, f.events[i].stage = "published"
        PROVE  f.published[f.events[i].job] = i /\ f.events[i].pending # {}
    <3>1. f.events[i] = st.events[i] /\ i \notin ids /\ st.events[i].stage = "published"
          /\ st.events[i].job \in JobIds
      BY <1>1, <1>5, <2>3 DEF EventRec
    <3>2. st.published[st.events[i].job] = i /\ st.events[i].pending # {}
      BY <1>1, <3>1 DEF Indexed
    <3>3. ~ \E m \in Ids : m \in ids /\ st.events[m].stage = "published" /\ st.events[m].job = st.events[i].job
      BY <1>1, <3>1 DEF Indexed
    <3>4. QED
      BY <1>2, <3>1, <3>2, <3>3
  <2>4. ASSUME NEW k \in JobIds, f.dedupe[k] # NoId
        PROVE  f.events[f.dedupe[k]].stage # "none" /\ f.events[f.dedupe[k]].key = k
    <3>1. f.dedupe[k] = st.dedupe[k] /\ st.dedupe[k] # NoId
          /\ ~ \E i \in Ids : i \in ids /\ st.events[i].stage # "none" /\ st.events[i].key = k
      BY <1>2, <2>4
    <3>2. st.dedupe[k] \in Ids
      BY <1>1, <3>1 DEF StateRec
    <3>3. st.events[st.dedupe[k]].stage # "none" /\ st.events[st.dedupe[k]].key = k
      BY <1>1, <3>1 DEF Indexed
    <3>4. QED
      BY <1>2, <3>1, <3>2, <3>3
  <2>5. ASSUME NEW j \in JobIds, f.published[j] # NoId
        PROVE  f.events[f.published[j]].stage = "published" /\ f.events[f.published[j]].job = j
    <3>1. f.published[j] = st.published[j] /\ st.published[j] # NoId
          /\ ~ \E i \in Ids : i \in ids /\ st.events[i].stage = "published" /\ st.events[i].job = j
      BY <1>2, <2>5
    <3>2. st.published[j] \in Ids
      BY <1>1, <3>1 DEF StateRec
    <3>3. st.events[st.published[j]].stage = "published" /\ st.events[st.published[j]].job = j
      BY <1>1, <3>1 DEF Indexed
    <3>4. QED
      BY <1>2, <3>1, <3>2, <3>3
  <2>6. QED
    BY <2>1, <2>2, <2>3, <2>4, <2>5 DEF Indexed
<1>9. Bounded(f, n, jb)
  BY <1>1, <1>4, <1>5 DEF Bounded
<1>10. EventsOK(f, ph)
  BY <1>1, <1>2, <1>4 DEF EventsOK
<1>11. StateOK(f, {}, ph, n, jb)
  BY <1>6, <1>7, <1>8, <1>9, <1>10 DEF StateOK, SummariesOK
<1>12. QED
  BY <1>11 DEF f

\* What is true of the state stays true as sessions leave, events and jobs are numbered
\* on, and more events are excused.
LEMMA StateLater ==
  ASSUME NEW st, NEW ids, NEW ph, NEW n \in Nat, NEW jb \in Nat, StateOK(st, ids, ph, n, jb),
         NEW more, ids \subseteq more,
         NEW ph2, \A s \in Clients : ph[s] \in {"leaving", "gone"} => ph2[s] \in {"leaving", "gone"},
         NEW n2 \in Nat, n <= n2, NEW jb2 \in Nat, jb <= jb2
  PROVE  StateOK(st, more, ph2, n2, jb2)
<1>1. st \in StateRec /\ SummariesOK(st) /\ \A i \in Ids : st.events[i] \in EventRec
  BY DEF StateOK, StateRec
<1>2. Indexed(st, more)
  BY DEF StateOK, Indexed
<1>3. Bounded(st, n2, jb2)
  <2>1. Bounded(st, n, jb)
    BY DEF StateOK
  <2>2. \A i \in Ids : i \in Nat /\ st.events[i].job \in Nat
    BY <1>1, LatencyAssumption DEF Ids, EventRec, JobIds
  <2>3. QED
    BY <2>1, <2>2 DEF Bounded
<1>4. EventsOK(st, ph2)
  <2>1. ASSUME NEW i \in Ids PROVE EventOK(st.events[i], ph2)
    <3>1. EventOK(st.events[i], ph)
      BY DEF StateOK, EventsOK
    <3>2. st.events[i].pending \subseteq Clients
      BY <1>1 DEF EventRec
    <3>3. QED
      BY <3>1, <3>2 DEF EventOK
  <2>2. QED
    BY <2>1 DEF EventsOK
<1>5. QED
  BY <1>1, <1>2, <1>3, <1>4 DEF StateOK

\* The summaries of the step before are taken.
LEMMA ClearedKeeps ==
  ASSUME NEW st, NEW ids, NEW ph, NEW n, NEW jb, StateOK(st, ids, ph, n, jb)
  PROVE  /\ StateOK([st EXCEPT !.completed = {}], ids, ph, n, jb)
         /\ [st EXCEPT !.completed = {}].events = st.events
<1> DEFINE c == [st EXCEPT !.completed = {}]
<1>1. st \in StateRec
  BY DEF StateOK
<1>2. /\ c \in StateRec /\ c.events = st.events /\ c.dedupe = st.dedupe
      /\ c.published = st.published /\ c.completed = {}
  BY <1>1 DEF StateRec
<1> HIDE DEF c
<1>3. Indexed(c, ids)
  BY <1>2 DEF StateOK, Indexed
<1>4. Bounded(c, n, jb) /\ EventsOK(c, ph) /\ SummariesOK(c)
  BY <1>2 DEF StateOK, Bounded, EventsOK, SummariesOK
<1>5. StateOK(c, ids, ph, n, jb)
  BY <1>2, <1>3, <1>4 DEF StateOK
<1>6. QED
  BY <1>2, <1>5 DEF c

\* One verdict for every event.
LEMMA VerdictIs ==
  ASSUME NEW status, NEW reason, NEW i \in Ids
  PROVE  Verdict(status, reason)[i].status = status /\ Verdict(status, reason)[i].reason = reason
  BY DEF Verdict

\* Events that end without being complete.
LEMMA FailedKeeps ==
  ASSUME NEW st, NEW ids, NEW ph, NEW n, NEW jb, StateOK(st, ids, ph, n, jb),
         NEW status \in Statuses, status # "complete", NEW reason \in Reasons
  PROVE  StateOK(finish_locked(st, ids, Verdict(status, reason)), {}, ph, n, jb)
<1>1. ASSUME NEW i \in ids \cap InFlight(st)
      PROVE  Verdict(status, reason)[i].status = status /\ Verdict(status, reason)[i].reason = reason
  BY VerdictIs DEF InFlight
<1> DEFINE verdict == Verdict(status, reason)
<1>2. \A i \in ids \cap InFlight(st) :
        /\ verdict[i].status \in Statuses /\ verdict[i].reason \in Reasons
        /\ verdict[i].status = "complete" /\ verdict[i].reason \in {"all_notified", "zero_sessions"}
             => st.events[i].audience \subseteq st.events[i].success
  BY <1>1
<1> HIDE DEF verdict
<1>3. StateOK(finish_locked(st, ids, verdict), {}, ph, n, jb)
  BY <1>2, FinishKeeps
<1>4. QED
  BY <1>3 DEF verdict

\* Events that are known to the state may be excused.
LEMMA ExcuseKeeps ==
  ASSUME NEW st, NEW ids, NEW more, ids \subseteq more, NEW ph, NEW n, NEW jb,
         StateOK(st, ids, ph, n, jb)
  PROVE  StateOK(st, more, ph, n, jb)
<1>1. Indexed(st, more)
  BY DEF StateOK, Indexed
<1>2. QED
  BY <1>1 DEF StateOK

\* expire_locked.
LEMMA ExpireKeeps ==
  ASSUME NEW st, NEW ph, NEW n, NEW jb, StateOK(st, {}, ph, n, jb)
  PROVE  StateOK(expire_locked(st), {}, ph, n, jb)
<1> DEFINE c == [st EXCEPT !.completed = {}]
           old == {i \in Ids : st.events[i].old}
<1>1. StateOK(c, {}, ph, n, jb)
  BY ClearedKeeps
<1> HIDE DEF c, old
<1>2. StateOK(c, old, ph, n, jb)
  BY <1>1, ExcuseKeeps
<1>3. StateOK(finish_locked(c, old, Verdict("timeout", "stage_timeout")), {}, ph, n, jb)
  <2>1. PICK status \in Statuses : status = "timeout"
    BY DEF Statuses
  <2>2. PICK reason \in Reasons : reason = "stage_timeout"
    BY DEF Reasons
  <2>3. StateOK(finish_locked(c, old, Verdict(status, reason)), {}, ph, n, jb)
    <3>1. status # "complete"
      BY <2>1
    <3>2. QED
      BY <1>2, <3>1, FailedKeeps
  <2>4. QED
    BY <2>1, <2>2, <2>3, Zenon
<1>4. QED
  BY <1>3 DEF expire_locked, c, old

\* Events may change as long as they stay what they are, what is said of each stays
\* true, and the ones that wait for nobody any more are excused.
LEMMA EventsChange ==
  ASSUME NEW st, NEW ph, NEW n, NEW jb, StateOK(st, {}, ph, n, jb), NEW ids,
         NEW u \in StateRec, u.dedupe = st.dedupe, u.published = st.published,
         u.completed \subseteq st.completed,
         \A i \in Ids :
           /\ u.events[i].stage = "none" <=> st.events[i].stage = "none"
           /\ u.events[i].stage = "published" <=> st.events[i].stage = "published"
           /\ u.events[i].key = st.events[i].key /\ u.events[i].job = st.events[i].job
           /\ EventOK(u.events[i], ph)
           /\ i \notin ids /\ u.events[i].stage = "published" => u.events[i].pending # {}
  PROVE  StateOK(u, ids, ph, n, jb)
<1>1. st \in StateRec /\ Indexed(st, {}) /\ Bounded(st, n, jb) /\ SummariesOK(st)
  BY DEF StateOK
<1>2. \A k \in JobIds : /\ st.dedupe[k] # NoId => st.dedupe[k] \in Ids
                        /\ st.published[k] # NoId => st.published[k] \in Ids
  BY <1>1 DEF StateRec
<1>3. \A i \in Ids : u.events[i].stage # "none" => u.dedupe[u.events[i].key] = i
  BY <1>1 DEF Indexed
<1>4. \A i, m \in Ids : /\ u.events[i].stage = "published" /\ u.events[m].stage = "published"
                        /\ u.events[i].job = u.events[m].job
                        => i = m
  BY <1>1 DEF Indexed
<1>5. \A i \in Ids \ ids : u.events[i].stage = "published" =>
        u.published[u.events[i].job] = i /\ u.events[i].pending # {}
  BY <1>1 DEF Indexed
<1>6. \A k \in JobIds : u.dedupe[k] # NoId =>
        u.events[u.dedupe[k]].stage # "none" /\ u.events[u.dedupe[k]].key = k
  BY <1>1, <1>2 DEF Indexed
<1>7. \A j \in JobIds : u.published[j] # NoId =>
        u.events[u.published[j]].stage = "published" /\ u.events[u.published[j]].job = j
  BY <1>1, <1>2 DEF Indexed
<1>8. Indexed(u, ids)
  BY <1>3, <1>4, <1>5, <1>6, <1>7 DEF Indexed
<1>9. Bounded(u, n, jb) /\ EventsOK(u, ph) /\ SummariesOK(u)
  BY <1>1 DEF Bounded, EventsOK, SummariesOK
<1>10. QED
  BY <1>8, <1>9 DEF StateOK

-----------------------------------------------------------------------------
(***************************************************************************)
(* The fanout of an event.                                                 *)
(***************************************************************************)

\* finish_fanout_locked: only an event without a gap is complete.
LEMMA FanoutKeeps ==
  ASSUME NEW st, NEW ids, NEW ph, NEW n, NEW jb, StateOK(st, ids, ph, n, jb), NEW reason \in Reasons,
         \A i \in ids \cap InFlight(st) :
           reason \in {"all_notified", "zero_sessions"} /\ st.events[i].gap = 0
             => st.events[i].audience \subseteq st.events[i].success
  PROVE  StateOK(finish_fanout_locked(st, ids, reason), {}, ph, n, jb)
<1> DEFINE verdict == [i \in Ids |-> IF st.events[i].gap > 0
                                     THEN [status |-> "tracking_gap", reason |-> "untracked_sessions"]
                                     ELSE [status |-> "complete", reason |-> reason]]
<1>1. ASSUME NEW i \in ids \cap InFlight(st)
      PROVE  /\ verdict[i].status \in Statuses /\ verdict[i].reason \in Reasons
             /\ verdict[i].status = "complete" /\ verdict[i].reason \in {"all_notified", "zero_sessions"}
                  => st.events[i].audience \subseteq st.events[i].success
  <2>1. i \in Ids /\ st.events[i].gap \in Nat
    BY DEF InFlight, StateOK, StateRec, EventRec
  <2>2. CASE st.events[i].gap > 0
    <3>1. verdict[i].status = "tracking_gap" /\ verdict[i].reason = "untracked_sessions"
      BY <2>1, <2>2
    <3>2. QED
      BY <3>1 DEF Statuses, Reasons
  <2>3. CASE st.events[i].gap = 0
    <3>1. verdict[i].status = "complete" /\ verdict[i].reason = reason
      BY <2>1, <2>3
    <3>2. QED
      BY <2>3, <3>1 DEF Statuses
  <2>4. QED
    BY <2>1, <2>2, <2>3
<1> HIDE DEF verdict
<1>2. StateOK(finish_locked(st, ids, verdict), {}, ph, n, jb)
  BY <1>1, FinishKeeps
<1>3. QED
  BY <1>2 DEF verdict, finish_fanout_locked

\* An event loses a session: it is skipped.
LEMMA WithoutIs ==
  ASSUME NEW e \in EventRec, NEW s \in Clients, NEW ph, EventOK(e, ph)
  PROVE  /\ Without(e, s) \in EventRec /\ Without(e, s).stage = e.stage
         /\ Without(e, s).key = e.key /\ Without(e, s).job = e.job
         /\ Without(e, s).pending = e.pending \ {s}
         /\ EventOK(Without(e, s), ph)
<1>1. CASE s \notin e.pending
  BY <1>1 DEF Without
<1>2. CASE s \in e.pending
  <2> DEFINE w == Without(e, s)
  <2>1. /\ w \in EventRec /\ w.stage = e.stage /\ w.key = e.key /\ w.job = e.job
        /\ w.pending = e.pending \ {s} /\ w.skipped = e.skipped + 1 /\ w.success = e.success
        /\ w.failed = e.failed /\ w.target = e.target
    <3>1. PICK p \in SUBSET Clients : p = e.pending \ {s}
      BY DEF EventRec
    <3>2. PICK k \in Nat : k = e.skipped + 1
      BY DEF EventRec
    <3>3. w = [e EXCEPT !.pending = p, !.skipped = k]
      BY <1>2, <3>1, <3>2 DEF Without
    <3> HIDE DEF w
    <3>4. w \in EventRec
      BY <3>3 DEF EventRec
    <3>5. /\ w.stage = e.stage /\ w.key = e.key /\ w.job = e.job /\ w.pending = p /\ w.skipped = k
          /\ w.success = e.success /\ w.failed = e.failed /\ w.target = e.target
      BY <3>3 DEF EventRec
    <3>6. QED
      BY <3>1, <3>2, <3>4, <3>5
  <2> HIDE DEF w
  <2>2. /\ e.success \in SUBSET Clients /\ e.pending \in SUBSET Clients /\ e.failed \in Nat
        /\ e.skipped \in Nat /\ e.target \in Nat
    BY DEF EventRec
  <2>3. Cardinality(e.success) \in Nat /\ Cardinality(e.pending) \in Nat /\ IsFiniteSet(e.pending)
    BY <2>2, ClientSets
  <2>4. Cardinality(e.pending \ {s}) = Cardinality(e.pending) - 1
    BY <1>2, <2>3, FS_RemoveElement
  <2>5. Cardinality(w.success) + w.failed + w.skipped + Cardinality(w.pending) >= w.target
    <3>1. Cardinality(e.success) + e.failed + e.skipped + Cardinality(e.pending) >= e.target
      BY DEF EventOK
    <3>2. QED
      BY <2>1, <2>2, <2>3, <2>4, <3>1
  <2>6. w.skipped # 0
    BY <2>1, <2>2
  <2>7. w.success \cap w.pending = {} /\ (w.stage # "published" => w.success = {})
    BY <2>1 DEF EventOK
  <2>8. EventOK(w, ph)
    BY <2>5, <2>6, <2>7 DEF EventOK
  <2>9. QED
    BY <2>1, <2>8 DEF w
<1>3. QED
  BY <1>1, <1>2

\* Several events lose a session: those that waited for it alone are to end.
LEMMA DropKeeps ==
  ASSUME NEW st, NEW ph, NEW n, NEW jb, StateOK(st, {}, ph, n, jb), NEW ids \in SUBSET Ids,
         NEW s \in Clients
  PROVE  /\ StateOK(Dropped(st, ids, s), Emptied(st, ids, s), ph, n, jb)
         /\ \A i \in Ids \ ids : Dropped(st, ids, s).events[i] = st.events[i]
<1> DEFINE u == Dropped(st, ids, s)
           es == [i \in Ids |-> IF i \in ids THEN Without(st.events[i], s) ELSE st.events[i]]
<1>1. st \in StateRec /\ \A i \in Ids : st.events[i] \in EventRec /\ EventOK(st.events[i], ph)
  BY DEF StateOK, StateRec, EventsOK
<1>2. \A i \in Ids :
        /\ Without(st.events[i], s) \in EventRec /\ Without(st.events[i], s).stage = st.events[i].stage
        /\ Without(st.events[i], s).key = st.events[i].key /\ Without(st.events[i], s).job = st.events[i].job
        /\ Without(st.events[i], s).pending = st.events[i].pending \ {s}
        /\ EventOK(Without(st.events[i], s), ph)
  BY <1>1, WithoutIs
<1>3. es \in [Ids -> EventRec]
  BY <1>1, <1>2
<1>4. /\ u \in StateRec /\ u.events = es /\ u.dedupe = st.dedupe /\ u.published = st.published
      /\ u.completed = st.completed
  <2> HIDE DEF es
  <2>1. u = [st EXCEPT !.events = es]
    BY DEF Dropped, es
  <2> HIDE DEF u
  <2>2. QED
    BY <1>1, <1>3, <2>1 DEF StateRec
<1>5. \A i \in Ids : es[i] = IF i \in ids THEN Without(st.events[i], s) ELSE st.events[i]
  OBVIOUS
<1> HIDE DEF u, es
<1>6. ASSUME NEW i \in Ids
      PROVE  /\ u.events[i].stage = "none" <=> st.events[i].stage = "none"
             /\ u.events[i].stage = "published" <=> st.events[i].stage = "published"
             /\ u.events[i].key = st.events[i].key /\ u.events[i].job = st.events[i].job
             /\ EventOK(u.events[i], ph)
             /\ i \notin Emptied(st, ids, s) /\ u.events[i].stage = "published"
                  => u.events[i].pending # {}
  <2>1. u.events[i] = IF i \in ids THEN Without(st.events[i], s) ELSE st.events[i]
    BY <1>4, <1>5
  <2>2. st.events[i].stage = "published" => st.events[i].pending # {}
    BY DEF StateOK, Indexed
  <2>3. CASE i \in ids
    <3>1. u.events[i] = Without(st.events[i], s)
      BY <2>1, <2>3
    <3>2. i \notin Emptied(st, ids, s) => st.events[i].pending # {s}
      BY <2>3 DEF Emptied
    <3>3. QED
      BY <1>2, <2>2, <3>1, <3>2
  <2>4. CASE i \notin ids
    <3>1. u.events[i] = st.events[i]
      BY <2>1, <2>4
    <3>2. QED
      BY <1>1, <2>2, <3>1
  <2>5. QED
    BY <2>3, <2>4
<1>7. StateOK(u, Emptied(st, ids, s), ph, n, jb)
  BY <1>4, <1>6, EventsChange
<1>8. \A i \in Ids \ ids : u.events[i] = st.events[i]
  BY <1>4, <1>5
<1>9. QED
  BY <1>7, <1>8 DEF u

\* An event hears of a session it waits for, which has not left.
LEMMA HeardIs ==
  ASSUME NEW e \in EventRec, NEW s \in e.pending, NEW ph, EventOK(e, ph), e.stage = "published",
         NEW outcome \in {"success", "failed", "skipped"}, ph[s] \in {"tracked", "untracked"}
  PROVE  /\ Heard(e, s, outcome) \in EventRec /\ Heard(e, s, outcome).stage = e.stage
         /\ Heard(e, s, outcome).key = e.key /\ Heard(e, s, outcome).job = e.job
         /\ EventOK(Heard(e, s, outcome), ph)
<1> DEFINE h == Heard(e, s, outcome)
<1>1. /\ e.success \in SUBSET Clients /\ e.pending \in SUBSET Clients /\ e.failed \in Nat
      /\ e.skipped \in Nat /\ e.target \in Nat /\ s \in Clients
  BY DEF EventRec
<1>2. /\ h \in EventRec /\ h.stage = e.stage /\ h.key = e.key /\ h.job = e.job
      /\ h.pending = e.pending \ {s} /\ h.target = e.target /\ h.gap = e.gap /\ h.audience = e.audience
      /\ h.success = (IF outcome = "success" THEN e.success \cup {s} ELSE e.success)
      /\ h.failed = (IF outcome = "failed" THEN e.failed + 1 ELSE e.failed)
      /\ h.skipped = (IF outcome = "skipped" THEN e.skipped + 1 ELSE e.skipped)
  <2>1. PICK p \in SUBSET Clients : p = e.pending \ {s}
    BY <1>1
  <2>2. PICK q \in SUBSET Clients : q = (IF outcome = "success" THEN e.success \cup {s} ELSE e.success)
    BY <1>1
  <2>3. PICK m \in Nat : m = (IF outcome = "failed" THEN e.failed + 1 ELSE e.failed)
    BY <1>1
  <2>4. PICK k \in Nat : k = (IF outcome = "skipped" THEN e.skipped + 1 ELSE e.skipped)
    BY <1>1
  <2>5. h = [e EXCEPT !.pending = p, !.success = q, !.failed = m, !.skipped = k]
    BY <2>1, <2>2, <2>3, <2>4 DEF Heard
  <2> HIDE DEF h
  <2>6. h \in EventRec
    BY <2>5 DEF EventRec
  <2>7. /\ h.stage = e.stage /\ h.key = e.key /\ h.job = e.job /\ h.pending = p /\ h.skipped = k
        /\ h.success = q /\ h.failed = m /\ h.target = e.target /\ h.gap = e.gap /\ h.audience = e.audience
    BY <2>5 DEF EventRec
  <2>8. QED
    BY <2>1, <2>2, <2>3, <2>4, <2>6, <2>7
<1> HIDE DEF h
<1>3. /\ Cardinality(e.success) \in Nat /\ Cardinality(e.pending) \in Nat /\ IsFiniteSet(e.pending)
      /\ IsFiniteSet(e.success)
  BY <1>1, ClientSets
<1>4. Cardinality(e.pending \ {s}) = Cardinality(e.pending) - 1
  BY <1>3, FS_RemoveElement
<1>5. Cardinality(e.success \cup {s}) = Cardinality(e.success) + 1
  <2>1. s \notin e.success
    BY DEF EventOK
  <2>2. QED
    BY <1>3, <2>1, FS_AddElement
<1>6. Cardinality(h.success) + h.failed + h.skipped + Cardinality(h.pending) >= h.target
  <2>1. Cardinality(e.success) + e.failed + e.skipped + Cardinality(e.pending) >= e.target
    BY DEF EventOK
  <2>2. CASE outcome = "success"
    <3>1. h.success = e.success \cup {s} /\ h.failed = e.failed /\ h.skipped = e.skipped
      BY <1>2, <2>2
    <3>2. QED
      BY <1>1, <1>2, <1>3, <1>4, <1>5, <2>1, <3>1
  <2>3. CASE outcome = "failed"
    <3>1. h.success = e.success /\ h.failed = e.failed + 1 /\ h.skipped = e.skipped
      BY <1>2, <2>3
    <3>2. QED
      BY <1>1, <1>2, <1>3, <1>4, <2>1, <3>1
  <2>4. CASE outcome = "skipped"
    <3>1. h.success = e.success /\ h.failed = e.failed /\ h.skipped = e.skipped + 1
      BY <1>2, <2>4
    <3>2. QED
      BY <1>1, <1>2, <1>3, <1>4, <2>1, <3>1
  <2>5. QED
    BY <2>2, <2>3, <2>4
<1>7. h.success \cap h.pending = {} /\ (h.stage # "published" => h.success = {})
  <2>1. e.success \cap e.pending = {}
    BY DEF EventOK
  <2>2. QED
    BY <1>2, <2>1
<1>8. ASSUME h.gap = 0, h.failed = 0, h.skipped = 0
      PROVE  \/ h.audience \subseteq h.success \cup h.pending
             \/ \E x \in h.pending : ph[x] \in {"leaving", "gone"}
  <2>1. outcome = "success" /\ e.gap = 0 /\ e.failed = 0 /\ e.skipped = 0
    BY <1>1, <1>2, <1>8
  <2>2. \/ e.audience \subseteq e.success \cup e.pending
        \/ \E x \in e.pending : ph[x] \in {"leaving", "gone"}
    BY <2>1 DEF EventOK
  <2>3. h.success \cup h.pending = e.success \cup e.pending
    BY <1>2, <2>1
  <2>4. ASSUME NEW x \in e.pending, ph[x] \in {"leaving", "gone"} PROVE x \in h.pending
    <3>1. x # s
      BY <2>4
    <3>2. QED
      BY <1>2, <3>1
  <2>5. QED
    BY <1>2, <2>2, <2>3, <2>4
<1>9. EventOK(h, ph)
  BY <1>6, <1>7, <1>8 DEF EventOK
<1>10. QED
  BY <1>2, <1>9 DEF h

-----------------------------------------------------------------------------
(***************************************************************************)
(* Sessions come and go.                                                   *)
(***************************************************************************)

\* One session goes on to another phase.
LEMMA PhaseChanges ==
  ASSUME CountersExact, NEW s \in Clients, NEW p \in Phases, phase' = [phase EXCEPT ![s] = p]
  PROVE  /\ phase' \in [Clients -> Phases] /\ phase'[s] = p
         /\ \A c \in Clients \ {s} : phase'[c] = phase[c]
         /\ IsFiniteSet(Present) /\ IsFiniteSet(Untracking)
         /\ Cardinality(Present) \in Nat /\ Cardinality(Untracking) \in Nat
<1>1. Present \in SUBSET Clients /\ Untracking \in SUBSET Clients
  BY DEF Present, Untracking
<1>2. QED
  BY <1>1, ClientSets DEF CountersExact

\* A session is counted from its first step to the first of its end, ...
LEMMA PresentFollows ==
  ASSUME CountersExact, NEW s \in Clients, NEW p \in Phases, phase' = [phase EXCEPT ![s] = p]
  PROVE  LET in == {"entering", "uncounted", "tracked", "untracked"}
         IN  /\ (phase[s] \in in <=> p \in in) => Cardinality(Present') = Cardinality(Present)
             /\ phase[s] \notin in /\ p \in in => Cardinality(Present') = Cardinality(Present) + 1
             /\ phase[s] \in in /\ p \notin in => Cardinality(Present') = Cardinality(Present) - 1
<1> DEFINE in == {"entering", "uncounted", "tracked", "untracked"}
<1>1. /\ phase'[s] = p /\ (\A c \in Clients \ {s} : phase'[c] = phase[c])
      /\ IsFiniteSet(Present) /\ Cardinality(Present) \in Nat
  BY PhaseChanges
<1>2. ASSUME phase[s] \in in <=> p \in in PROVE Cardinality(Present') = Cardinality(Present)
  <2>1. Present' = Present
    BY <1>1, <1>2 DEF Present
  <2>2. QED
    BY <2>1
<1>3. ASSUME phase[s] \notin in, p \in in PROVE Cardinality(Present') = Cardinality(Present) + 1
  <2>1. Present' = Present \cup {s} /\ s \notin Present
    BY <1>1, <1>3 DEF Present
  <2>2. QED
    BY <1>1, <2>1, FS_AddElement
<1>4. ASSUME phase[s] \in in, p \notin in PROVE Cardinality(Present') = Cardinality(Present) - 1
  <2>1. Present' = Present \ {s} /\ s \in Present
    BY <1>1, <1>4 DEF Present
  <2>2. QED
    BY <1>1, <2>1, FS_RemoveElement
<1>5. QED
  BY <1>2, <1>3, <1>4

\* ... and as untracked from when it is known to be off the roster until it is gone.
LEMMA UntrackingFollows ==
  ASSUME CountersExact, NEW s \in Clients, NEW p \in Phases, phase' = [phase EXCEPT ![s] = p]
  PROVE  LET in == {"untracked", "uncounting"}
         IN  /\ (phase[s] \in in <=> p \in in) => Cardinality(Untracking') = Cardinality(Untracking)
             /\ phase[s] \notin in /\ p \in in => Cardinality(Untracking') = Cardinality(Untracking) + 1
             /\ phase[s] \in in /\ p \notin in => Cardinality(Untracking') = Cardinality(Untracking) - 1
<1> DEFINE in == {"untracked", "uncounting"}
<1>1. /\ phase'[s] = p /\ (\A c \in Clients \ {s} : phase'[c] = phase[c])
      /\ IsFiniteSet(Untracking) /\ Cardinality(Untracking) \in Nat
  BY PhaseChanges
<1>2. ASSUME phase[s] \in in <=> p \in in PROVE Cardinality(Untracking') = Cardinality(Untracking)
  <2>1. Untracking' = Untracking
    BY <1>1, <1>2 DEF Untracking
  <2>2. QED
    BY <2>1
<1>3. ASSUME phase[s] \notin in, p \in in PROVE Cardinality(Untracking') = Cardinality(Untracking) + 1
  <2>1. Untracking' = Untracking \cup {s} /\ s \notin Untracking
    BY <1>1, <1>3 DEF Untracking
  <2>2. QED
    BY <1>1, <2>1, FS_AddElement
<1>4. ASSUME phase[s] \in in, p \notin in PROVE Cardinality(Untracking') = Cardinality(Untracking) - 1
  <2>1. Untracking' = Untracking \ {s} /\ s \in Untracking
    BY <1>1, <1>4 DEF Untracking
  <2>2. QED
    BY <1>1, <2>1, FS_RemoveElement
<1>5. QED
  BY <1>2, <1>3, <1>4

\* Who has left stays away.
Left(ph) == {s \in Clients : ph[s] \in {"leaving", "gone"}}

\* Coming: authorize, Enrol and count_untracked_session.
LEMMA ComingKeepsCounters ==
  ASSUME CountersExact, NEW s \in Clients, authorize(s) \/ Enrol(s) \/ count_untracked_session(s)
  PROVE  CountersExact' /\ Left(phase) \subseteq Left(phase')
<1>1. /\ phase \in [Clients -> Phases] /\ total = Cardinality(Present)
      /\ untracked = Cardinality(Untracking) /\ stale \in Nat
      /\ roster \subseteq {c \in Clients : phase[c] \in {"tracked", "leaving", "gone"}}
  BY DEF CountersExact
<1>2. CASE authorize(s)
  <2>1. /\ phase[s] = "new" /\ phase' = [phase EXCEPT ![s] = "entering"] /\ total' = total + 1
        /\ untracked' = untracked /\ stale' = stale /\ roster' = roster
    BY <1>2 DEF authorize
  <2>2. PICK p \in Phases : p = "entering"
    BY DEF Phases
  <2>3. phase' = [phase EXCEPT ![s] = p]
    BY <2>1, <2>2
  <2>4. Cardinality(Present') = Cardinality(Present) + 1
    BY <2>1, <2>2, <2>3, PresentFollows
  <2>5. Cardinality(Untracking') = Cardinality(Untracking)
    BY <2>1, <2>2, <2>3, UntrackingFollows
  <2>6. phase' \in [Clients -> Phases] /\ phase'[s] = p /\ \A c \in Clients \ {s} : phase'[c] = phase[c]
    BY <2>3, PhaseChanges
  <2>7. roster' \subseteq {c \in Clients : phase'[c] \in {"tracked", "leaving", "gone"}}
    BY <1>1, <2>1, <2>6
  <2>8. Left(phase) \subseteq Left(phase')
    BY <2>1, <2>6 DEF Left
  <2>9. QED
    BY <1>1, <2>1, <2>4, <2>5, <2>6, <2>7, <2>8 DEF CountersExact
<1>3. CASE Enrol(s)
  <2>1. PICK p \in {"tracked", "uncounted"} :
          /\ phase[s] = "entering" /\ phase' = [phase EXCEPT ![s] = p] /\ total' = total
          /\ untracked' = untracked /\ stale' = stale
          /\ roster' = IF p = "tracked" THEN roster \cup {s} ELSE roster
    BY <1>3 DEF Enrol
  <2>2. p \in Phases
    BY DEF Phases
  <2>3. Cardinality(Present') = Cardinality(Present)
    BY <2>1, <2>2, PresentFollows
  <2>4. Cardinality(Untracking') = Cardinality(Untracking)
    BY <2>1, <2>2, UntrackingFollows
  <2>5. phase' \in [Clients -> Phases] /\ phase'[s] = p /\ \A c \in Clients \ {s} : phase'[c] = phase[c]
    BY <2>1, <2>2, PhaseChanges
  <2>6. roster' \subseteq {c \in Clients : phase'[c] \in {"tracked", "leaving", "gone"}}
    BY <1>1, <2>1, <2>5
  <2>7. Left(phase) \subseteq Left(phase')
    BY <2>1, <2>5 DEF Left
  <2>8. QED
    BY <1>1, <2>1, <2>3, <2>4, <2>5, <2>6, <2>7 DEF CountersExact
<1>4. CASE count_untracked_session(s)
  <2>1. /\ phase[s] = "uncounted" /\ phase' = [phase EXCEPT ![s] = "untracked"] /\ total' = total
        /\ untracked' = untracked + 1 /\ stale' = stale /\ roster' = roster
    BY <1>4 DEF count_untracked_session
  <2>2. PICK p \in Phases : p = "untracked"
    BY DEF Phases
  <2>3. phase' = [phase EXCEPT ![s] = p]
    BY <2>1, <2>2
  <2>4. Cardinality(Present') = Cardinality(Present)
    BY <2>1, <2>2, <2>3, PresentFollows
  <2>5. Cardinality(Untracking') = Cardinality(Untracking) + 1
    BY <2>1, <2>2, <2>3, UntrackingFollows
  <2>6. phase' \in [Clients -> Phases] /\ phase'[s] = p /\ \A c \in Clients \ {s} : phase'[c] = phase[c]
    BY <2>3, PhaseChanges
  <2>7. roster' \subseteq {c \in Clients : phase'[c] \in {"tracked", "leaving", "gone"}}
    BY <1>1, <2>1, <2>6
  <2>8. Left(phase) \subseteq Left(phase')
    BY <2>1, <2>6 DEF Left
  <2>9. QED
    BY <1>1, <2>1, <2>4, <2>5, <2>6, <2>7, <2>8 DEF CountersExact
<1>5. QED
  BY <1>2, <1>3, <1>4

\* Going: Leave, TakeOff and ForgetUntracked.
LEMMA GoingKeepsCounters ==
  ASSUME CountersExact, NEW s \in Clients, Leave(s) \/ TakeOff(s) \/ ForgetUntracked(s)
  PROVE  CountersExact' /\ Left(phase) \subseteq Left(phase')
<1>1. /\ phase \in [Clients -> Phases] /\ total = Cardinality(Present)
      /\ untracked = Cardinality(Untracking) /\ stale \in Nat
      /\ roster \subseteq {c \in Clients : phase[c] \in {"tracked", "leaving", "gone"}}
  BY DEF CountersExact
<1>2. CASE Leave(s)
  <2>1. PICK p \in {"leaving", "uncounting"} :
          /\ phase' = [phase EXCEPT ![s] = p] /\ total' = total - 1
          /\ untracked' = untracked /\ stale' = stale /\ roster' = roster
          /\ phase[s] = IF p = "leaving" THEN "tracked" ELSE "untracked"
    <3>1. /\ phase[s] \in {"tracked", "untracked"} /\ total' = total - 1
          /\ phase' = [phase EXCEPT ![s] = IF @ = "tracked" THEN "leaving" ELSE "uncounting"]
          /\ untracked' = untracked /\ stale' = stale /\ roster' = roster
      BY <1>2 DEF Leave
    <3>2. CASE phase[s] = "tracked"
      BY <1>1, <3>1, <3>2
    <3>3. CASE phase[s] = "untracked"
      BY <1>1, <3>1, <3>3
    <3>4. QED
      BY <3>1, <3>2, <3>3
  <2>2. p \in Phases
    BY DEF Phases
  <2>3. Cardinality(Present') = Cardinality(Present) - 1
    BY <2>1, <2>2, PresentFollows
  <2>4. Cardinality(Untracking') = Cardinality(Untracking)
    BY <2>1, <2>2, UntrackingFollows
  <2>5. phase' \in [Clients -> Phases] /\ phase'[s] = p /\ \A c \in Clients \ {s} : phase'[c] = phase[c]
    BY <2>1, <2>2, PhaseChanges
  <2>6. roster' \subseteq {c \in Clients : phase'[c] \in {"tracked", "leaving", "gone"}}
    BY <1>1, <2>1, <2>5
  <2>7. Left(phase) \subseteq Left(phase')
    BY <2>1, <2>5 DEF Left
  <2>8. QED
    BY <1>1, <2>1, <2>3, <2>4, <2>5, <2>6, <2>7 DEF CountersExact
<1>3. CASE TakeOff(s)
  <2>1. /\ phase[s] = "leaving" /\ phase' = [phase EXCEPT ![s] = "gone"] /\ total' = total
        /\ untracked' = untracked /\ roster' \subseteq roster /\ (stale' = stale \/ stale' = stale + 1)
    BY <1>3 DEF TakeOff
  <2>2. PICK p \in Phases : p = "gone"
    BY DEF Phases
  <2>3. phase' = [phase EXCEPT ![s] = p]
    BY <2>1, <2>2
  <2>4. Cardinality(Present') = Cardinality(Present)
    BY <2>1, <2>2, <2>3, PresentFollows
  <2>5. Cardinality(Untracking') = Cardinality(Untracking)
    BY <2>1, <2>2, <2>3, UntrackingFollows
  <2>6. phase' \in [Clients -> Phases] /\ phase'[s] = p /\ \A c \in Clients \ {s} : phase'[c] = phase[c]
    BY <2>3, PhaseChanges
  <2>7. roster' \subseteq {c \in Clients : phase'[c] \in {"tracked", "leaving", "gone"}}
    BY <1>1, <2>1, <2>2, <2>6
  <2>8. Left(phase) \subseteq Left(phase')
    BY <2>2, <2>6 DEF Left
  <2>9. stale' \in Nat
    BY <1>1, <2>1
  <2>10. total' = Cardinality(Present') /\ untracked' = Cardinality(Untracking')
    BY <1>1, <2>1, <2>4, <2>5
  <2>11. QED
    BY <2>6, <2>7, <2>8, <2>9, <2>10 DEF CountersExact
<1>4. CASE ForgetUntracked(s)
  <2>1. /\ phase[s] = "uncounting" /\ phase' = [phase EXCEPT ![s] = "gone"] /\ total' = total
        /\ untracked' = untracked - 1 /\ stale' = stale /\ roster' = roster
    BY <1>4 DEF ForgetUntracked
  <2>2. PICK p \in Phases : p = "gone"
    BY DEF Phases
  <2>3. phase' = [phase EXCEPT ![s] = p]
    BY <2>1, <2>2
  <2>4. Cardinality(Present') = Cardinality(Present)
    BY <2>1, <2>2, <2>3, PresentFollows
  <2>5. Cardinality(Untracking') = Cardinality(Untracking) - 1
    BY <2>1, <2>2, <2>3, UntrackingFollows
  <2>6. phase' \in [Clients -> Phases] /\ phase'[s] = p /\ \A c \in Clients \ {s} : phase'[c] = phase[c]
    BY <2>3, PhaseChanges
  <2>7. roster' \subseteq {c \in Clients : phase'[c] \in {"tracked", "leaving", "gone"}}
    BY <1>1, <2>1, <2>6
  <2>8. Left(phase) \subseteq Left(phase')
    BY <2>2, <2>6 DEF Left
  <2>9. QED
    BY <1>1, <2>1, <2>4, <2>5, <2>6, <2>7, <2>8 DEF CountersExact
<1>5. QED
  BY <1>2, <1>3, <1>4

-----------------------------------------------------------------------------
(***************************************************************************)
(* The steps.                                                              *)
(***************************************************************************)

\* Nobody is there and nothing is observed.
LEMMA LatencyStarts ==
  LatencyInit => LatencyInv
<1> SUFFICES ASSUME LatencyInit PROVE LatencyInv
  OBVIOUS
<1>1. Present = {} /\ Untracking = {} /\ Cardinality({}) = 0
  BY FS_EmptySet DEF LatencyInit, Present, Untracking
<1>2. CountersExact
  BY <1>1 DEF LatencyInit, CountersExact, Phases
<1>3. WatchOK
  <2>1. next_id \in 0 .. MaxEvents /\ event \in 0 .. MaxEvents /\ job \in JobIds
    BY LatencyAssumption DEF LatencyInit, NoId, JobIds
  <2>2. ready \in BOOLEAN /\ ~ ready
    BY Zenon DEF LatencyInit
  <2>3. QED
    BY <2>1, <2>2, Zenon DEF WatchOK
<1>4. NoEvent \in EventRec /\ NoEvent.stage = "none" /\ EventOK(NoEvent, phase)
  BY NoEventIs
<1>5. /\ state.events = [i \in Ids |-> NoEvent] /\ state.dedupe = [k \in JobIds |-> NoId]
      /\ state.published = [j \in JobIds |-> NoId] /\ state.completed = {}
      /\ state = [events |-> state.events, dedupe |-> state.dedupe, published |-> state.published,
                  completed |-> state.completed]
  BY DEF LatencyInit
<1>6. state \in StateRec
  <2>1. state.events \in [Ids -> EventRec] /\ state.dedupe \in [JobIds -> {NoId} \cup Ids]
        /\ state.published \in [JobIds -> {NoId} \cup Ids] /\ state.completed \in SUBSET SummaryRec
    BY <1>4, <1>5
  <2>2. [events |-> state.events, dedupe |-> state.dedupe, published |-> state.published,
         completed |-> state.completed] \in StateRec
    BY <2>1 DEF StateRec
  <2>3. QED
    BY <1>5, <2>2, Zenon
<1>7. \A i \in Ids : state.events[i] = NoEvent
  BY <1>5
<1>8. \A k \in JobIds : state.dedupe[k] = NoId /\ state.published[k] = NoId
  BY <1>5
<1>9. Indexed(state, {})
  BY <1>4, <1>7, <1>8 DEF Indexed
<1>10. Bounded(state, next_id, job) /\ EventsOK(state, phase) /\ SummariesOK(state)
  BY <1>4, <1>5, <1>7 DEF Bounded, EventsOK, SummariesOK
<1>11. QED
  BY <1>2, <1>3, <1>6, <1>9, <1>10 DEF LatencyInv, StateOK

\* The counters, and the watch, in the new state.
LEMMA SameCounters ==
  ASSUME CountersExact, UNCHANGED sessionCounters
  PROVE  CountersExact' /\ phase' = phase
  BY DEF sessionCounters, CountersExact, Present, Untracking

\* A session comes or goes, and the state loses its summaries only.
LEMMA QuietKeepsLatencyInv ==
  ASSUME LatencyInv, CountersExact', Left(phase) \subseteq Left(phase'), UNCHANGED watch,
         Contended
  PROVE  LatencyInv'
<1>1. next_id' = next_id /\ event' = event /\ ready' = ready /\ job' = job
  BY DEF watch
<1>2. next_id \in Nat /\ job \in Nat
  BY LatencyAssumption DEF LatencyInv, WatchOK, JobIds
<1>3. WatchOK'
  BY <1>1 DEF LatencyInv, WatchOK
<1>4. StateOK(state', {}, phase, next_id, job)
  BY ClearedKeeps DEF LatencyInv, Contended
<1>5. \A s \in Clients : phase[s] \in {"leaving", "gone"} => phase'[s] \in {"leaving", "gone"}
  BY DEF Left
<1>6. StateOK(state', {}, phase', next_id, job)
  BY <1>2, <1>4, <1>5, StateLater
<1>7. StateOK(state, {}, phase, next_id, job)'
  BY <1>1, <1>6
<1>8. QED
  BY <1>3, <1>7 DEF LatencyInv

\* TakeOff with the lock: the session is off the roster and off every event.
LEMMA TakeOffKeepsLatencyInv ==
  ASSUME LatencyInv, NEW s \in Clients, TakeOff(s)
  PROVE  LatencyInv'
<1>1. CountersExact' /\ Left(phase) \subseteq Left(phase')
  BY GoingKeepsCounters DEF LatencyInv
<1>2. UNCHANGED watch
  BY DEF TakeOff
<1>3. CASE Contended
  BY <1>1, <1>2, <1>3, QuietKeepsLatencyInv
<1>4. CASE LET st == [state EXCEPT !.completed = {}]
           IN  state' = finish_fanout_locked(Dropped(st, Ids, s), Emptied(st, Ids, s),
                                             "session_disconnected")
  <2>1. PICK st : st = [state EXCEPT !.completed = {}]
    OBVIOUS
  <2>2. StateOK(st, {}, phase, next_id, job)
    BY <2>1, ClearedKeeps DEF LatencyInv
  <2>3. StateOK(Dropped(st, Ids, s), Emptied(st, Ids, s), phase, next_id, job)
    BY <2>2, DropKeeps
  <2>4. PICK reason \in Reasons : reason = "session_disconnected"
    BY DEF Reasons
  <2>5. reason \notin {"all_notified", "zero_sessions"}
    BY <2>4
  <2>6. StateOK(finish_fanout_locked(Dropped(st, Ids, s), Emptied(st, Ids, s), reason), {}, phase,
                next_id, job)
    BY <2>3, <2>5, FanoutKeeps
  <2>7. StateOK(state', {}, phase, next_id, job)
    BY <1>4, <2>1, <2>4, <2>6, Zenon
  <2>8. next_id' = next_id /\ event' = event /\ ready' = ready /\ job' = job
    BY <1>2 DEF watch
  <2>9. next_id \in Nat /\ job \in Nat
    BY LatencyAssumption DEF LatencyInv, WatchOK, JobIds
  <2>10. \A c \in Clients : phase[c] \in {"leaving", "gone"} => phase'[c] \in {"leaving", "gone"}
    BY <1>1 DEF Left
  <2>11. StateOK(state', {}, phase', next_id, job)
    BY <2>7, <2>9, <2>10, StateLater
  <2>12. WatchOK'
    BY <2>8 DEF LatencyInv, WatchOK
  <2>13. QED
    BY <1>1, <2>8, <2>11, <2>12 DEF LatencyInv
<1>5. QED
  BY <1>3, <1>4 DEF TakeOff

\* A step of the watch or of the fanout that leaves the counters alone.
LEMMA WatchKeepsLatencyInv ==
  ASSUME LatencyInv, UNCHANGED sessionCounters, WatchOK', StateOK(state', {}, phase, next_id', job')
  PROVE  LatencyInv'
<1>1. CountersExact' /\ phase' = phase
  BY SameCounters DEF LatencyInv
<1>2. QED
  BY <1>1 DEF LatencyInv

\* The numbers of the watch.
LEMMA WatchNumbers ==
  ASSUME LatencyInv
  PROVE  /\ next_id \in Nat /\ job \in Nat /\ job \in JobIds /\ next_id <= MaxEvents /\ job <= MaxJobs
         /\ event \in Nat /\ (event # NoId => event \in Ids)
         /\ StateOK(state, {}, phase, next_id, job)
         /\ StateOK(expire_locked(state), {}, phase, next_id, job)
         /\ StateOK([state EXCEPT !.completed = {}], {}, phase, next_id, job)
<1>1. StateOK(state, {}, phase, next_id, job) /\ WatchOK
  BY DEF LatencyInv
<1>2. StateOK(expire_locked(state), {}, phase, next_id, job)
  BY <1>1, ExpireKeeps
<1>3. StateOK([state EXCEPT !.completed = {}], {}, phase, next_id, job)
  BY <1>1, ClearedKeeps
<1>4. /\ next_id \in Nat /\ job \in Nat /\ job \in JobIds /\ next_id <= MaxEvents /\ job <= MaxJobs
      /\ event \in Nat /\ (event # NoId => event \in Ids)
  BY <1>1, LatencyAssumption DEF WatchOK, JobIds, Ids, NoId
<1>5. QED
  BY <1>1, <1>2, <1>3, <1>4

\* Time passes the deadline of an event.
LEMMA AgeKeepsLatencyInv ==
  ASSUME LatencyInv, NEW i \in Ids, EventAges(i)
  PROVE  LatencyInv'
<1>1. /\ state' = [state EXCEPT !.events[i].old = TRUE, !.completed = {}]
      /\ UNCHANGED sessionCounters /\ next_id' = next_id /\ event' = event /\ ready' = ready /\ job' = job
  BY DEF EventAges, watch
<1>2. PICK st : st = state
  OBVIOUS
<1>3. StateOK(st, {}, phase, next_id, job) /\ st \in StateRec
  BY <1>2 DEF LatencyInv, StateOK
<1>4. \A m \in Ids : st.events[m] \in EventRec /\ EventOK(st.events[m], phase)
  BY <1>3 DEF StateOK, EventsOK, StateRec
<1>5. PICK e \in EventRec : e = [st.events[i] EXCEPT !.old = TRUE]
  BY <1>4 DEF EventRec
<1>6. /\ e.stage = st.events[i].stage /\ e.key = st.events[i].key /\ e.job = st.events[i].job
      /\ e.pending = st.events[i].pending /\ e.success = st.events[i].success
      /\ e.failed = st.events[i].failed /\ e.skipped = st.events[i].skipped
      /\ e.gap = st.events[i].gap /\ e.target = st.events[i].target
      /\ e.audience = st.events[i].audience
  BY <1>4, <1>5 DEF EventRec
<1>7. EventOK(e, phase)
  BY <1>4, <1>6 DEF EventOK
<1>8. PICK u : u = [st EXCEPT !.events[i] = e, !.completed = {}]
  OBVIOUS
<1>9. /\ u \in StateRec /\ u.dedupe = st.dedupe /\ u.published = st.published /\ u.completed = {}
      /\ u.events = [st.events EXCEPT ![i] = e]
  BY <1>3, <1>8 DEF StateRec
<1>10. u = state'
  BY <1>1, <1>2, <1>3, <1>5, <1>8 DEF StateRec
<1>11. \A m \in Ids : u.events[m] = IF m = i THEN e ELSE st.events[m]
  BY <1>3, <1>9 DEF StateRec
<1>12. \A m \in Ids : st.events[m].stage = "published" => st.events[m].pending # {}
  BY <1>3 DEF StateOK, Indexed
<1>13. \A m \in Ids :
         /\ u.events[m].stage = "none" <=> st.events[m].stage = "none"
         /\ u.events[m].stage = "published" <=> st.events[m].stage = "published"
         /\ u.events[m].key = st.events[m].key /\ u.events[m].job = st.events[m].job
         /\ EventOK(u.events[m], phase)
         /\ m \notin {} /\ u.events[m].stage = "published" => u.events[m].pending # {}
  BY <1>4, <1>6, <1>7, <1>11, <1>12
<1>14. StateOK(u, {}, phase, next_id, job)
  BY <1>3, <1>9, <1>13, EventsChange
<1>15. WatchOK'
  BY <1>1 DEF LatencyInv, WatchOK
<1>16. QED
  BY <1>1, <1>10, <1>14, <1>15, WatchKeepsLatencyInv

\* A new event under a number that was free.
LEMMA ObserveNew ==
  ASSUME NEW st, NEW ph, NEW n \in Nat, NEW jb \in Nat, jb \in JobIds, StateOK(st, {}, ph, n, jb),
         n + 1 \in Ids, st.dedupe[jb] = NoId
  PROVE  StateOK([st EXCEPT !.dedupe[jb] = n + 1,
                            !.events[n + 1] = [NoEvent EXCEPT !.stage = "observed", !.key = jb]],
                 {}, ph, n + 1, jb)
<1>1. PICK id \in Ids : id = n + 1
  OBVIOUS
<1>2. PICK e : e = [NoEvent EXCEPT !.stage = "observed", !.key = jb]
  OBVIOUS
<1>3. NoEvent \in EventRec /\ EventOK(NoEvent, ph)
  BY NoEventIs
<1>4. /\ e \in EventRec /\ e.stage = "observed" /\ e.key = jb /\ e.pending = NoEvent.pending
      /\ e.success = NoEvent.success /\ e.failed = NoEvent.failed /\ e.skipped = NoEvent.skipped
      /\ e.gap = NoEvent.gap /\ e.target = NoEvent.target /\ e.audience = NoEvent.audience
  BY <1>2, <1>3 DEF EventRec
<1>5. EventOK(e, ph)
  <2>1. NoEvent.success = {}
    BY DEF NoEvent
  <2>2. QED
    BY <1>3, <1>4, <2>1 DEF EventOK
<1>6. PICK u : u = [st EXCEPT !.dedupe[jb] = id, !.events[id] = e]
  OBVIOUS
<1>7. st \in StateRec /\ Indexed(st, {}) /\ Bounded(st, n, jb) /\ EventsOK(st, ph) /\ SummariesOK(st)
  BY DEF StateOK
<1>8. /\ u \in StateRec /\ u.dedupe = [st.dedupe EXCEPT ![jb] = id] /\ u.published = st.published
      /\ u.completed = st.completed /\ u.events = [st.events EXCEPT ![id] = e]
  BY <1>4, <1>6, <1>7 DEF StateRec
<1>9. /\ \A m \in Ids : u.events[m] = IF m = id THEN e ELSE st.events[m]
      /\ \A k \in JobIds : u.dedupe[k] = IF k = jb THEN id ELSE st.dedupe[k]
  BY <1>7, <1>8 DEF StateRec
<1>10. st.events[id].stage = "none"
  BY <1>1, <1>7 DEF Bounded
<1>11. \A k \in JobIds : /\ st.dedupe[k] # NoId => st.dedupe[k] \in Ids
                         /\ st.published[k] # NoId => st.published[k] \in Ids
  BY <1>7 DEF StateRec
<1>12. \A m \in Ids : st.events[m].stage # "none" => st.events[m].key # jb /\ st.events[m].key \in JobIds
  <2>1. \A m \in Ids : m # NoId
    BY LatencyAssumption DEF Ids, NoId
  <2>2. QED
    BY <1>7, <2>1 DEF Indexed, StateRec, EventRec
<1>13. \A i \in Ids : u.events[i].stage # "none" => u.dedupe[u.events[i].key] = i
  <2>1. SUFFICES ASSUME NEW i \in Ids, u.events[i].stage # "none" PROVE u.dedupe[u.events[i].key] = i
    OBVIOUS
  <2>2. CASE i = id
    BY <1>4, <1>9, <2>2
  <2>3. CASE i # id
    <3>1. u.events[i] = st.events[i] /\ st.events[i].stage # "none"
      BY <1>9, <2>1, <2>3
    <3>2. st.dedupe[st.events[i].key] = i
      BY <1>7, <3>1 DEF Indexed
    <3>3. QED
      BY <1>9, <1>12, <3>1, <3>2
  <2>4. QED
    BY <2>2, <2>3
<1>14. \A i \in Ids : u.events[i].stage = "published" =>
         u.events[i] = st.events[i] /\ st.events[i].stage = "published"
  BY <1>4, <1>9
<1>15. \A i, m \in Ids : /\ u.events[i].stage = "published" /\ u.events[m].stage = "published"
                         /\ u.events[i].job = u.events[m].job
                         => i = m
  BY <1>7, <1>14 DEF Indexed
<1>16. \A i \in Ids : u.events[i].stage = "published" =>
         u.published[u.events[i].job] = i /\ u.events[i].pending # {}
  BY <1>7, <1>8, <1>14 DEF Indexed
<1>17. \A k \in JobIds : u.dedupe[k] # NoId =>
         u.events[u.dedupe[k]].stage # "none" /\ u.events[u.dedupe[k]].key = k
  <2>1. SUFFICES ASSUME NEW k \in JobIds, u.dedupe[k] # NoId
                 PROVE  u.events[u.dedupe[k]].stage # "none" /\ u.events[u.dedupe[k]].key = k
    OBVIOUS
  <2>2. CASE k = jb
    BY <1>4, <1>9, <2>2
  <2>3. CASE k # jb
    <3>1. u.dedupe[k] = st.dedupe[k] /\ st.dedupe[k] \in Ids
      BY <1>9, <1>11, <2>1, <2>3
    <3>2. st.events[st.dedupe[k]].stage # "none" /\ st.events[st.dedupe[k]].key = k
      BY <1>7, <2>1, <3>1 DEF Indexed
    <3>3. st.dedupe[k] # id
      BY <1>10, <3>2
    <3>4. QED
      BY <1>9, <3>1, <3>2, <3>3
  <2>4. QED
    BY <2>2, <2>3
<1>18. \A j \in JobIds : u.published[j] # NoId =>
         u.events[u.published[j]].stage = "published" /\ u.events[u.published[j]].job = j
  <2>1. SUFFICES ASSUME NEW j \in JobIds, u.published[j] # NoId
                 PROVE  u.events[u.published[j]].stage = "published" /\ u.events[u.published[j]].job = j
    OBVIOUS
  <2>2. u.published[j] = st.published[j] /\ st.published[j] \in Ids
    BY <1>8, <1>11, <2>1
  <2>3. st.events[st.published[j]].stage = "published" /\ st.events[st.published[j]].job = j
    BY <1>7, <2>1, <2>2 DEF Indexed
  <2>4. st.published[j] # id
    BY <1>10, <2>3
  <2>5. QED
    BY <1>9, <2>2, <2>3, <2>4
<1>19. Indexed(u, {})
  BY <1>13, <1>15, <1>16, <1>17, <1>18 DEF Indexed
<1>20. Bounded(u, n + 1, jb)
  <2>1. \A m \in Ids : m \in Nat
    BY LatencyAssumption DEF Ids
  <2>2. \A m \in Ids : st.events[m].stage # "none" => m <= n
    BY <1>7 DEF Bounded
  <2>3. \A m \in Ids : u.events[m].stage # "none" => m <= n + 1
    <3>1. SUFFICES ASSUME NEW m \in Ids, u.events[m].stage # "none" PROVE m <= n + 1
      OBVIOUS
    <3>2. m = id \/ (m # id /\ st.events[m].stage # "none")
      BY <1>9, <3>1
    <3>3. CASE m = id
      BY <1>1, <3>3
    <3>4. CASE m # id
      <4>1. m <= n /\ m \in Nat
        BY <2>1, <2>2, <3>2, <3>4
      <4>2. QED
        BY <4>1
    <3>5. QED
      BY <3>3, <3>4
  <2>4. \A m \in Ids : u.events[m].stage = "published" => u.events[m].job <= jb
    BY <1>7, <1>14 DEF Bounded
  <2>5. QED
    BY <2>3, <2>4 DEF Bounded
<1>21. EventsOK(u, ph) /\ SummariesOK(u)
  BY <1>5, <1>7, <1>8, <1>9 DEF EventsOK, SummariesOK
<1>22. StateOK(u, {}, ph, n + 1, jb)
  BY <1>8, <1>19, <1>20, <1>21 DEF StateOK
<1>23. QED
  BY <1>1, <1>2, <1>6, <1>22

\* observe_upstream.
LEMMA ObserveKeepsLatencyInv ==
  ASSUME LatencyInv, observe_upstream
  PROVE  LatencyInv'
<1>1. PICK st : st = expire_locked(state)
  OBVIOUS
<1>2. /\ StateOK(st, {}, phase, next_id, job) /\ StateOK([state EXCEPT !.completed = {}], {}, phase, next_id, job)
      /\ next_id \in Nat /\ job \in Nat /\ job \in JobIds
  BY <1>1, WatchNumbers
<1>3. UNCHANGED sessionCounters /\ ready' = ready /\ job' = job
  BY DEF observe_upstream
<1>4. WatchOK
  BY DEF LatencyInv
<1>5. CASE Contended /\ UNCHANGED <<next_id, event>>
  <2>1. WatchOK' /\ StateOK(state', {}, phase, next_id', job')
    BY <1>2, <1>3, <1>4, <1>5 DEF Contended, WatchOK
  <2>2. QED
    BY <1>3, <2>1, WatchKeepsLatencyInv
<1>6. CASE st.dedupe[job] # NoId /\ state' = st /\ event' = st.dedupe[job] /\ UNCHANGED next_id
  <2>1. st.dedupe[job] \in 0 .. MaxEvents
    BY <1>2, LatencyAssumption DEF StateOK, StateRec, Ids, NoId
  <2>2. WatchOK'
    BY <1>3, <1>4, <1>6, <2>1 DEF WatchOK
  <2>3. StateOK(state', {}, phase, next_id', job')
    BY <1>2, <1>3, <1>6
  <2>4. QED
    BY <1>3, <2>2, <2>3, WatchKeepsLatencyInv
<1>7. CASE state' = st /\ UNCHANGED <<next_id, event>>
  <2>1. WatchOK' /\ StateOK(state', {}, phase, next_id', job')
    BY <1>2, <1>3, <1>4, <1>7 DEF WatchOK
  <2>2. QED
    BY <1>3, <2>1, WatchKeepsLatencyInv
<1>8. CASE /\ st.dedupe[job] = NoId /\ next_id < MaxEvents
           /\ state' = [st EXCEPT !.dedupe[job] = next_id + 1,
                                  !.events[next_id + 1] = [NoEvent EXCEPT !.stage = "observed", !.key = job]]
           /\ next_id' = next_id + 1 /\ event' = next_id + 1
  <2>1. next_id + 1 \in Ids /\ next_id + 1 \in 0 .. MaxEvents
    BY <1>2, <1>8, LatencyAssumption DEF Ids
  <2>2. PICK n \in Nat : n = next_id
    BY <1>2
  <2>3. PICK jb \in Nat : jb = job
    BY <1>2
  <2>4. StateOK([st EXCEPT !.dedupe[jb] = n + 1,
                           !.events[n + 1] = [NoEvent EXCEPT !.stage = "observed", !.key = jb]],
                {}, phase, n + 1, jb)
    <3>1. StateOK(st, {}, phase, n, jb) /\ jb \in JobIds /\ n + 1 \in Ids
      BY <1>2, <2>1, <2>2, <2>3
    <3>2. st.dedupe[jb] = NoId
      BY <1>8, <2>3
    <3>3. QED
      BY <3>1, <3>2, ObserveNew
  <2>5. StateOK(state', {}, phase, next_id', job')
    BY <1>3, <1>8, <2>2, <2>3, <2>4, Zenon
  <2>6. WatchOK'
    BY <1>3, <1>4, <1>8, <2>1 DEF WatchOK
  <2>7. QED
    BY <1>3, <2>5, <2>6, WatchKeepsLatencyInv
<1>9. QED
  BY <1>1, <1>5, <1>6, <1>7, <1>8 DEF observe_upstream

\* An event that is not published becomes ready.
LEMMA ReadyKeeps ==
  ASSUME NEW st, NEW ph, NEW n, NEW jb, StateOK(st, {}, ph, n, jb), NEW i \in InFlight(st),
         st.events[i].stage # "published"
  PROVE  StateOK([st EXCEPT !.events[i].stage = "ready"], {}, ph, n, jb)
<1>1. i \in Ids /\ st.events[i].stage # "none" /\ st \in StateRec
  BY DEF InFlight, StateOK
<1>2. \A m \in Ids : st.events[m] \in EventRec /\ EventOK(st.events[m], ph)
  BY <1>1 DEF StateOK, EventsOK, StateRec
<1>3. PICK e \in EventRec : e = [st.events[i] EXCEPT !.stage = "ready"]
  BY <1>1, <1>2 DEF EventRec
<1>4. /\ e.stage = "ready" /\ e.key = st.events[i].key /\ e.job = st.events[i].job
      /\ e.pending = st.events[i].pending /\ e.success = st.events[i].success
      /\ e.failed = st.events[i].failed /\ e.skipped = st.events[i].skipped
      /\ e.gap = st.events[i].gap /\ e.target = st.events[i].target
      /\ e.audience = st.events[i].audience
  BY <1>1, <1>2, <1>3 DEF EventRec
<1>5. EventOK(e, ph)
  <2>1. EventOK(st.events[i], ph)
    BY <1>1, <1>2
  <2>2. QED
    BY <1>4, <2>1 DEF EventOK
<1>6. PICK u : u = [st EXCEPT !.events[i] = e]
  OBVIOUS
<1>7. /\ u \in StateRec /\ u.dedupe = st.dedupe /\ u.published = st.published
      /\ u.completed = st.completed /\ u.events = [st.events EXCEPT ![i] = e]
  BY <1>1, <1>6 DEF StateRec
<1>8. u = [st EXCEPT !.events[i].stage = "ready"]
  BY <1>1, <1>3, <1>6 DEF StateRec
<1>9. \A m \in Ids : u.events[m] = IF m = i THEN e ELSE st.events[m]
  BY <1>1, <1>7 DEF StateRec
<1>10. \A m \in Ids : st.events[m].stage = "published" => st.events[m].pending # {}
  BY DEF StateOK, Indexed
<1>11. \A m \in Ids :
         /\ u.events[m].stage = "none" <=> st.events[m].stage = "none"
         /\ u.events[m].stage = "published" <=> st.events[m].stage = "published"
         /\ u.events[m].key = st.events[m].key /\ u.events[m].job = st.events[m].job
         /\ EventOK(u.events[m], ph)
         /\ m \notin {} /\ u.events[m].stage = "published" => u.events[m].pending # {}
  BY <1>1, <1>2, <1>4, <1>5, <1>9, <1>10
<1>12. StateOK(u, {}, ph, n, jb)
  BY <1>7, <1>11, EventsChange
<1>13. QED
  BY <1>8, <1>12

\* Ends out of order.
LEMMA OutOfOrderKeeps ==
  ASSUME NEW st, NEW ids, NEW ph, NEW n, NEW jb, StateOK(st, {}, ph, n, jb)
  PROVE  /\ StateOK(finish_locked(st, ids, Verdict("failed", "out_of_order")), {}, ph, n, jb)
         /\ StateOK(finish_locked(st, ids, Verdict("failed", "read_or_persist")), {}, ph, n, jb)
<1>1. StateOK(st, ids, ph, n, jb)
  BY ExcuseKeeps
<1>2. PICK status \in Statuses : status = "failed"
  BY DEF Statuses
<1>3. PICK reason \in Reasons : reason = "out_of_order"
  BY DEF Reasons
<1>4. PICK other \in Reasons : other = "read_or_persist"
  BY DEF Reasons
<1>5. status # "complete"
  BY <1>2
<1>6. /\ StateOK(finish_locked(st, ids, Verdict(status, reason)), {}, ph, n, jb)
      /\ StateOK(finish_locked(st, ids, Verdict(status, other)), {}, ph, n, jb)
  BY <1>1, <1>5, FailedKeeps
<1>7. QED
  BY <1>2, <1>3, <1>4, <1>6, Zenon

\* mark_a_ready.
LEMMA MarkReadyKeepsLatencyInv ==
  ASSUME LatencyInv, mark_a_ready
  PROVE  LatencyInv'
<1>1. PICK st : st = expire_locked(state)
  OBVIOUS
<1>2. /\ StateOK(st, {}, phase, next_id, job) /\ StateOK([state EXCEPT !.completed = {}], {}, phase, next_id, job)
  BY <1>1, WatchNumbers
<1>3. UNCHANGED sessionCounters /\ ready' = TRUE /\ job' = job /\ next_id' = next_id /\ event' = event
      /\ job < MaxJobs
  BY DEF mark_a_ready
<1>4. WatchOK'
  BY <1>3 DEF LatencyInv, WatchOK
<1>5. StateOK(state', {}, phase, next_id, job)
  <2>1. CASE Contended
    BY <1>2, <2>1 DEF Contended
  <2>2. CASE state' = st
    BY <1>2, <2>2
  <2>3. CASE /\ event \in InFlight(st) /\ st.events[event].stage # "published"
             /\ state' = [st EXCEPT !.events[event].stage = "ready"]
    BY <1>2, <2>3, ReadyKeeps
  <2>4. CASE state' = finish_locked(st, {event}, Verdict("failed", "out_of_order"))
    BY <1>2, <2>4, OutOfOrderKeeps
  <2>5. QED
    BY <1>1, <2>1, <2>2, <2>3, <2>4 DEF mark_a_ready
<1>6. QED
  BY <1>3, <1>4, <1>5, WatchKeepsLatencyInv

\* A heartbeat job, a failed read, a round of the watch.
LEMMA RoundKeepsLatencyInv ==
  ASSUME LatencyInv, PublishUnmeasured \/ fail_event \/ expire
  PROVE  LatencyInv'
<1>1. /\ StateOK(expire_locked(state), {}, phase, next_id, job)
      /\ StateOK([state EXCEPT !.completed = {}], {}, phase, next_id, job)
      /\ next_id \in Nat /\ job \in Nat /\ MaxEvents \in Nat /\ MaxJobs \in Nat
  BY WatchNumbers, LatencyAssumption
<1>2. WatchOK
  BY DEF LatencyInv
<1>3. CASE PublishUnmeasured
  <2>1. /\ ready' = ready /\ ~ ready /\ job < MaxJobs /\ job' = job + 1 /\ Contended
        /\ UNCHANGED sessionCounters /\ next_id' = next_id /\ event' = event
    BY <1>3 DEF PublishUnmeasured
  <2>2. WatchOK'
    BY <1>1, <1>2, <2>1 DEF WatchOK, JobIds
  <2>3. StateOK(state', {}, phase, next_id, job)
    BY <1>1, <2>1 DEF Contended
  <2>4. StateOK(state', {}, phase, next_id, job + 1)
    BY <1>1, <2>3, StateLater
  <2>5. QED
    BY <2>1, <2>2, <2>4, WatchKeepsLatencyInv
<1>4. CASE fail_event
  <2>1. /\ event' = NoId /\ ready' = FALSE /\ UNCHANGED sessionCounters /\ next_id' = next_id /\ job' = job
    BY <1>4 DEF fail_event
  <2>2. NoId \in 0 .. MaxEvents
    BY <1>1 DEF NoId
  <2>3. WatchOK'
    BY <1>2, <2>1, <2>2 DEF WatchOK
  <2>4. StateOK(state', {}, phase, next_id, job)
    <3>1. CASE Contended
      BY <1>1, <3>1 DEF Contended
    <3>2. CASE state' = finish_locked([state EXCEPT !.completed = {}], {event},
                                      Verdict("failed", "read_or_persist"))
      BY <1>1, <3>2, OutOfOrderKeeps
    <3>3. QED
      BY <1>4, <3>1, <3>2 DEF fail_event
  <2>5. QED
    BY <2>1, <2>3, <2>4, WatchKeepsLatencyInv
<1>5. CASE expire
  <2>1. /\ UNCHANGED sessionCounters /\ next_id' = next_id /\ job' = job /\ ready' = ready /\ event' = event
        /\ state' = expire_locked(state)
    BY <1>5 DEF expire, watch
  <2>2. WatchOK' /\ StateOK(state', {}, phase, next_id', job')
    BY <1>1, <1>2, <2>1 DEF WatchOK
  <2>3. QED
    BY <2>1, <2>2, WatchKeepsLatencyInv
<1>6. QED
  BY <1>3, <1>4, <1>5

\* A ready event is published under a job nobody has used, in the index or not.
LEMMA PublishedKeeps ==
  ASSUME NEW st, NEW ph, NEW n \in Nat, NEW jb \in Nat, jb + 1 \in JobIds, StateOK(st, {}, ph, n, jb),
         NEW i \in InFlight(st), st.events[i].stage = "ready",
         NEW e \in EventRec, e.stage = "published", e.job = jb + 1, e.key = st.events[i].key,
         EventOK(e, ph),
         NEW u \in StateRec, u.events = [st.events EXCEPT ![i] = e], u.dedupe = st.dedupe,
         u.completed = st.completed,
         u.published = st.published \/ u.published = [st.published EXCEPT ![jb + 1] = i]
  PROVE  /\ StateOK(u, {i}, ph, n, jb + 1)
         /\ u.published[jb + 1] = i /\ e.pending # {} => StateOK(u, {}, ph, n, jb + 1)
<1>1. st \in StateRec /\ Indexed(st, {}) /\ Bounded(st, n, jb) /\ EventsOK(st, ph) /\ SummariesOK(st)
  BY DEF StateOK
<1>2. i \in Ids
  BY DEF InFlight
<1>3. /\ \A m \in Ids : u.events[m] = IF m = i THEN e ELSE st.events[m]
      /\ \A j \in JobIds : j # jb + 1 => u.published[j] = st.published[j]
      /\ u.published[jb + 1] = st.published[jb + 1] \/ u.published[jb + 1] = i
  BY <1>1, <1>2 DEF StateRec
<1>4. \A m \in Ids : st.events[m].stage = "published" =>
        st.events[m].job # jb + 1 /\ st.events[m].job \in JobIds
  <2>1. \A m \in Ids : st.events[m].job \in JobIds
    BY <1>1 DEF StateRec, EventRec
  <2>2. \A m \in Ids : st.events[m].job \in Nat
    BY <2>1, LatencyAssumption DEF JobIds
  <2>3. QED
    BY <1>1, <2>1, <2>2 DEF Bounded
<1>5. \A k \in JobIds : /\ st.dedupe[k] # NoId => st.dedupe[k] \in Ids
                        /\ st.published[k] # NoId => st.published[k] \in Ids
  BY <1>1 DEF StateRec
<1>6. st.published[jb + 1] = NoId
  BY <1>1, <1>4, <1>5 DEF Indexed
<1>7. \A m \in Ids : u.events[m].stage # "none" => u.dedupe[u.events[m].key] = m
  <2>1. SUFFICES ASSUME NEW m \in Ids, u.events[m].stage # "none" PROVE st.dedupe[u.events[m].key] = m
    OBVIOUS
  <2>2. u.events[m].key = st.events[m].key /\ st.events[m].stage # "none"
    BY <1>3, <2>1
  <2>3. QED
    BY <1>1, <2>2 DEF Indexed
<1>8. \A m, q \in Ids : /\ u.events[m].stage = "published" /\ u.events[q].stage = "published"
                        /\ u.events[m].job = u.events[q].job
                        => m = q
  <2>1. SUFFICES ASSUME NEW m \in Ids, NEW q \in Ids, u.events[m].stage = "published",
                        u.events[q].stage = "published", u.events[m].job = u.events[q].job
                 PROVE  m = q
    OBVIOUS
  <2>2. CASE m = i
    BY <1>3, <1>4, <2>1, <2>2
  <2>3. CASE q = i
    BY <1>3, <1>4, <2>1, <2>3
  <2>4. CASE m # i /\ q # i
    BY <1>1, <1>3, <2>1, <2>4 DEF Indexed
  <2>5. QED
    BY <2>2, <2>3, <2>4
<1>9. \A m \in Ids \ {i} : u.events[m].stage = "published" =>
        u.published[u.events[m].job] = m /\ u.events[m].pending # {}
  <2>1. SUFFICES ASSUME NEW m \in Ids \ {i}, u.events[m].stage = "published"
                 PROVE  u.published[u.events[m].job] = m /\ u.events[m].pending # {}
    OBVIOUS
  <2>2. u.events[m] = st.events[m] /\ st.events[m].stage = "published"
    BY <1>3, <2>1
  <2>3. st.published[st.events[m].job] = m /\ st.events[m].pending # {}
    BY <1>1, <2>2 DEF Indexed
  <2>4. u.published[st.events[m].job] = st.published[st.events[m].job]
    BY <1>3, <1>4, <2>2
  <2>5. QED
    BY <2>2, <2>3, <2>4
<1>10. \A k \in JobIds : u.dedupe[k] # NoId =>
         u.events[u.dedupe[k]].stage # "none" /\ u.events[u.dedupe[k]].key = k
  <2>1. SUFFICES ASSUME NEW k \in JobIds, u.dedupe[k] # NoId
                 PROVE  u.events[u.dedupe[k]].stage # "none" /\ u.events[u.dedupe[k]].key = k
    OBVIOUS
  <2>2. PICK m \in Ids : m = u.dedupe[k]
    BY <1>5, <2>1
  <2>3. st.events[m].stage # "none" /\ st.events[m].key = k
    BY <1>1, <2>1, <2>2 DEF Indexed
  <2>4. QED
    BY <1>3, <2>2, <2>3
<1>11. \A j \in JobIds : u.published[j] # NoId =>
         u.events[u.published[j]].stage = "published" /\ u.events[u.published[j]].job = j
  <2>1. SUFFICES ASSUME NEW j \in JobIds, u.published[j] # NoId
                 PROVE  u.events[u.published[j]].stage = "published" /\ u.events[u.published[j]].job = j
    OBVIOUS
  <2>2. CASE j = jb + 1
    <3>1. u.published[j] = i
      BY <1>3, <1>6, <2>1, <2>2
    <3>2. QED
      BY <1>2, <1>3, <2>2, <3>1
  <2>3. CASE j # jb + 1
    <3>1. u.published[j] = st.published[j]
      BY <1>3, <2>3
    <3>2. PICK m \in Ids : m = st.published[j]
      BY <1>5, <2>1, <3>1
    <3>3. st.events[m].stage = "published" /\ st.events[m].job = j
      BY <1>1, <2>1, <3>1, <3>2 DEF Indexed
    <3>4. u.events[m] = st.events[m]
      BY <1>3, <3>3
    <3>5. QED
      BY <3>1, <3>2, <3>3, <3>4
  <2>4. QED
    BY <2>2, <2>3
<1>12. Indexed(u, {i})
  BY <1>7, <1>8, <1>9, <1>10, <1>11 DEF Indexed
<1>13. Bounded(u, n, jb + 1)
  <2>1. \A m \in Ids : /\ st.events[m].stage # "none" => m <= n
                       /\ st.events[m].stage = "published" => st.events[m].job <= jb
    BY <1>1 DEF Bounded
  <2>2. \A m \in Ids : st.events[m].job \in Nat
    BY <1>1, LatencyAssumption DEF StateRec, EventRec, JobIds
  <2>3. \A m \in Ids : u.events[m].stage # "none" => m <= n
    BY <1>3, <2>1
  <2>4. \A m \in Ids : u.events[m].stage = "published" => u.events[m].job <= jb + 1
    BY <1>3, <2>1, <2>2
  <2>5. QED
    BY <2>3, <2>4 DEF Bounded
<1>14. EventsOK(u, ph) /\ SummariesOK(u)
  BY <1>1, <1>3 DEF EventsOK, SummariesOK
<1>15. StateOK(u, {i}, ph, n, jb + 1)
  BY <1>12, <1>13, <1>14 DEF StateOK
<1>16. ASSUME u.published[jb + 1] = i, e.pending # {} PROVE StateOK(u, {}, ph, n, jb + 1)
  <2>1. \A m \in Ids : u.events[m].stage = "published" =>
          u.published[u.events[m].job] = m /\ u.events[m].pending # {}
    BY <1>2, <1>3, <1>9, <1>16
  <2>2. Indexed(u, {})
    BY <1>7, <1>8, <1>10, <1>11, <2>1 DEF Indexed
  <2>3. QED
    BY <1>13, <1>14, <2>2 DEF StateOK
<1>17. QED
  BY <1>15, <1>16

\* A roster of the right size that holds nobody who left is everybody.
LEMMA RosterIsEverybody ==
  ASSUME CountersExact, ~ RosterIsWrong, untracked = 0
  PROVE  Present \subseteq roster \/ \E s \in roster : phase[s] \in {"leaving", "gone"}
<1>1. Present \in SUBSET Clients /\ roster \in SUBSET Clients
  BY DEF Present, CountersExact
<1>2. IsFiniteSet(Present) /\ Cardinality(Present) \in Nat /\ Cardinality(roster) \in Nat
  BY <1>1, ClientSets
<1>3. Cardinality(roster) = Cardinality(Present)
  BY <1>2 DEF RosterIsWrong, Expected, CountersExact
<1>4. SUFFICES ASSUME \A s \in roster : phase[s] \notin {"leaving", "gone"} PROVE Present \subseteq roster
  OBVIOUS
<1>5. roster \subseteq Present
  BY <1>4 DEF CountersExact, Present
<1>6. roster = Present
  BY <1>2, <1>3, <1>5, FS_Subset
<1>7. QED
  BY <1>6

\* mark_published of a ready event.
LEMMA PublishKeeps ==
  ASSUME LatencyInv, NEW st, StateOK(st, {}, phase, next_id, job), NEW i \in InFlight(st),
         st.events[i].stage = "ready", job < MaxJobs
  PROVE  StateOK(Publish(st, i), {}, phase, next_id, job + 1)
<1>1. CountersExact /\ next_id \in Nat /\ job \in Nat
  BY WatchNumbers DEF LatencyInv
<1>2. PICK jb \in Nat : jb = job
  BY <1>1
<1>3. job + 1 \in JobIds
  BY <1>1, LatencyAssumption DEF JobIds
<1>4. i \in Ids /\ st \in StateRec /\ st.events[i] \in EventRec /\ EventOK(st.events[i], phase)
  BY DEF InFlight, StateOK, StateRec, EventsOK
<1>5. PICK e0 \in EventRec : e0 = st.events[i]
  BY <1>4
<1>6. e0.success = {} /\ e0.failed \in Nat /\ e0.skipped \in Nat
  BY <1>4, <1>5 DEF EventOK, EventRec
<1>7. /\ Present \in SUBSET Clients /\ roster \in SUBSET Clients /\ Untracking \in SUBSET Clients
  BY <1>1 DEF CountersExact, Present, Untracking
<1>8. /\ Cardinality(Present) \in Nat /\ Cardinality(roster) \in Nat /\ Cardinality(Untracking) \in Nat
      /\ total \in Nat /\ untracked \in Nat
  BY <1>1, <1>7, ClientSets DEF CountersExact
<1>9. Cardinality({}) = 0
  BY FS_EmptySet
<1>10. PICK e \in EventRec : e = [e0 EXCEPT !.stage = "published", !.job = job + 1, !.target = total,
                                            !.audience = Present]
  BY <1>3, <1>7, <1>8 DEF EventRec
<1>11. /\ e.stage = "published" /\ e.job = job + 1 /\ e.target = total /\ e.audience = Present
       /\ e.key = e0.key /\ e.success = {} /\ e.failed \in Nat
  BY <1>5, <1>6, <1>10 DEF EventRec
<1>12. CASE RosterIsWrong
  <2>1. PICK w \in EventRec : w = [e EXCEPT !.skipped = total, !.gap = total]
    BY <1>8 DEF EventRec
  <2>2. /\ w.stage = "published" /\ w.job = job + 1 /\ w.target = total /\ w.key = e0.key
        /\ w.success = {} /\ w.failed \in Nat /\ w.skipped = total /\ w.gap = total
        /\ w.audience = Present /\ w.pending \in SUBSET Clients
    BY <1>11, <2>1 DEF EventRec
  <2>3. Cardinality(w.pending) \in Nat
    BY <2>2, ClientSets
  <2>4. Cardinality(w.success) + w.failed + w.skipped + Cardinality(w.pending) >= w.target
    BY <1>8, <1>9, <2>2, <2>3
  <2>5. w.gap = 0 => w.audience = {}
    <3>1. total = 0 => Present = {}
      BY <1>1, <1>7, ClientSets, FS_EmptySet DEF CountersExact
    <3>2. QED
      BY <2>2, <3>1
  <2>6. EventOK(w, phase)
    BY <2>2, <2>4, <2>5 DEF EventOK
  <2>7. PICK u : u = [st EXCEPT !.events[i] = w]
    OBVIOUS
  <2>8. /\ u \in StateRec /\ u.events = [st.events EXCEPT ![i] = w] /\ u.dedupe = st.dedupe
        /\ u.completed = st.completed /\ u.published = st.published
    BY <1>4, <2>7 DEF StateRec
  <2>9. StateOK(u, {i}, phase, next_id, jb + 1)
    <3>1. jb + 1 \in JobIds /\ w.job = jb + 1 /\ StateOK(st, {}, phase, next_id, jb)
      BY <1>2, <1>3, <2>2
    <3>2. QED
      BY <1>1, <1>5, <2>2, <2>6, <2>8, <3>1, PublishedKeeps
  <2>10. PICK status \in Statuses : status = "tracking_gap"
    BY DEF Statuses
  <2>11. PICK reason \in Reasons : reason = "session_roster"
    BY DEF Reasons
  <2>12. status # "complete"
    BY <2>10
  <2>13. StateOK(finish_locked(u, {i}, Verdict(status, reason)), {}, phase, next_id, jb + 1)
    BY <2>9, <2>12, FailedKeeps
  <2>14. Publish(st, i) = finish_locked(u, {i}, Verdict(status, reason))
    BY <1>5, <1>10, <1>12, <2>1, <2>7, <2>10, <2>11, Zenon DEF Publish
  <2>15. QED
    BY <1>2, <2>13, <2>14, Zenon
<1>13. CASE ~ RosterIsWrong
  <2>1. PICK w \in EventRec : w = [e EXCEPT !.pending = roster, !.skipped = untracked, !.gap = untracked]
    BY <1>7, <1>8 DEF EventRec
  <2>2. /\ w.stage = "published" /\ w.job = job + 1 /\ w.target = total /\ w.key = e0.key
        /\ w.success = {} /\ w.failed \in Nat /\ w.skipped = untracked /\ w.gap = untracked
        /\ w.audience = Present /\ w.pending = roster
    BY <1>11, <2>1 DEF EventRec
  <2>3. untracked + Cardinality(roster) >= total
    BY <1>8, <1>13 DEF RosterIsWrong, Expected
  <2>4. Cardinality(w.success) + w.failed + w.skipped + Cardinality(w.pending) >= w.target
    BY <1>8, <1>9, <2>2, <2>3
  <2>5. w.gap = 0 => Present \subseteq roster \/ \E s \in roster : phase[s] \in {"leaving", "gone"}
    BY <1>1, <1>13, <2>2, RosterIsEverybody
  <2>6. EventOK(w, phase)
    BY <2>2, <2>4, <2>5 DEF EventOK
  <2>7. PICK u : u = [st EXCEPT !.events[i] = w, !.published[job + 1] = i]
    OBVIOUS
  <2>8. /\ u \in StateRec /\ u.events = [st.events EXCEPT ![i] = w] /\ u.dedupe = st.dedupe
        /\ u.completed = st.completed /\ u.published = [st.published EXCEPT ![jb + 1] = i]
        /\ u.published[jb + 1] = i
    BY <1>2, <1>3, <1>4, <2>7 DEF StateRec
  <2>9. /\ StateOK(u, {i}, phase, next_id, jb + 1)
        /\ w.pending # {} => StateOK(u, {}, phase, next_id, jb + 1)
    <3>1. jb + 1 \in JobIds /\ w.job = jb + 1 /\ StateOK(st, {}, phase, next_id, jb)
      BY <1>2, <1>3, <2>2
    <3>2. QED
      BY <1>1, <1>5, <2>2, <2>6, <2>8, <3>1, PublishedKeeps, ZenonT(30)
  <2>10. CASE roster # {}
    <3>1. Publish(st, i) = u
      BY <1>5, <1>10, <1>13, <2>1, <2>7, <2>10, Zenon DEF Publish
    <3>2. QED
      BY <1>2, <2>2, <2>9, <2>10, <3>1
  <2>11. CASE roster = {} /\ total = 0
    <3>1. PICK verdict : verdict = Verdict("complete", "zero_sessions")
      OBVIOUS
    <3>2. Publish(st, i) = finish_locked(u, {i}, verdict)
      BY <1>5, <1>10, <1>13, <2>1, <2>7, <2>11, <3>1, Zenon DEF Publish
    <3>3. u.events[i] = w
      BY <1>4, <2>8 DEF StateRec
    <3>4. Present = {}
      BY <1>1, <1>7, <2>11, ClientSets, FS_EmptySet DEF CountersExact
    <3>5. \A m \in {i} \cap InFlight(u) :
            /\ verdict[m].status \in Statuses /\ verdict[m].reason \in Reasons
            /\ verdict[m].status = "complete" /\ verdict[m].reason \in {"all_notified", "zero_sessions"}
                 => u.events[m].audience \subseteq u.events[m].success
      <4>1. verdict[i].status = "complete" /\ verdict[i].reason = "zero_sessions"
        BY <1>4, <3>1 DEF Verdict
      <4>2. "complete" \in Statuses /\ "zero_sessions" \in Reasons
        BY DEF Statuses, Reasons
      <4>3. u.events[i].audience \subseteq u.events[i].success
        BY <2>2, <3>3, <3>4
      <4>4. QED
        BY <4>1, <4>2, <4>3
    <3>6. StateOK(finish_locked(u, {i}, verdict), {}, phase, next_id, jb + 1)
      BY <2>9, <3>5, FinishKeeps
    <3>7. QED
      BY <1>2, <3>2, <3>6, Zenon
  <2>12. CASE roster = {} /\ total # 0
    <3>1. PICK status \in Statuses : status = "tracking_gap"
      BY DEF Statuses
    <3>2. PICK reason \in Reasons : reason = "untracked_sessions"
      BY DEF Reasons
    <3>3. Publish(st, i) = finish_locked(u, {i}, Verdict(status, reason))
      BY <1>5, <1>10, <1>13, <2>1, <2>7, <2>12, <3>1, <3>2, Zenon DEF Publish
    <3>4. status # "complete"
      BY <3>1
    <3>5. StateOK(finish_locked(u, {i}, Verdict(status, reason)), {}, phase, next_id, jb + 1)
      BY <2>9, <3>4, FailedKeeps
    <3>6. QED
      BY <1>2, <3>3, <3>5, Zenon
  <2>13. QED
    BY <2>10, <2>11, <2>12
<1>14. QED
  BY <1>12, <1>13

\* mark_published.
LEMMA MarkPublishedKeepsLatencyInv ==
  ASSUME LatencyInv, mark_published
  PROVE  LatencyInv'
<1>1. PICK st : st = expire_locked(state)
  OBVIOUS
<1>2. /\ StateOK(st, {}, phase, next_id, job) /\ StateOK([state EXCEPT !.completed = {}], {}, phase, next_id, job)
      /\ next_id \in Nat /\ job \in Nat
  BY <1>1, WatchNumbers
<1>3. /\ UNCHANGED sessionCounters /\ ready /\ ready' = FALSE /\ event' = NoId /\ job' = job + 1
      /\ next_id' = next_id
  BY DEF mark_published
<1>4. job < MaxJobs /\ WatchOK
  BY <1>3 DEF LatencyInv, WatchOK
<1>5. WatchOK'
  <2>1. NoId \in 0 .. MaxEvents /\ job + 1 \in JobIds
    BY <1>2, <1>4, LatencyAssumption DEF NoId, JobIds
  <2>2. QED
    BY <1>3, <1>4, <2>1 DEF WatchOK
<1>6. \A u : StateOK(u, {}, phase, next_id, job) => StateOK(u, {}, phase, next_id, job + 1)
  BY <1>2, StateLater
<1>7. StateOK(state', {}, phase, next_id, job + 1)
  <2>1. CASE Contended
    BY <1>2, <1>6, <2>1 DEF Contended
  <2>2. CASE state' = st
    BY <1>2, <1>6, <2>2
  <2>3. CASE state' = finish_locked(st, {event}, Verdict("failed", "out_of_order"))
    <3>1. StateOK(finish_locked(st, {event}, Verdict("failed", "out_of_order")), {}, phase, next_id, job)
      BY <1>2, OutOfOrderKeeps
    <3>2. QED
      BY <1>6, <2>3, <3>1
  <2>4. CASE /\ event \in InFlight(st) /\ st.events[event].stage = "ready"
             /\ state' = Publish(st, event)
    BY <1>2, <1>4, <2>4, PublishKeeps
  <2>5. QED
    BY <1>1, <2>1, <2>2, <2>3, <2>4 DEF mark_published
<1>8. QED
  BY <1>3, <1>5, <1>7, WatchKeepsLatencyInv

\* The event of a job hears of a session; with the last one its fanout is over,
\* and it is complete to everyone only if everyone has been sent the job.
LEMMA HearingKeeps ==
  ASSUME NEW st, NEW ph, NEW n, NEW jb, StateOK(st, {}, ph, n, jb), NEW i \in Ids,
         st.events[i].stage = "published", NEW s \in st.events[i].pending,
         NEW outcome \in {"success", "failed", "skipped"}, ph[s] \in {"tracked", "untracked"},
         NEW heard, heard = [st EXCEPT !.events[i] = Heard(@, s, outcome)]
  PROVE  StateOK(IF heard.events[i].pending # {} THEN heard
                 ELSE finish_fanout_locked(heard, {i}, FanoutReason(heard.events[i])), {}, ph, n, jb)
<1>1. st \in StateRec /\ \A m \in Ids : st.events[m] \in EventRec /\ EventOK(st.events[m], ph)
  BY DEF StateOK, StateRec, EventsOK
<1>2. PICK e : e = st.events[i]
  OBVIOUS
<1>3. e \in EventRec /\ EventOK(e, ph) /\ e.stage = "published" /\ s \in e.pending
  BY <1>1, <1>2
<1>4. PICK h : h = Heard(e, s, outcome)
  OBVIOUS
<1>5. h \in EventRec /\ h.stage = e.stage /\ h.key = e.key /\ h.job = e.job /\ EventOK(h, ph)
  BY <1>3, <1>4, HeardIs
<1>6. heard = [st EXCEPT !.events[i] = h]
  BY <1>1, <1>2, <1>4 DEF StateRec
<1>7. /\ heard \in StateRec /\ heard.dedupe = st.dedupe /\ heard.published = st.published
      /\ heard.completed = st.completed /\ heard.events = [st.events EXCEPT ![i] = h]
  BY <1>1, <1>5, <1>6 DEF StateRec
<1>8. \A m \in Ids : heard.events[m] = IF m = i THEN h ELSE st.events[m]
  BY <1>1, <1>7 DEF StateRec
<1>9. \A m \in Ids : st.events[m].stage = "published" => st.events[m].pending # {}
  BY DEF StateOK, Indexed
<1>10. \A ids : (h.pending = {} => i \in ids) => StateOK(heard, ids, ph, n, jb)
  <2>1. SUFFICES ASSUME NEW ids, h.pending = {} => i \in ids PROVE StateOK(heard, ids, ph, n, jb)
    OBVIOUS
  <2>2. \A m \in Ids :
          /\ heard.events[m].stage = "none" <=> st.events[m].stage = "none"
          /\ heard.events[m].stage = "published" <=> st.events[m].stage = "published"
          /\ heard.events[m].key = st.events[m].key /\ heard.events[m].job = st.events[m].job
          /\ EventOK(heard.events[m], ph)
          /\ m \notin ids /\ heard.events[m].stage = "published" => heard.events[m].pending # {}
    <3>1. SUFFICES ASSUME NEW m \in Ids
          PROVE  /\ heard.events[m].stage = "none" <=> st.events[m].stage = "none"
                 /\ heard.events[m].stage = "published" <=> st.events[m].stage = "published"
                 /\ heard.events[m].key = st.events[m].key /\ heard.events[m].job = st.events[m].job
                 /\ EventOK(heard.events[m], ph)
                 /\ m \notin ids /\ heard.events[m].stage = "published" => heard.events[m].pending # {}
      OBVIOUS
    <3>2. CASE m = i
      <4>1. heard.events[m] = h /\ st.events[m] = e
        BY <1>2, <1>8, <3>2
      <4>2. m \notin ids => h.pending # {}
        BY <2>1, <3>2
      <4>3. QED
        BY <1>5, <4>1, <4>2
    <3>3. CASE m # i
      <4>1. heard.events[m] = st.events[m]
        BY <1>8, <3>3
      <4>2. EventOK(st.events[m], ph)
        BY <1>1
      <4>3. QED
        BY <1>9, <4>1, <4>2
    <3>4. QED
      BY <3>2, <3>3
  <2>3. heard.completed \subseteq st.completed
    BY <1>7
  <2>4. QED
    <3>1. heard \in StateRec /\ heard.dedupe = st.dedupe /\ heard.published = st.published
      BY <1>7
    <3>2. QED
      BY <2>2, <2>3, <3>1, EventsChange, ZenonT(30)
<1>11. heard.events[i] = h
  BY <1>8
<1>12. CASE h.pending # {}
  <2>1. StateOK(heard, {}, ph, n, jb)
    BY <1>10, <1>12
  <2>2. QED
    BY <1>11, <1>12, <2>1
<1>13. CASE h.pending = {}
  <2>1. StateOK(heard, {i}, ph, n, jb)
    BY <1>10
  <2>2. h.failed \in Nat /\ h.skipped \in Nat /\ h.gap \in Nat
    BY <1>5 DEF EventRec
  <2>3. PICK reason \in Reasons :
          /\ reason = FanoutReason(h)
          /\ reason # "zero_sessions"
          /\ reason = "all_notified" => h.failed = 0 /\ h.skipped = 0
    BY <2>2 DEF FanoutReason, Reasons
  <2>4. ASSUME reason = "all_notified", h.gap = 0 PROVE h.audience \subseteq h.success
    <3>1. \/ h.audience \subseteq h.success \cup h.pending
          \/ \E x \in h.pending : ph[x] \in {"leaving", "gone"}
      BY <1>5, <2>3, <2>4 DEF EventOK
    <3>2. QED
      BY <1>13, <3>1
  <2>5. \A m \in {i} \cap InFlight(heard) :
          reason \in {"all_notified", "zero_sessions"} /\ heard.events[m].gap = 0
            => heard.events[m].audience \subseteq heard.events[m].success
    BY <1>11, <2>3, <2>4
  <2>6. StateOK(finish_fanout_locked(heard, {i}, reason), {}, ph, n, jb)
    BY <2>1, <2>5, FanoutKeeps
  <2>7. QED
    BY <1>11, <1>13, <2>3, <2>6, Zenon
<1>14. QED
  BY <1>12, <1>13

\* record_fanout, for whichever job the session took.
LEMMA RecordFanoutKeepsLatencyInv ==
  ASSUME LatencyInv, HeldOK, NEW s \in Clients, NEW outcome \in {"success", "failed", "skipped"},
         record_fanout(s, outcome)
  PROVE  LatencyInv'
<1>1. PICK st : st = expire_locked(state)
  OBVIOUS
<1>2. StateOK(st, {}, phase, next_id, job) /\ job \in JobIds
  BY <1>1, WatchNumbers
<1>3. PICK i : i = st.published[held[s]] /\ held[s] \in JobIds
  BY DEF HeldOK
<1>4. PICK others : others = Ids \ {i}
  OBVIOUS
<1>5. PICK after : after = finish_fanout_locked(Dropped(st, others, s), Emptied(st, others, s), "superseded")
  OBVIOUS
<1>6. PICK heard : heard = [after EXCEPT !.events[i] = Heard(@, s, outcome)]
  OBVIOUS
<1>7. others \in SUBSET Ids
  BY <1>4
<1>8. /\ StateOK(Dropped(st, others, s), Emptied(st, others, s), phase, next_id, job)
      /\ \A m \in Ids \ others : Dropped(st, others, s).events[m] = st.events[m]
  BY <1>2, <1>7, DropKeeps
<1>9. StateOK(after, {}, phase, next_id, job)
  <2>1. PICK reason \in Reasons : reason = "superseded"
    BY DEF Reasons
  <2>2. reason \notin {"all_notified", "zero_sessions"}
    BY <2>1
  <2>3. StateOK(finish_fanout_locked(Dropped(st, others, s), Emptied(st, others, s), reason), {}, phase,
                next_id, job)
    BY <1>8, <2>2, FanoutKeeps
  <2>4. QED
    BY <1>5, <2>1, <2>3, Zenon
<1>10. ASSUME i # NoId PROVE i \in Ids /\ after.events[i].stage = "published"
  <2>1. i \in Ids
    BY <1>2, <1>3, <1>10 DEF StateOK, StateRec
  <2>2. st.events[i].stage = "published"
    BY <1>2, <1>3, <1>10 DEF StateOK, Indexed
  <2>3. Dropped(st, others, s) \in StateRec
    BY <1>8 DEF StateOK
  <2>4. i \notin Emptied(st, others, s)
    BY <1>4 DEF Emptied
  <2>5. after.events[i] = Dropped(st, others, s).events[i]
    BY <1>5, <2>1, <2>3, <2>4, FinishIs DEF finish_fanout_locked
  <2>6. QED
    BY <1>4, <1>8, <2>1, <2>2, <2>5
<1>11. phase[s] \in {"tracked", "untracked"} /\ UNCHANGED sessionCounters /\ UNCHANGED watch
  BY DEF record_fanout
<1>12. StateOK(state', {}, phase, next_id, job)
  <2>1. CASE Contended
    BY <2>1, ClearedKeeps DEF LatencyInv, Contended
  <2>2. CASE state' = st
    BY <1>2, <2>2
  <2>3. CASE state' = after
    BY <1>9, <2>3
  <2>4. CASE /\ i # NoId /\ s \in after.events[i].pending
             /\ state' = IF heard.events[i].pending # {} THEN heard
                         ELSE finish_fanout_locked(heard, {i}, FanoutReason(heard.events[i]))
    <3>1. i \in Ids /\ after.events[i].stage = "published"
      BY <1>10, <2>4
    <3>2. StateOK(IF heard.events[i].pending # {} THEN heard
                  ELSE finish_fanout_locked(heard, {i}, FanoutReason(heard.events[i])), {}, phase,
                  next_id, job)
      BY <1>6, <1>9, <1>11, <2>4, <3>1, HearingKeeps, ZenonT(30)
    <3>3. QED
      BY <2>4, <3>2, Zenon
  <2>5. QED
    BY <1>1, <1>3, <1>4, <1>5, <1>6, <2>1, <2>2, <2>3, <2>4, Zenon DEF record_fanout
<1>13. next_id' = next_id /\ event' = event /\ ready' = ready /\ job' = job
  BY <1>11 DEF watch
<1>14. WatchOK'
  BY <1>13 DEF LatencyInv, WatchOK
<1>15. QED
  BY <1>11, <1>12, <1>13, <1>14, WatchKeepsLatencyInv

\* One step per action.
LEMMA LatencyStep ==
  LatencyInv /\ HeldOK /\ [LatencyNext]_latencyVars => LatencyInv'
<1> SUFFICES ASSUME LatencyInv, HeldOK, [LatencyNext]_latencyVars PROVE LatencyInv'
  OBVIOUS
<1>1. CASE observe_upstream
  BY <1>1, ObserveKeepsLatencyInv
<1>2. CASE mark_a_ready
  BY <1>2, MarkReadyKeepsLatencyInv
<1>3. CASE mark_published
  BY <1>3, MarkPublishedKeepsLatencyInv
<1>4. CASE PublishUnmeasured \/ fail_event \/ expire
  BY <1>4, RoundKeepsLatencyInv
<1>5. ASSUME NEW i \in Ids, EventAges(i) PROVE LatencyInv'
  BY <1>5, AgeKeepsLatencyInv
<1>6. ASSUME NEW s \in Clients, authorize(s) \/ Enrol(s) \/ count_untracked_session(s)
      PROVE  LatencyInv'
  <2>1. CountersExact' /\ Left(phase) \subseteq Left(phase')
    BY <1>6, ComingKeepsCounters DEF LatencyInv
  <2>2. Contended /\ UNCHANGED watch
    BY <1>6 DEF authorize, Enrol, count_untracked_session
  <2>3. QED
    BY <2>1, <2>2, QuietKeepsLatencyInv
<1>7. ASSUME NEW s \in Clients, Leave(s) \/ ForgetUntracked(s)
      PROVE  LatencyInv'
  <2>1. CountersExact' /\ Left(phase) \subseteq Left(phase')
    BY <1>7, GoingKeepsCounters DEF LatencyInv
  <2>2. Contended /\ UNCHANGED watch
    BY <1>7 DEF Leave, ForgetUntracked
  <2>3. QED
    BY <2>1, <2>2, QuietKeepsLatencyInv
<1>8. ASSUME NEW s \in Clients, TakeOff(s) PROVE LatencyInv'
  BY <1>8, TakeOffKeepsLatencyInv
<1>9. ASSUME NEW s \in Clients, NEW outcome \in {"success", "failed", "skipped"},
             record_fanout(s, outcome)
      PROVE  LatencyInv'
  BY <1>9, RecordFanoutKeepsLatencyInv
<1>10. ASSUME NEW s \in Clients, TakeJob(s) PROVE LatencyInv'
  <2>1. UNCHANGED sessionCounters /\ UNCHANGED watch /\ Contended
    BY <1>10 DEF TakeJob
  <2>2. CountersExact' /\ phase' = phase
    BY <2>1, SameCounters DEF LatencyInv
  <2>3. QED
    BY <2>1, <2>2, QuietKeepsLatencyInv
<1>11. CASE UNCHANGED latencyVars
  <2>1. UNCHANGED sessionCounters /\ state' = state
        /\ next_id' = next_id /\ event' = event /\ ready' = ready /\ job' = job
    BY <1>11 DEF latencyVars, sessionCounters
  <2>2. WatchOK'
    BY <2>1 DEF LatencyInv, WatchOK
  <2>3. StateOK(state', {}, phase, next_id', job')
    BY <2>1 DEF LatencyInv
  <2>4. QED
    BY <2>1, <2>2, <2>3, WatchKeepsLatencyInv
<1>12. QED
  BY <1>1, <1>2, <1>3, <1>4, <1>5, <1>6, <1>7, <1>8, <1>9, <1>10, <1>11, Zenon DEF LatencyNext

\* The jobs that are being sent.
LEMMA HeldStep ==
  LatencyInv /\ HeldOK /\ [LatencyNext]_latencyVars => HeldOK'
<1> SUFFICES ASSUME LatencyInv, HeldOK, [LatencyNext]_latencyVars PROVE HeldOK'
  OBVIOUS
<1>1. CASE held' = held
  BY <1>1 DEF HeldOK
<1>2. ASSUME NEW s \in Clients, TakeJob(s) PROVE HeldOK'
  <2>1. job \in JobIds
    BY WatchNumbers
  <2>2. held' = [held EXCEPT ![s] = job]
    BY <1>2 DEF TakeJob
  <2>3. QED
    BY <2>1, <2>2 DEF HeldOK
<1>3. ASSUME NEW s \in Clients, NEW outcome \in {"success", "failed", "skipped"},
             record_fanout(s, outcome)
      PROVE  HeldOK'
  <2>1. held' = [held EXCEPT ![s] = NoJob]
    BY <1>3 DEF record_fanout
  <2>2. NoJob \in JobIds
    BY LatencyAssumption DEF NoJob, JobIds
  <2>3. QED
    BY <2>1, <2>2 DEF HeldOK
<1>4. CASE observe_upstream \/ mark_a_ready \/ mark_published \/ PublishUnmeasured \/ fail_event \/ expire
  <2>1. held' = held
    BY <1>4 DEF observe_upstream, mark_a_ready, mark_published, PublishUnmeasured, fail_event, expire
  <2>2. QED
    BY <1>1, <2>1
<1>5. ASSUME NEW i \in Ids, EventAges(i) PROVE HeldOK'
  BY <1>1, <1>5 DEF EventAges
<1>6. ASSUME NEW s \in Clients,
             \/ authorize(s) \/ Enrol(s) \/ count_untracked_session(s)
             \/ Leave(s) \/ TakeOff(s) \/ ForgetUntracked(s)
      PROVE  HeldOK'
  <2>1. held' = held
    BY <1>6 DEF authorize, Enrol, count_untracked_session, Leave, TakeOff, ForgetUntracked
  <2>2. QED
    BY <1>1, <2>1
<1>7. CASE UNCHANGED latencyVars
  BY <1>1, <1>7 DEF latencyVars
<1>8. QED
  BY <1>2, <1>3, <1>4, <1>5, <1>6, <1>7, Zenon DEF LatencyNext

\* What the invariant says of the summaries and of the indices.
LEMMA LatencyInvIsEnough ==
  LatencyInv => CompleteMeansEveryone
<1> SUFFICES ASSUME LatencyInv PROVE CompleteMeansEveryone
  OBVIOUS
<1>1. state \in StateRec /\ Indexed(state, {}) /\ SummariesOK(state)
  BY DEF LatencyInv, StateOK
<1>2. EveryoneReached
  BY <1>1 DEF EveryoneReached, SummariesOK, SummaryOK
<1>3. /\ \A k \in JobIds : state.dedupe[k] # NoId => state.dedupe[k] \in Ids
      /\ \A j \in JobIds : state.published[j] # NoId => state.published[j] \in Ids
  BY <1>1 DEF StateRec
<1>4. \A i \in InFlight(state) :
        /\ state.dedupe[state.events[i].key] = i
        /\ state.events[i].stage = "published" =>
             state.published[state.events[i].job] = i /\ state.events[i].pending # {}
  BY <1>1 DEF Indexed, InFlight
<1>5. \A k \in JobIds : state.dedupe[k] # NoId => state.dedupe[k] \in InFlight(state)
  BY <1>1, <1>3 DEF Indexed, InFlight
<1>6. \A j \in JobIds : state.published[j] # NoId => state.published[j] \in InFlight(state)
  BY <1>1, <1>3 DEF Indexed, InFlight
<1>7. \A r \in state.completed : r.sum >= r.target
  BY <1>1 DEF SummariesOK, SummaryOK
<1>8. QED
  BY <1>2, <1>4, <1>5, <1>6, <1>7 DEF CompleteMeansEveryone, EventsAccounted

\* record_fanout and finish_locked: whatever order sessions come, go and answer in,
\* whichever calls find the lock taken, and however old the job is a session has sent, a fanout reported as complete to everyone has
\* reached every session that was authorized when its job was published, and the two
\* indices name exactly the events in flight.
THEOREM FanoutsAreComplete ==
  LatencySpec => []CompleteMeansEveryone
<1>1. LatencyInit => LatencyInv /\ HeldOK
  BY LatencyStarts, LatencyAssumption DEF LatencyInit, HeldOK, NoJob, JobIds
<1>2. LatencyInv /\ HeldOK /\ [LatencyNext]_latencyVars => LatencyInv' /\ HeldOK'
  BY LatencyStep, HeldStep
<1>3. LatencyInv => CompleteMeansEveryone
  BY LatencyInvIsEnough
<1>4. QED
  BY <1>1, <1>2, <1>3, PTL DEF LatencySpec

-----------------------------------------------------------------------------
(***************************************************************************)
(* The start of the bridge.                                                *)
(***************************************************************************)

\* The secondary node is the one the variable names or one of the file.
LEMMA SecondaryIsListed ==
  ASSUME NEW e, DOMAIN e.config \subseteq Nat, NEW primary,
         secondary_submit_node_url_from_env(e, primary) # BadUrl
  PROVE  \/ secondary_submit_node_url_from_env(e, primary) = e.secondary_url
         \/ \E i \in DOMAIN e.config : secondary_submit_node_url_from_env(e, primary) = e.config[i].url
<1> DEFINE fit == {i \in DOMAIN e.config : /\ "submit" \in e.config[i].roles
                                           /\ normalized_node_url(e.config[i].url) # normalized_node_url(primary)}
<1>1. CASE Given(e.secondary_url)
  BY <1>1 DEF secondary_submit_node_url_from_env
<1>2. CASE ~ Given(e.secondary_url)
  <2>1. /\ secondary_submit_node_url_from_env(e, primary) = e.config[Min(fit)].url
        /\ fit # {}
    BY <1>2 DEF secondary_submit_node_url_from_env, FirstNode
  <2> HIDE DEF fit
  <2>2. fit \subseteq Nat /\ fit \subseteq DOMAIN e.config
    BY DEF fit
  <2>3. Min(fit) \in fit
    BY <2>1, <2>2, SmallestNat DEF Min
  <2>4. QED
    BY <2>1, <2>2, <2>3
<1>3. QED
  BY <1>1, <1>2

\* A live bridge that starts has templates, a database and a node to submit to.
LEMMA LiveStarts ==
  ASSUME NEW e, run_stratum_server(e).started
  PROVE  /\ run_stratum_server(e).repository = repository_from_env(e)
         /\ IsLive(e.mode) <=> run_stratum_server(e).provider \in {"live", "stateless"}
         /\ IsLive(e.mode) => /\ run_stratum_server(e).repository # Unset
                              /\ e.submit
         /\ run_stratum_server(e).provider \in {"live", "stateless"} /\ e.parallel
              => run_stratum_server(e).provider = "stateless"
<1>1. /\ template_provider_from_env(e) # Bad /\ tip_sentinel_from_env(e) # BadSentinel
      /\ block_submitter_from_env(e) # BadSubmitter /\ mining_repository_from_env(e) # Bad
      /\ limits_from_env(e) # Bad
      /\ run_stratum_server(e).repository = mining_repository_from_env(e)
      /\ run_stratum_server(e).provider = template_provider_from_env(e)
  BY DEF run_stratum_server
<1>2. e.config # Broken
  BY <1>1 DEF limits_from_env
<1>3. mining_repository_from_env(e) = repository_from_env(e)
  BY <1>2 DEF mining_repository_from_env, repository_from_env
<1>4. IsLive(e.mode) <=> template_provider_from_env(e) \in {"live", "stateless"}
  BY <1>1 DEF template_provider_from_env, IsLive, Bad, Unset
<1>5. ASSUME IsLive(e.mode) PROVE mining_repository_from_env(e) # Unset /\ e.submit
  <2>1. IsLiveTrimmed(e.mode)
    BY <1>5 DEF IsLive, IsLiveTrimmed
  <2>2. persistent_database_required(e)
    BY <2>1 DEF persistent_database_required
  <2>3. mining_repository_from_env(e) # Unset
    BY <1>1, <2>2 DEF mining_repository_from_env, require_persistent_database
  <2>4. require_candidate_submission(e)
    BY <1>1 DEF block_submitter_from_env
  <2>5. e.submit
    BY <2>1, <2>4 DEF require_candidate_submission
  <2>6. QED
    BY <2>3, <2>5
<1>6. template_provider_from_env(e) \in {"live", "stateless"} /\ e.parallel
        => template_provider_from_env(e) = "stateless"
  BY <1>1 DEF template_provider_from_env, Bad
<1>7. QED
  BY <1>1, <1>3, <1>4, <1>5, <1>6

\* A control that is not refused has a path that survives a restart.
LEMMA ControlIsKept ==
  ASSUME NEW e, e.latch \in Paths, e.state_dir \in Paths,
         secondary_candidate_control_from_env(e) # BadControl
  PROVE  secondary_candidate_control_from_env(e).path = "good"
<1> DEFINE latch == UsableLatch(persistent_candidate_latch_path_from_env(e))
           journal == validate_persistent_candidate_directory(persistent_candidate_state_dir_from_env(e))
           c == secondary_candidate_control_from_env(e)
<1>1. latch # Bad => latch = "good"
  BY DEF UsableLatch, persistent_candidate_latch_path_from_env, Paths, Bad, Unset
<1>2. journal # Bad => journal = "good"
  BY DEF validate_persistent_candidate_directory, persistent_candidate_state_dir_from_env, Paths, Bad, Unset
<1>3. \/ latch # Bad /\ c = [mode |-> "one_shot", path |-> latch]
      \/ journal # Bad /\ c = [mode |-> "continuous_bounded", path |-> journal]
  BY DEF secondary_candidate_control_from_env
<1> HIDE DEF latch, journal, c
<1>4. c.path = "good"
  BY <1>1, <1>2, <1>3
<1>5. QED
  BY <1>4 DEF c

\* Who takes the candidates of a bridge that starts.
LEMMA SubmitterIsSafe ==
  ASSUME NEW e, e.latch \in Paths, e.state_dir \in Paths, block_submitter_from_env(e) # BadSubmitter
  PROVE  /\ IsLive(e.mode) /\ e.submit
              => block_submitter_from_env(e).primary.host = live_template_config(e).host
         /\ block_submitter_from_env(e).secondary # NoUrl
              => /\ e.parallel
                 /\ block_submitter_from_env(e).secondary.host # block_submitter_from_env(e).primary.host
                 /\ block_submitter_from_env(e).control.path = "good"
<1> DEFINE primary == submit_node_url_from_env(e)
           secondary == secondary_submit_node_url_from_env(e, primary)
           control == secondary_candidate_control_from_env(e)
           b == block_submitter_from_env(e)
<1>1. CASE ~ e.submit
  <2>1. b = NoSubmitter
    BY <1>1 DEF block_submitter_from_env
  <2>2. b.secondary = NoUrl
    BY <2>1 DEF NoSubmitter
  <2>3. QED
    BY <1>1, <2>2
<1>2. CASE e.submit
  <2>1. IsLive(e.mode) => primary.host = live_template_config(e).host
    BY <1>2 DEF block_submitter_from_env, require_template_submit_affinity, normalized_node_url
  <2>2. CASE ~ e.parallel
    <3>1. b = [NoSubmitter EXCEPT !.primary = primary]
      BY <1>2, <2>2 DEF block_submitter_from_env
    <3> HIDE DEF b, primary
    <3>2. b.primary = primary /\ b.secondary = NoUrl
      BY <3>1 DEF NoSubmitter
    <3>3. QED
      BY <2>1, <3>2 DEF b
  <2>3. CASE e.parallel
    <3>1. /\ b = [primary |-> primary, secondary |-> secondary, control |-> control]
          /\ normalized_node_url(primary) # normalized_node_url(secondary) /\ control # BadControl
      BY <1>2, <2>3 DEF block_submitter_from_env
    <3>2. control.path = "good"
      BY <3>1, ControlIsKept
    <3> HIDE DEF b, primary, secondary, control
    <3>3. b.primary = primary /\ b.secondary = secondary /\ b.control = control
      BY <3>1
    <3>4. secondary.host # primary.host
      BY <3>1 DEF normalized_node_url
    <3>5. QED
      BY <2>1, <2>3, <3>2, <3>3, <3>4 DEF b
  <2>4. QED
    BY <2>2, <2>3
<1>3. QED
  BY <1>1, <1>2

\* Who watches the tip.
LEMMA SentinelIsSafe ==
  ASSUME NEW e, DOMAIN e.config \subseteq Nat, tip_sentinel_from_env(e) # BadSentinel,
         tip_sentinel_from_env(e) # NoSentinel
  PROVE  /\ IsLive(e.mode)
         /\ tip_sentinel_from_env(e).url.host # live_template_config(e).host
         /\ tip_sentinel_from_env(e).token = "node" =>
              \/ tip_sentinel_from_env(e).url = e.secondary_url
              \/ \E i \in DOMAIN e.config : tip_sentinel_from_env(e).url = e.config[i].url
<1> DEFINE primary == live_template_config(e)
           url == select_tip_sentinel_node_url(e, primary)
           token == select_tip_sentinel_node_token(e)
           ca == load_tip_sentinel_ca_pem(e, url)
           s == tip_sentinel_from_env(e)
<1>1. /\ s = [url |-> url, token |-> token, ca |-> ca] /\ IsLive(e.mode) /\ url # BadUrl
      /\ normalized_node_url(url) # normalized_node_url(primary)
  BY DEF tip_sentinel_from_env
<1>2. token = "node" => ~ Independent(e)
  BY DEF select_tip_sentinel_node_token, Bad
<1>3. ~ Independent(e) => url = secondary_submit_node_url_from_env(e, primary)
  BY DEF select_tip_sentinel_node_url
<1>4. token = "node" => url = e.secondary_url \/ \E i \in DOMAIN e.config : url = e.config[i].url
  BY <1>1, <1>2, <1>3, SecondaryIsListed
<1> HIDE DEF url, token, ca, s, primary
<1>5. s.url = url /\ s.token = token
  BY <1>1
<1>6. url.host # primary.host
  BY <1>1 DEF normalized_node_url
<1>7. QED
  BY <1>1, <1>4, <1>5, <1>6 DEF s, primary

\* run_stratum_server: whatever the environment says and whatever nodes the file lists
\* (a list has numbered entries, and every path is of one of the four kinds), a bridge
\* that starts has what it needs and sends nothing where it does not belong.
THEOREM StartsAreSafe ==
  ASSUME DOMAIN environment.config \subseteq Nat, environment.latch \in Paths,
         environment.state_dir \in Paths
  PROVE  StartIsSafe
<1>1. PICK e : e = environment
  OBVIOUS
<1>2. PICK b : b = run_stratum_server(e)
  OBVIOUS
<1>3. SUFFICES ASSUME b.started PROVE SafeStart(e, b, live_template_config(e))
  BY <1>1, <1>2 DEF StartIsSafe, SafeStart
<1>4. /\ b.submitter = block_submitter_from_env(e) /\ b.sentinel = tip_sentinel_from_env(e)
      /\ b.submitter # BadSubmitter /\ b.sentinel # BadSentinel
  BY <1>2, <1>3 DEF run_stratum_server
<1>5. /\ b.repository = repository_from_env(e)
      /\ IsLive(e.mode) <=> b.provider \in {"live", "stateless"}
      /\ IsLive(e.mode) => b.repository # Unset /\ e.submit
      /\ b.provider \in {"live", "stateless"} /\ e.parallel => b.provider = "stateless"
  BY <1>2, <1>3, LiveStarts
<1>6. /\ IsLive(e.mode) /\ e.submit => b.submitter.primary.host = live_template_config(e).host
      /\ b.submitter.secondary # NoUrl
           => /\ e.parallel /\ b.submitter.secondary.host # b.submitter.primary.host
              /\ b.submitter.control.path = "good"
  BY <1>1, <1>4, SubmitterIsSafe
<1>7. b.sentinel # NoSentinel =>
        /\ IsLive(e.mode) /\ b.sentinel.url.host # live_template_config(e).host
        /\ b.sentinel.token = "node" =>
             \/ b.sentinel.url = e.secondary_url
             \/ \E i \in DOMAIN e.config : b.sentinel.url = e.config[i].url
  BY <1>1, <1>4, SentinelIsSafe
<1>8. QED
  BY <1>5, <1>6, <1>7 DEF SafeStart
=============================================================================
