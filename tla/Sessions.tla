------------------------------ MODULE Sessions ------------------------------
(***************************************************************************)
(* Connections of one IP address to the Stratum bridge: admission, bans,   *)
(* the sessions allowed per payout address, the rows of sessions and       *)
(* shares, and duplicate shares (crates/csd-pool-bridge/src/lib.rs,        *)
(* csd-pool-state and csd-pool-db).  Jobs and stale shares are in module   *)
(* Jobs, candidates in module Candidates, difficulties in module Vardiff.  *)
(*                                                                         *)
(* Every connection is a task.  It gives up control when it waits for a    *)
(* frame, for the socket or for the database, and a database call that     *)
(* fails may or may not have been carried out.                             *)
(***************************************************************************)
EXTENDS Naturals, FiniteSets

CONSTANTS
  Conns,           \* places for connections, numbered from 1
  Addresses,       \* payout addresses
  Works,           \* (job, extranonce2, ntime, nonce) a miner may submit
  MaxPerIp,        \* max_connections_per_ip
  MaxPerAddress,   \* max_sessions_per_address
  OffenseLimit,    \* the limit of each kind of offense
  MaxSessions,     \* bound: connections accepted
  MaxRestarts      \* bound: restarts of the bridge

NoAddress == "none"
OffenseKind == {"malformed_frame", "auth_failure", "invalid_share"}

\* What the proofs need: finitely many places, limits that are numbers, and no
\* payout address that is taken for none.
SessionsAssumption ==
  /\ IsFiniteSet(Conns)
  /\ NoAddress \notin Addresses
  /\ MaxPerIp \in Nat /\ MaxPerAddress \in Nat
  /\ OffenseLimit \in [OffenseKind -> Nat]

VARIABLES
  pc,        \* where each task is; "none" when there is no connection
  session,   \* session_uuid: the number of the connection
  address,   \* authorized_worker, with _address_permit
  wanted,    \* the address whose permit is taken while the row is written
  persisted, \* session_persisted
  seen,      \* seen_shares
  work,      \* the share in hand
  accepted,  \* connections accepted so far
  base,      \* connections accepted before the last start
  active,    \* IpAbuseState.active_connections
  offenses,  \* malformed_frames, auth_failures, invalid_shares
  ban,       \* banned_until: "none", "running" or "passed"
  holders,   \* address_sessions
  open,      \* stratum_connections
  rows,      \* rows of sessions whose ended_at is null
  excused,   \* history: sessions for which a database call failed
  shares,    \* rows of shares: (address, work)
  counted,   \* history: shares counted since the last start
  during,    \* history: requests begun by each connection during this ban
  restarts

sessionVars == <<pc, session, address, wanted, persisted, seen, work, accepted, base, active,
                 offenses, ban, holders, open, rows, excused, shares, counted, during, restarts>>
connVars == <<session, address, wanted, persisted, seen, work>>
abuseVars == <<active, offenses, ban>>
dbVars == <<rows, excused, shares, counted>>
rest == <<accepted, base, holders, open, restarts>>

Live(c) == pc[c] # "none"

\* The little-endian bytes of the session number, which starts at 1 with the process.
extranonce1(c) == session[c] - base

-----------------------------------------------------------------------------
(* AbuseManager *)

NoOffenses == [k \in OffenseKind |-> 0]

\* expire_ban_if_needed: the counters are forgotten only here.
Expired == IF ban = "passed" THEN NoOffenses ELSE offenses
ExpiredBan == IF ban = "passed" THEN "none" ELSE ban

\* Counters are compared with >= only, so they need not pass the limit.
record_offense(kind) ==
  /\ offenses' = [Expired EXCEPT ![kind] = IF @ < OffenseLimit[kind] THEN @ + 1 ELSE @]
  /\ ban' = IF \E k \in OffenseKind : offenses'[k] >= OffenseLimit[k] THEN "running" ELSE ExpiredBan
  /\ UNCHANGED active

should_ban == \E k \in OffenseKind : offenses'[k] >= OffenseLimit[k]

BanPasses ==
  /\ ban = "running"
  /\ ban' = "passed"
  /\ during' = [c \in Conns |-> 0]
  /\ UNCHANGED <<pc, connVars, active, offenses, dbVars, rest>>

-----------------------------------------------------------------------------
(* The accept loop *)

\* try_open, then handle_client up to its loop, in the first free place.  A refused
\* connection is dropped.
Accept(c) ==
  /\ pc[c] = "none" /\ \A d \in Conns : d < c => Live(d)
  /\ offenses' = Expired
  /\ ban' = ExpiredBan
  /\ IF ban' = "running" \/ active >= MaxPerIp
     THEN UNCHANGED <<pc, session, accepted, active, open>>
     ELSE /\ accepted < MaxSessions
          /\ pc' = [pc EXCEPT ![c] = "reading"]
          /\ accepted' = accepted + 1
          /\ session' = [session EXCEPT ![c] = accepted']
          /\ active' = active + 1
          /\ open' = open + 1
  /\ UNCHANGED <<address, wanted, persisted, seen, work, base, holders, dbVars, during, restarts>>

Goto(c, label) == pc' = [pc EXCEPT ![c] = label]

\* A frame is read.
Begin(c) ==
  /\ pc[c] = "reading"
  /\ during' = IF ban = "running" THEN [during EXCEPT ![c] = @ + 1] ELSE during

\* An event or a row cannot be written, or the peer is gone: the loop ends.
EndsOr(c, label) == pc' \in {[pc EXCEPT ![c] = "closing"], [pc EXCEPT ![c] = label]}

-----------------------------------------------------------------------------
(* Requests *)

\* A frame that is not JSON: answered by nothing, and the loop goes on.
MalformedFrame(c) ==
  /\ Begin(c)
  /\ record_offense("malformed_frame")
  /\ Goto(c, IF should_ban THEN "closing" ELSE "reading")
  /\ UNCHANGED <<connVars, dbVars, rest>>

\* Requests that change none of this: subscribe, suggest_difficulty, an unknown
\* method, a submit without authorization, a stale one (which may end the session).
OtherRequest(c) ==
  /\ Begin(c)
  /\ EndsOr(c, "answered")
  /\ UNCHANGED <<connVars, abuseVars, dbVars, rest>>

\* mining.authorize with an invalid address.
AuthorizeInvalid(c) ==
  /\ Begin(c)
  /\ record_offense("auth_failure")
  /\ Goto(c, "answered")
  /\ UNCHANGED <<connVars, dbVars, rest>>

\* Mutant of Assign: the permit of the address before is forgotten, not returned.
AssignLeaks(c, a) ==
  /\ address' = [address EXCEPT ![c] = a]
  /\ wanted' = [wanted EXCEPT ![c] = NoAddress]
  /\ holders' = [x \in Addresses |-> holders[x] + (IF wanted[c] = NoAddress /\ x = a THEN 1 ELSE 0)]
  /\ Goto(c, "answered")

\* authorized_worker and _address_permit are replaced: the old permit is dropped.
Assign(c, a) ==
  /\ address' = [address EXCEPT ![c] = a]
  /\ wanted' = [wanted EXCEPT ![c] = NoAddress]
  /\ holders' = [x \in Addresses |->
                   LET held == holders[x] + (IF wanted[c] = NoAddress /\ x = a THEN 1 ELSE 0)
                   IN  IF x = address[c] THEN held - 1 ELSE held]
  /\ Goto(c, "answered")

\* Whether one more session of the address is allowed.
try_open_address_session(a) == holders[a] < MaxPerAddress

\* mining.authorize with a valid one: nothing to do, or too many sessions, or the
\* permit is taken and the session row written, which is done once.
Authorize(c, a) ==
  /\ Begin(c)
  /\ \/ /\ address[c] = a \/ ~ try_open_address_session(a)
        /\ Goto(c, "answered")
        /\ UNCHANGED <<address, wanted, holders>>
     \/ /\ address[c] # a /\ try_open_address_session(a)
        /\ IF persisted[c]
           THEN Assign(c, a)
           ELSE /\ wanted' = [wanted EXCEPT ![c] = a]
                /\ holders' = [holders EXCEPT ![a] = @ + 1]
                /\ Goto(c, "opening")
                /\ UNCHANGED address
  /\ UNCHANGED <<session, persisted, seen, work, abuseVars, dbVars, accepted, base, open, restarts>>

\* open_session returns; mining goes on without a row if it failed.
OpenSession(c) ==
  /\ pc[c] = "opening"
  /\ Assign(c, wanted[c])
  /\ \/ /\ rows' = rows \cup {session[c]}
        /\ persisted' = [persisted EXCEPT ![c] = TRUE]
        /\ UNCHANGED excused
     \/ /\ excused' = excused \cup {session[c]}
        /\ rows' \in {rows, rows \cup {session[c]}}
        /\ UNCHANGED persisted
  /\ UNCHANGED <<session, seen, work, abuseVars, shares, counted, accepted, base, open, during,
                 restarts>>

\* mining.submit that cannot be parsed, or for a worker of another address.
SubmitInvalid(c) ==
  /\ Begin(c) /\ address[c] # NoAddress
  /\ record_offense("invalid_share")
  /\ EndsOr(c, "answered")
  /\ UNCHANGED <<connVars, dbVars, rest>>

\* Mutant of ShareKey: shares are told apart by their worker too.
ShareKeyOfWorker(c, w) == <<w, address[c]>>

ShareKey(c, w) == <<w, NoAddress>>

\* mining.submit: a share the session has seen is refused; a new one is checked
\* against the difficulty and, if it is good, stored.
Submit(c, w) ==
  /\ Begin(c) /\ address[c] # NoAddress
  /\ \/ /\ ShareKey(c, w) \in seen[c]
        /\ EndsOr(c, "answered")
        /\ UNCHANGED <<seen, work>>
     \/ /\ ShareKey(c, w) \notin seen[c]
        /\ seen' = [seen EXCEPT ![c] = @ \cup {ShareKey(c, w)}]
        /\ \/ EndsOr(c, "answered") /\ UNCHANGED work
           \/ Goto(c, "inserting") /\ work' = [work EXCEPT ![c] = {w}]
  /\ UNCHANGED <<session, address, wanted, persisted, abuseVars, dbVars, rest>>

\* upsert_job, then insert_share: on conflict(job_id, worker_id, extranonce2, ntime,
\* nonce) do nothing.  A conflict is answered as a duplicate.  An error (values that
\* are not eight lower-case hex digits break a constraint) ends the session.
InsertShare(c) ==
  LET row == {<<address[c], w>> : w \in work[c]}
      new == row \ shares
      counts == {<<extranonce1(c), w, address[c]>> : w \in work[c]}
  IN  /\ pc[c] = "inserting"
      /\ work' = [work EXCEPT ![c] = {}]
      /\ \/ Goto(c, "closing") /\ UNCHANGED <<shares, counted>>
         \/ /\ EndsOr(c, "answered")
            /\ shares' = shares \cup row
            /\ counted' = IF new = {} THEN counted ELSE counted \cup counts
      /\ UNCHANGED <<session, address, wanted, persisted, seen, abuseVars, rows, excused, rest,
                     during>>

\* Mutant of AfterResponse: only the connection that caused the ban is closed.
AfterResponseLenient(c) ==
  /\ pc[c] = "answered"
  /\ offenses' = Expired
  /\ ban' = ExpiredBan
  /\ EndsOr(c, "reading")
  /\ UNCHANGED <<connVars, active, dbVars, during, rest>>

\* The response is written; is_banned decides whether the loop goes on.
AfterResponse(c) ==
  /\ pc[c] = "answered"
  /\ offenses' = Expired
  /\ ban' = ExpiredBan
  /\ IF ban' = "running" THEN Goto(c, "closing") ELSE EndsOr(c, "reading")
  /\ UNCHANGED <<connVars, active, dbVars, during, rest>>

\* The peer disconnects, or the socket fails.
Disconnect(c) ==
  /\ pc[c] = "reading"
  /\ Goto(c, "closing")
  /\ UNCHANGED <<connVars, abuseVars, dbVars, during, rest>>

\* What a new connection finds.
Reset(c) ==
  /\ session' = [session EXCEPT ![c] = 0]
  /\ address' = [address EXCEPT ![c] = NoAddress]
  /\ wanted' = [wanted EXCEPT ![c] = NoAddress]
  /\ persisted' = [persisted EXCEPT ![c] = FALSE]
  /\ seen' = [seen EXCEPT ![c] = {}]
  /\ work' = [work EXCEPT ![c] = {}]
  /\ during' = [during EXCEPT ![c] = 0]

\* close_session, if open_session had succeeded; a failure is logged.
CloseRow(c) ==
  IF persisted[c]
  THEN \/ rows' = rows \ {session[c]} /\ UNCHANGED excused
       \/ excused' = excused \cup {session[c]} /\ UNCHANGED rows
  ELSE UNCHANGED <<rows, excused>>

\* The end of handle_client: the row is closed, then the guard and both permits go.
Close(c) ==
  /\ pc[c] = "closing"
  /\ CloseRow(c)
  /\ open' = open - 1
  /\ active' = active - 1
  /\ holders' = [x \in Addresses |-> IF x = address[c] THEN holders[x] - 1 ELSE holders[x]]
  /\ Goto(c, "none")
  /\ Reset(c)
  /\ UNCHANGED <<offenses, ban, shares, counted, accepted, base, restarts>>

\* Mutant of close_stale_sessions: it is not called.
close_stale_sessions_skipped(late) == rows \cup late

\* The rows open once it has run, with those of calls that arrive later.
close_stale_sessions(late) == late

\* The bridge dies and starts again: close_stale_sessions ends the rows that are
\* left before the first connection is accepted.  A row on its way to the database
\* may still arrive after that.
Restart ==
  /\ restarts < MaxRestarts
  /\ restarts' = restarts + 1
  /\ \E late \in SUBSET {session[c] : c \in {d \in Conns : pc[d] = "opening"}} :
       rows' = close_stale_sessions(late) /\ excused' = excused \cup late
  /\ pc' = [c \in Conns |-> "none"]
  /\ session' = [c \in Conns |-> 0]
  /\ address' = [c \in Conns |-> NoAddress]
  /\ wanted' = [c \in Conns |-> NoAddress]
  /\ persisted' = [c \in Conns |-> FALSE]
  /\ seen' = [c \in Conns |-> {}]
  /\ work' = [c \in Conns |-> {}]
  /\ base' = accepted
  /\ active' = 0
  /\ offenses' = NoOffenses
  /\ ban' = "none"
  /\ holders' = [a \in Addresses |-> 0]
  /\ open' = 0
  /\ counted' = {}
  /\ during' = [c \in Conns |-> 0]
  /\ UNCHANGED <<accepted, shares>>

-----------------------------------------------------------------------------

SessionsInit ==
  /\ pc = [c \in Conns |-> "none"]
  /\ session = [c \in Conns |-> 0]
  /\ address = [c \in Conns |-> NoAddress]
  /\ wanted = [c \in Conns |-> NoAddress]
  /\ persisted = [c \in Conns |-> FALSE]
  /\ seen = [c \in Conns |-> {}]
  /\ work = [c \in Conns |-> {}]
  /\ accepted = 0
  /\ base = 0
  /\ active = 0
  /\ offenses = NoOffenses
  /\ ban = "none"
  /\ holders = [a \in Addresses |-> 0]
  /\ open = 0
  /\ rows = {}
  /\ excused = {}
  /\ shares = {}
  /\ counted = {}
  /\ during = [c \in Conns |-> 0]
  /\ restarts = 0

SessionsNext ==
  \/ BanPasses
  \/ Restart
  \/ \E c \in Conns :
       \/ Accept(c) \/ MalformedFrame(c) \/ OtherRequest(c) \/ AuthorizeInvalid(c)
       \/ OpenSession(c) \/ SubmitInvalid(c) \/ InsertShare(c) \/ AfterResponse(c)
       \/ Disconnect(c) \/ Close(c)
       \/ \E a \in Addresses : Authorize(c, a)
       \/ \E w \in Works : Submit(c, w)

SessionsSpec == SessionsInit /\ [][SessionsNext]_sessionVars

-----------------------------------------------------------------------------
(* Properties *)

\* The three counters of open connections and the sessions of every address are
\* exact on every path a connection may end on, and never pass their limits:
\* no permit leaks, and none is given back twice.
PermitsExact ==
  /\ active = Cardinality({c \in Conns : Live(c)}) /\ open = active /\ active <= MaxPerIp
  /\ \A a \in Addresses :
       /\ holders[a] = Cardinality({c \in Conns : address[c] = a})
                         + Cardinality({c \in Conns : wanted[c] = a})
       /\ holders[a] <= MaxPerAddress

\* A session row that looks open belongs to a connection of this process that is
\* open, or to one for which a call of the database failed.
RowsAreLive ==
  rows \subseteq {session[c] : c \in {d \in Conns : Live(d)}} \cup excused

\* Until the bridge restarts no piece of work, the nonce space of the connection
\* included, is counted twice: not when the miner authorizes another address in
\* between, and not when the row is written by a call that fails.
WorkCountedOnce ==
  \A x, y \in counted : x[1] = y[1] /\ x[2] = y[2] => x = y

\* While the address is banned, none of its connections gets more than one more
\* request in, whichever of them brought the ban about.
BanCutsOff == \A c \in Conns : during[c] <= 1

=============================================================================
