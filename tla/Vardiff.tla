------------------------------- MODULE Vardiff -------------------------------
(***************************************************************************)
(* The difficulty of one session: VardiffState of                          *)
(* crates/csd-pool-bridge/src/lib.rs with the miner it steers.             *)
(*                                                                         *)
(* Instants are kept as ages, in milliseconds, and the moving average is   *)
(* rounded down to one; difficulties are the whole numbers the code rounds *)
(* them to, so that a settled session comes back to the same state.  The   *)
(* limits, the time between changes and the grace are any configuration;   *)
(* the average is steered by the defaults, with the ratios as fractions:   *)
(* alpha 1/4, raise 7/10, lower 14/10, factor 2.                           *)
(***************************************************************************)
EXTENDS Integers

CONSTANTS
  MinDifficulty, MaxDifficulty, InitialDifficulty,
  MinAdjust,        \* min_adjust_secs
  Grace,            \* transition_grace_secs
  Rates,            \* the difficulty at which a miner finds a share per target interval
  Suggestions,      \* difficulties a miner may ask for
  MaxRateChanges,   \* bound: changes of the miner's speed
  MaxAdjustments    \* changes of difficulty a steady miner may see

\* What VardiffConfig::normalized makes of the configuration (it ties neither time to
\* the other), and miners that are neither infinitely fast nor at a standstill.
ASSUME VardiffAssumption ==
  /\ MinDifficulty \in Nat \ {0} /\ MaxDifficulty \in Nat /\ MinDifficulty <= MaxDifficulty
  /\ InitialDifficulty \in Nat
  /\ MinAdjust \in Nat \ {0} /\ Grace \in Nat \ {0}
  /\ Rates \subseteq Nat \ {0}
  /\ Suggestions \subseteq Nat

Target == 20000     \* target_share_secs
Factor == 2         \* max_adjust_factor
NoTime == -1
None == 0

VARIABLES
  rate,        \* the miner's speed
  changes,     \* changes of it so far
  current,     \* current_difficulty
  previous,    \* previous_difficulty
  grace,       \* time until transition_until, NoTime when it has passed
  started,     \* last_share_at is known
  adjusted,    \* time since last_adjust_at, as far as it matters
  ewma,        \* ewma_share_secs
  suggested,   \* difficulty_suggestion_seen
  told,        \* history: difficulties replaced less than the grace ago, and when
  adjustments  \* history: changes of difficulty since the speed last changed

vardiffVars == <<rate, changes, current, previous, grace, started, adjusted, ewma, suggested,
                 told, adjustments>>

Clamp(x, low, high) == IF x < low THEN low ELSE IF x > high THEN high ELSE x

\* a / b rounded to the nearest whole number, halves up
Rounded(a, b) == (2 * a + b) \div (2 * b)

quantize_difficulty(x) == Clamp(x, MinDifficulty, MaxDifficulty)

\* relative_difference(next, current) < 0.01
TooClose(next) ==
  LET d == IF next > current THEN next - current ELSE current - next IN 100 * d < current

\* What is left of the history and of the grace after a time.
Aged(t) == {[difficulty |-> x.difficulty, ago |-> x.ago + t] :
              x \in {y \in told : y.ago + t < Grace}}
GraceAfter(t) == IF grace >= t THEN grace - t ELSE NoTime

\* Mutant of apply_difficulty: the grace is that of an earlier change.
apply_difficulty_keeps_grace(next, t) ==
  /\ previous' = current
  /\ current' = next
  /\ grace' = IF grace = NoTime THEN Grace ELSE GraceAfter(t)
  /\ adjusted' = 0
  /\ told' = Aged(t) \cup {[difficulty |-> current, ago |-> 0]}
  /\ adjustments' = adjustments + 1

\* apply_difficulty, t after the last step
apply_difficulty(next, t) ==
  /\ previous' = current
  /\ current' = next
  /\ grace' = Grace
  /\ adjusted' = 0
  /\ told' = Aged(t) \cup {[difficulty |-> current, ago |-> 0]}
  /\ adjustments' = adjustments + 1

\* The single step towards it that a suggestion may make.
Suggested(s) ==
  LET step == Clamp(2 * Clamp(s, MinDifficulty, MaxDifficulty), current, 4 * current)
  IN  quantize_difficulty(Rounded(step, 2))

\* apply_suggested_difficulty: once a session, and it is taken before the first share only,
\* so no adjustment has been made before it.
apply_suggested_difficulty ==
  /\ ~ suggested /\ ~ started
  /\ suggested' = TRUE
  /\ \E s \in Suggestions :
       IF TooClose(Suggested(s))
       THEN UNCHANGED <<current, previous, grace, adjusted, told, adjustments>>
       ELSE apply_difficulty(Suggested(s), 0)
  /\ UNCHANGED <<rate, changes, started, ewma>>

\* The moving average after a share that came `elapsed` after the one before.
Average(elapsed) ==
  LET e == Clamp(elapsed, 50, 4 * Target)
  IN  IF ewma = None THEN e ELSE (e + 3 * ewma) \div 4

\* The difficulty that would bring the average to the target, at most Factor away;
\* between 70% and 140% of the target nothing is desired.
Desired(average) ==
  IF 10 * average < 7 * Target
  THEN Rounded(current * Target, Clamp(average, Target \div Factor, Target))
  ELSE IF 10 * average > 14 * Target
  THEN Rounded(current * Target, Clamp(average, Target, Target * Factor))
  ELSE current

\* Mutant of AdjustDue: every share may bring a change.
AdjustDueAlways(since) == TRUE

\* A change is due no sooner than min_adjust_secs after the last one.
AdjustDue(since) == since >= MinAdjust

\* record_accepted_share, t after the share before; the first share only starts
\* the clocks.
record_accepted_share(t) ==
  LET average == Average(t)
      next == quantize_difficulty(Desired(average))
      since == IF adjusted + t < MinAdjust THEN adjusted + t ELSE MinAdjust
  IN  /\ started' = TRUE
      /\ ewma' = IF started THEN average ELSE ewma
      /\ IF ~ started \/ ~ AdjustDue(since) \/ TooClose(next)
         THEN /\ adjusted' = IF started THEN since ELSE 0
              /\ grace' = GraceAfter(t)
              /\ told' = Aged(t)
              /\ UNCHANGED <<current, previous, adjustments>>
         ELSE apply_difficulty(next, t)

\* The miner finds a share of the current difficulty.
Share ==
  /\ record_accepted_share((Target * current) \div rate)
  /\ UNCHANGED <<rate, changes, suggested>>

\* The miner becomes faster or slower (external).
RateChanges ==
  /\ changes < MaxRateChanges /\ started
  /\ changes' = changes + 1
  /\ rate' \in Rates \ {rate}
  /\ adjustments' = 0
  /\ UNCHANGED <<current, previous, grace, started, adjusted, ewma, suggested, told>>

VardiffInit ==
  /\ rate \in Rates
  /\ changes = 0
  /\ current = quantize_difficulty(InitialDifficulty)
  /\ previous = None
  /\ grace = NoTime
  /\ started = FALSE
  /\ adjusted = 0
  /\ ewma = None
  /\ suggested = FALSE
  /\ told = {}
  /\ adjustments = 0

VardiffNext == apply_suggested_difficulty \/ Share \/ RateChanges

VardiffSpec == VardiffInit /\ [][VardiffNext]_vardiffVars

-----------------------------------------------------------------------------
(* Properties *)

\* verify_submit_for_vardiff: the difficulties a share may have to be accepted now.
previous_difficulty_in_grace ==
  IF grace # NoTime /\ previous # None /\ previous < current THEN previous ELSE current

\* The difficulties whose replacement must still be forgiven: the last one for all of the
\* grace, and, of those before it, the ones replaced less than min_adjust_secs ago.
Forgiven ==
  {x \in told : x.ago < MinAdjust \/ \A y \in told : x.ago <= y.ago}

\* "accept the previous lower difficulty for 120 seconds after an increase"
\* (docs/protocol-spec.md): a share that meets the difficulty before the last change is
\* accepted for the grace, and a share that meets any difficulty for the shorter of the
\* grace and min_adjust_secs after its replacement, however many changes were made since.
\* With the defaults both are the documented 120 seconds.
GraceHonoured ==
  \A x \in Forgiven : x.difficulty >= previous_difficulty_in_grace

\* A miner of steady speed is left alone in the end: the average lags behind, so a
\* change may overshoot, but the corrections die out.
Settles == adjustments <= MaxAdjustments
=============================================================================
