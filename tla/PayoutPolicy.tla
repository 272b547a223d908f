---------------------------- MODULE PayoutPolicy ----------------------------
(***************************************************************************)
(* The amounts that limit payouts, and who says what they allow: the       *)
(* settings and their parsing, payout-preview and create-payouts of the    *)
(* workers (crates/csd-pool-workers/src/main.rs), and the preview of the   *)
(* operator API (crates/csd-pool-api/src/lib.rs).                          *)
(*                                                                         *)
(* A text is a sequence of digits, Dot and Other characters; a CSD         *)
(* has 10^Scale base units.  A setting comes from the file, if             *)
(* CSD_POOL_CONFIG names one, or a variable, and is a default if it is not *)
(* there or the file cannot be read.  Both crates have a copy of all this; *)
(* what the API's is has its name with api.  The defaults are scaled down  *)
(* with the amounts of the run.                                            *)
(***************************************************************************)
EXTENDS Integers, Sequences, SequencesExt, FiniteSets, Accounting

CONSTANTS
  Scale,           \* bound: 8 in the code
  MaxUnits,        \* bound: the largest amount, u128::MAX in the code
  MaxDigits,       \* bound: the digits of a whole part
  MinimumTexts,    \* texts the minimum may have
  LimitTexts,      \* texts the three limits may have
  PreviewTexts,    \* texts CSD_POOL_PAYOUT_PREVIEW_LIMIT may have
  RecipientLimit,  \* bound: 100 in the code of both
  Balances,        \* what list_payable_balances may return
  UsedToday        \* what active_payout_total_today may return

VARIABLES setting, store

Digit == 0 .. 9
Dot == 10
Other == 11
BadAmount == -1
Absent == <<12>>
Character == Digit \cup {Dot, Other, 12}

\* 10 to the n, as far as an amount goes
Power[n \in 0 .. Scale + MaxDigits] == IF n = 0 THEN 1 ELSE 10 * Power[n - 1]

\* A balance is an amount that can be printed, and list_payable_balances has one row for
\* a miner.
ASSUME PolicyAssumption ==
  /\ {Scale, MaxUnits} \subseteq Nat /\ MaxDigits \in Nat \ {0}
  /\ RecipientLimit \in Nat \ {0} /\ UsedToday \subseteq Nat
  /\ MinimumTexts \subseteq Seq(Character) /\ LimitTexts \subseteq Seq(Character)
  /\ PreviewTexts \subseteq Seq(Character)
  /\ Balances \subseteq
       Seq([miner : Nat, confirmed : {n \in 0 .. MaxUnits : n < Power[Scale + MaxDigits]}])
  /\ \A b \in Balances : \A i, j \in DOMAIN b : b[i].miner = b[j].miner => i = j

\* str::parse of digits
Value(digits) == FoldLeft(LAMBDA acc, x : acc * 10 + x, 0, digits)

\* str::split('.')
Dots(text) == {i \in DOMAIN text : text[i] = Dot}
Whole(text) == IF Dots(text) = {} THEN text ELSE SubSeq(text, 1, Min(Dots(text)) - 1)
Fraction(text) == IF Dots(text) = {} THEN <<>> ELSE SubSeq(text, Min(Dots(text)) + 1, Len(text))
AllDigits(s) == \A i \in DOMAIN s : s[i] \in Digit

Padded(frac) == frac \o [i \in 1 .. Scale - Len(frac) |-> 0]

\* One dot at most, digits around it, the whole not empty, the fraction not too long;
\* the product is checked.
parse_csd_base_units(text) ==
  IF Whole(text) = <<>> \/ ~ AllDigits(Whole(text)) \/ ~ AllDigits(Fraction(text))
     \/ Len(Fraction(text)) > Scale
    THEN BadAmount
  ELSE IF Value(Whole(text)) * Power[Scale] > MaxUnits THEN BadAmount
  ELSE Value(Whole(text)) * Power[Scale] + Value(Padded(Fraction(text)))

\* Mutant of api_parse_csd_base_units: the fraction is not filled up with zeros.
api_parse_csd_base_units_unpadded(text) ==
  IF Whole(text) = <<>> \/ ~ AllDigits(Whole(text)) \/ ~ AllDigits(Fraction(text))
     \/ Len(Fraction(text)) > Scale
    THEN BadAmount
  ELSE Value(Whole(text)) * Power[Scale] + Value(Fraction(text))

\* The API's copy, with its checks in their order.
api_parse_csd_base_units(text) ==
  LET refused == \/ Whole(text) = <<>>
                 \/ ~ AllDigits(Whole(text)) \/ ~ AllDigits(Fraction(text))
                 \/ Len(Fraction(text)) > Scale
                 \/ Value(Whole(text)) * Power[Scale] > MaxUnits
  IN  IF refused THEN BadAmount
      ELSE Value(Whole(text)) * Power[Scale] + Value(Padded(Fraction(text)))

\* The digits of a number, in as many places, and the places it needs.
Places(n, places) == [i \in 1 .. places |-> (n \div Power[places - i]) % 10]
Width(n) == Min({k \in 1 .. MaxDigits : n < Power[k]})

\* format_csd of the API, format_unsigned_csd of the workers.
format_csd(n) ==
  LET whole == n \div Power[Scale]
  IN  Places(whole, Width(whole)) \o <<Dot>> \o Places(n % Power[Scale], Scale)

\* PoolConfig::from_file fails for a file without minimum_payout_csd, which alone has no
\* default there.
Unreadable(s) == s.file = "broken" \/ (s.file = "good" /\ s.minimum = Absent)

\* A setting of the workers: what the file or the variable says, or the default.
base_units(s, text, default) ==
  parse_csd_base_units(IF Unreadable(s) \/ text = Absent THEN default ELSE text)

Amounts(s) ==
  [minimum |-> base_units(s, s.minimum, <<1, Dot, 0>>), batch |-> base_units(s, s.batch, <<2, Dot, 0>>),
   daily |-> base_units(s, s.daily, <<2, Dot, 5>>), manual |-> base_units(s, s.manual, <<1, Dot, 5>>)]

\* ... and of the API.
api_base_units(s, text, default) ==
  api_parse_csd_base_units(IF Unreadable(s) \/ text = Absent THEN default ELSE text)

api_amounts(s) ==
  [minimum |-> api_base_units(s, s.minimum, <<1, Dot, 0>>),
   batch |-> api_base_units(s, s.batch, <<2, Dot, 0>>),
   daily |-> api_base_units(s, s.daily, <<2, Dot, 5>>),
   manual |-> api_base_units(s, s.manual, <<1, Dot, 5>>)]

\* Only the API reads this one, and never from the file.
payout_preview_recipient_limit(s) ==
  IF s.preview # <<>> /\ AllDigits(s.preview) THEN Value(s.preview) ELSE RecipientLimit

Readable(a) == BadAmount \notin {a.minimum, a.batch, a.daily, a.manual}

SelectionTotal(selection) == SumFunction([k \in DOMAIN selection |-> selection[k].confirmed])

NoBatchMade == [status |-> "none", selection |-> <<>>]

\* create_payouts: the batch it makes, if payouts are enabled.
create_payouts(s, t) ==
  LET a == Amounts(s)
      selection == select_payouts(t.balances, a.minimum, RecipientLimit)
      total == SelectionTotal(selection)
  IN  IF ~ Readable(a) \/ selection = <<>> \/ total > a.batch \/ t.used + total > a.daily
        THEN NoBatchMade
      ELSE [status |-> IF total > a.manual THEN "needs_approval" ELSE "created",
            selection |-> selection]

\* payout_preview of the workers
payout_preview(s, t) ==
  LET a == Amounts(s)
      selection == select_payouts(t.balances, a.minimum, RecipientLimit)
      total == SelectionTotal(selection)
  IN  [selection |-> selection,
       manual_approval_required |-> total > a.manual,
       would_create_batch |-> /\ selection # <<>>
                              /\ ~ (total > a.batch \/ t.used + total > a.daily \/ total > a.manual)]

\* operator_payout_preview_response
operator_payout_preview_response(a, used, selection) ==
  LET total == SelectionTotal(selection)
      cap_exceeded == total > a.batch
      daily_cap_exceeded == used + total > a.daily
      manual_approval_required == total > a.manual
  IN  [selection |-> selection, manual_approval_required |-> manual_approval_required,
       would_create_batch |-> selection # <<>> /\ ~ cap_exceeded /\ ~ daily_cap_exceeded
                              /\ ~ manual_approval_required]

\* operator_payout_preview, with the recipient limit of its own.
operator_payout_preview(s, t) ==
  LET a == api_amounts(s)
  IN  operator_payout_preview_response(a, t.used,
        select_payouts(t.balances, a.minimum, payout_preview_recipient_limit(s)))

-----------------------------------------------------------------------------
Settings ==
  [file : {"good", "broken", "unset"}, minimum : MinimumTexts, batch : LimitTexts,
   daily : LimitTexts, manual : LimitTexts, preview : PreviewTexts]

Stores == [balances : Balances, used : UsedToday]

\* n base units are what a text says, without rounding.
Exact(text, n) ==
  LET places == Len(Fraction(text))
  IN  n * Power[places] = (Value(Whole(text)) * Power[places] + Value(Fraction(text))) * Power[Scale]

\* A preview says what the run does: a batch is announced exactly when one is made that
\* needs no approval, with these recipients, and one that waits for approval as such.
Announces(preview, made) ==
  /\ preview.would_create_batch <=> made.status = "created"
  /\ made.status = "needs_approval" => preview.manual_approval_required
  /\ made.status # "none" => made.selection = preview.selection

\* One selection is the beginning of the other.
OneBegins(p, q) == \A k \in DOMAIN p \cap DOMAIN q : p[k] = q[k]

\* What the preview of the API says of a run that has its own recipient limit.
AnnouncesUnder(limit, preview, made) ==
  /\ limit = RecipientLimit => Announces(preview, made)
  /\ limit >= RecipientLimit =>
       /\ preview.would_create_batch => made.status = "created"
       /\ made.status = "needs_approval" => preview.manual_approval_required
  /\ 0 < limit /\ limit <= RecipientLimit =>
       (made.status = "created" => preview.would_create_batch)
  /\ OneBegins(made.selection, preview.selection)

\* What the API prints of a selection, it reads as the same amounts.
ReadsBack(selection) ==
  \A b \in ToSet(selection) : api_parse_csd_base_units(format_csd(b.confirmed)) = b.confirmed

\* The claim below, of a setting, its amounts as the workers and as the API see them, the
\* two previews and the run.
Truthful(s, amounts, seen, preview, api_preview, made) ==
  /\ seen = amounts
  /\ Readable(amounts) =>
       /\ Announces(preview, made)
       /\ AnnouncesUnder(payout_preview_recipient_limit(s), api_preview, made)
       /\ ReadsBack(made.selection)
  /\ ~ Unreadable(s) /\ s.minimum # Absent /\ amounts.minimum # BadAmount =>
       Exact(s.minimum, amounts.minimum)

\* The previews and the run agree whatever the settings are, the two copies of their
\* parsing and their comparisons included.  The preview of the API has a recipient limit
\* of its own: with the workers' it says what the run does; with a larger one it is
\* cautious, and announces no batch a run would not make; with a smaller one it is
\* hopeful, and announces every batch a run would make.  An amount in a setting means
\* what it says, and an amount the API prints is read back as the same.
PreviewTellsTruth ==
  Truthful(setting, Amounts(setting), api_amounts(setting), payout_preview(setting, store),
           operator_payout_preview(setting, store), create_payouts(setting, store))
=============================================================================
