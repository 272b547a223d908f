------------------------------ MODULE Signing ------------------------------
(***************************************************************************)
(* From a batch to the transaction a node is given: what sign-payouts      *)
(* makes of the signer's answer and what submit-payouts makes of the text  *)
(* it stored (crates/csd-pool-workers/src/main.rs), with the checks of the *)
(* signer in crates/csd-pool-signer/src/lib.rs.                            *)
(*                                                                         *)
(* A request is a sequence of outputs [address, amount] with their total.  *)
(* An answer has a txid that is well formed or not, and a node transaction *)
(* or a raw one.  form stands for what is checked of a node transaction    *)
(* besides its outputs: version, inputs, locktime and app.                 *)
(***************************************************************************)
EXTENDS Naturals, Sequences, SequencesExt, FiniteSets, FiniteSetsExt

CONSTANTS
  Payees, Sums,          \* addresses and amounts of outputs
  MaxRequested,          \* bound: outputs of a request
  MaxTxOutputs           \* bound: outputs of a transaction

VARIABLES request, response

Total(outputs) == FoldLeft(LAMBDA sum, o : sum + o.amount, 0, outputs)

\* The signer takes requests whose outputs are positive and add up.
validate_sign_request(r) ==
  /\ r.outputs # <<>>
  /\ \A i \in DOMAIN r.outputs : r.outputs[i].amount > 0
  /\ Total(r.outputs) = r.total

\* An output of a node transaction: script says whether script_pubkey has 20 bytes.
TxOutput == [address : Payees, amount : Sums \cup {0}, script : BOOLEAN]

validate_official_node_tx(tx) ==
  /\ tx.form
  /\ tx.outputs # <<>>
  /\ \A i \in DOMAIN tx.outputs : tx.outputs[i].amount > 0 /\ tx.outputs[i].script

\* Vec::swap_remove: the last element takes the place.
SwapRemove(s, i) == SubSeq([s EXCEPT ![i] = s[Len(s)]], 1, Len(s) - 1)

\* Where an expected output is among the ones still available.
Positions(available, expected) ==
  {i \in DOMAIN available :
     available[i].address = expected.address /\ available[i].amount = expected.amount}

\* Mutant of TakeOutput: an output that was found may be found again.
TakeOutputAgain(state, expected) ==
  [state EXCEPT !.all = @ /\ Positions(state.available, expected) # {}]

\* One step of request.outputs.iter().all(..): the first match is used up.
TakeOutput(state, expected) ==
  LET found == Positions(state.available, expected)
  IN  IF ~ state.all \/ found = {} THEN [state EXCEPT !.all = FALSE]
      ELSE [state EXCEPT !.available = SwapRemove(@, Min(found))]

node_tx_outputs_match_request(tx, r) ==
  FoldLeft(TakeOutput, [all |-> TRUE, available |-> tx.outputs], r.outputs).all

NoTx == [form |-> FALSE, outputs |-> <<>>]

validate_signed_payout_response(a, r) ==
  /\ a.txid
  /\ IF a.node_tx # NoTx
       THEN validate_official_node_tx(a.node_tx) /\ node_tx_outputs_match_request(a.node_tx, r)
       ELSE a.raw = "hex"

\* The text kept in raw_tx_hash: a node transaction behind a prefix, or the raw one.
signed_payout_storage_value(a) ==
  IF a.node_tx # NoTx THEN [prefix |-> TRUE, tx |-> a.node_tx, raw |-> "none"]
                      ELSE [prefix |-> a.raw = "prefixed", tx |-> NoTx, raw |-> a.raw]

\* sign_payouts: the text of a batch that becomes signed; else the batch fails.
Nothing == [prefix |-> FALSE, tx |-> NoTx, raw |-> "none"]

sign_payouts(a, r) ==
  IF validate_sign_request(r) /\ validate_signed_payout_response(a, r)
    THEN signed_payout_storage_value(a) ELSE Nothing

\* submit_payouts: what is behind the prefix goes to the node as a transaction, a
\* text without it as raw bytes.
submit_payouts(stored) ==
  IF stored = Nothing THEN [as |-> "nothing", tx |-> NoTx]
  ELSE IF stored.prefix THEN [as |-> "node_tx", tx |-> stored.tx]
  ELSE [as |-> "raw", tx |-> NoTx]

\* check_signer: a request of one output to the wallet's own address.
signer_contract_request ==
  LET amount == Min(Sums)
  IN  [outputs |-> <<[address |-> Min(Payees), amount |-> amount]>>, total |-> amount]

check_signer(health_ok, a) ==
  health_ok /\ validate_sign_request(signer_contract_request)
            /\ validate_signed_payout_response(a, signer_contract_request)

-----------------------------------------------------------------------------
Outputs == [address : Payees, amount : Sums]

Requests ==
  {[outputs |-> o, total |-> Total(o)] : o \in BoundedSeq(Outputs, MaxRequested)}

Transactions ==
  [form : BOOLEAN, outputs : BoundedSeq(TxOutput, MaxTxOutputs)]

\* "prefixed" is a text that starts like a stored node transaction.
Responses ==
  [txid : {TRUE}, node_tx : Transactions \ {NoTx}, raw : {"none"}]
    \cup [txid : BOOLEAN, node_tx : {NoTx}, raw : {"none", "hex", "odd", "prefixed"}]

Paid(outputs, o) ==
  Cardinality({i \in DOMAIN outputs : outputs[i].address = o.address /\ outputs[i].amount = o.amount})

\* Whatever the signer answers, a node transaction that reaches a node pays every
\* output of the batch by an output of its own, with the exact amount, and nothing
\* that was not checked as one is sent as one.  And check-signer passes an answer
\* exactly when a run would sign with it.
PaysTheRequest ==
  LET sent == submit_payouts(sign_payouts(response, request))
  IN  /\ sent.as = "node_tx" =>
           /\ sent.tx = response.node_tx /\ sent.tx # NoTx
           /\ \A i \in DOMAIN request.outputs :
                Paid(request.outputs, request.outputs[i])
                  <= Paid(sent.tx.outputs, request.outputs[i])
      /\ request = signer_contract_request =>
           check_signer(TRUE, response) = (sent.as # "nothing")
=============================================================================
