------------------------------- MODULE TxFunds -------------------------------
(***************************************************************************)
(* prepareTxFunds and getUtxosToFillTx of src/src/helpers/tx.helper.js: the*)
(* inputs of POST /wallet/send-tx and of the transaction proposals.        *)
(*                                                                         *)
(* When the first input of the request is a query, the headless itself     *)
(* chooses the inputs: it adds up the outputs of each token, and for one   *)
(* token after the other it asks the wallet for its utxos, awaits them and *)
(* picks.  Otherwise it passes the listed inputs on, or none, and the      *)
(* wallet-lib chooses.  The filters of the query are the wallet's: `utxos` *)
(* are those that match.                                                   *)
(***************************************************************************)
EXTENDS Naturals, Sequences, FiniteSetsExt, SequencesExt

CONSTANTS
  Tokens,    \* token uids
  Htr,       \* NATIVE_TOKEN_UID
  Default,   \* defaultToken: the token of outputs that name none
  NoToken,   \* an output that names no token
  Utxos,     \* names of utxos
  MaxAmount, \* bound: amount of a utxo
  MaxOutput, \* bound: value of an output
  MaxOutputs \* bound: outputs in a request

ASSUME TxFundsAssumption ==
  /\ Htr \in Tokens /\ Default \in Tokens /\ NoToken \notin Tokens /\ IsFiniteSet(Utxos)
  /\ MaxAmount \in Nat \ {0} /\ MaxOutput \in Nat \ {0} /\ MaxOutputs \in Nat

Data == 0 \* in an output's value: type "data", which has no value

VARIABLES
  utxos,   \* utxos[u]: token and amount of a utxo matching the query
  outputs, \* the outputs of the request
  asked,   \* its inputs: "none", "query" or "listed"
  tokens,  \* the map `tokens`: needed amounts, in order of insertion
  inputs,  \* preparedInputs
  result   \* "none" while it runs

vars == <<utxos, outputs, asked, tokens, inputs, result>>

Outputs == [token : Tokens \cup {NoToken}, value : 1..MaxOutput \cup {Data}]

(* bigIntValidator({ min: 1 }), and no value for data outputs. *)
Init ==
  /\ utxos \in [Utxos -> [token : Tokens, amount : 1..MaxAmount]]
  /\ outputs \in SeqOf(Outputs, MaxOutputs) \ {<<>>}
  /\ asked \in {"none", "query", "listed"}
  /\ tokens = <<>> /\ inputs = <<>> /\ result = "none"

-----------------------------------------------------------------------------
(* getUtxosToFillTx *)

Amount(S) == SumFunctionOnSet([u \in Utxos |-> utxos[u].amount], S)

(* Larger amounts first; equal ones in the order the wallet had them in. *)
Sorted(S) ==
  {q \in SetToSeqs(S) : \A i, j \in DOMAIN q : i < j => utxos[q[i]].amount >= utxos[q[j]].amount}

(* Slip: an exact amount is not enough. *)
NeedsChange(S, sum) == Amount(S) <= sum

TooLittle(S, sum) == Amount(S) < sum

(* Slip: the index of the first utxo that is not larger than the sum. *)
FirstNotLarger(q, sum) == SelectInSeq(q, LAMBDA u : utxos[u].amount <= sum)

(* The first utxo that does not fill the sum alone, 0 if there is none. *)
FirstSmaller(q, sum) == SelectInSeq(q, LAMBDA u : utxos[u].amount < sum)

(* One utxo fills the sum: the one before the first that does not, or the last. *)
SmallestEnough(q, sum) ==
  IF FirstSmaller(q, sum) = 0 THEN <<Last(q)>> ELSE <<q[FirstSmaller(q, sum) - 1]>>

LargestFirst(q, sum) ==
  SubSeq(q, 1, Min({i \in 1..Len(q) : Amount(ToSet(SubSeq(q, 1, i))) >= sum}))

(* The utxos picked from the sorted q. *)
GetUtxosToFillTx(q, sum) ==
  IF utxos[q[1]].amount > sum THEN SmallestEnough(q, sum) ELSE LargestFirst(q, sum)

-----------------------------------------------------------------------------
(* prepareTxFunds *)

(* A data output burns one unit, of the token it names or takes by default. *)
Value(o) == IF o.value = Data THEN 1 ELSE o.value

TokenOf(o) == IF o.token = NoToken THEN Default ELSE o.token

Of(t) == {i \in DOMAIN outputs : TokenOf(outputs[i]) = t}

(* Slip: every output sets the amount of its token anew. *)
LastNeeded(t) == Value(outputs[Max(Of(t))])

Needed(t) == SumFunctionOnSet([i \in DOMAIN outputs |-> Value(outputs[i])], Of(t))

UsedTokens == {TokenOf(outputs[i]) : i \in DOMAIN outputs}

(* The tokens of the outputs, each when it comes up first: there is one such order. *)
TokenOrders ==
  {q \in SetToSeqs(UsedTokens) : \A i, j \in DOMAIN q : i < j => Min(Of(q[i])) < Min(Of(q[j]))}

(* Everything up to the first await. *)
SumOutputs ==
  /\ result = "none" /\ tokens = <<>>
  /\ tokens' \in TokenOrders
  /\ IF asked = "query"
       THEN result' = "filling" /\ UNCHANGED inputs
       ELSE /\ result' = "ok"
            /\ IF asked = "listed"
                 THEN \E u \in Utxos : inputs' = <<u>>
                 ELSE UNCHANGED inputs
  /\ UNCHANGED <<utxos, outputs, asked>>

(* The utxos of the next token arrived. *)
FillToken ==
  /\ result = "filling"
  /\ LET t == Head(tokens)
         S == {u \in Utxos : utxos[u].token = t}
     IN  IF TooLittle(S, Needed(t))
           THEN result' = "no utxos" /\ UNCHANGED <<inputs, tokens>>
           ELSE /\ \E q \in Sorted(S) : inputs' = inputs \o GetUtxosToFillTx(q, Needed(t))
                /\ tokens' = Tail(tokens)
                /\ result' = IF Len(tokens) = 1 THEN "ok" ELSE "filling"
  /\ UNCHANGED <<utxos, outputs, asked>>

Done == result \in {"ok", "no utxos"} /\ UNCHANGED vars

Next == SumOutputs \/ FillToken \/ Done

Spec == Init /\ [][Next]_vars

-----------------------------------------------------------------------------

DataOutputs == {i \in DOMAIN outputs : outputs[i].value = Data}
Burnt(t) == Of(t) \cap DataOutputs
Sent(t) == SumFunctionOnSet([i \in DOMAIN outputs |-> outputs[i].value], Of(t))
Picked(t) == {u \in ToSet(inputs) : utxos[u].token = t}

(* The sets of utxos of t that fill what the code asks for its outputs. *)
Fills(t) ==
  {S \in SUBSET {u \in Utxos : utxos[u].token = t} :
     Amount(S) >= Sent(t) + Cardinality(Burnt(t))}

Filled == asked = "query" /\ result = "ok"

(***************************************************************************)
(* Chosen inputs fill what the outputs of every token send; none is chosen *)
(* twice, none is of another token (tx.helper.js:150-203).  "The data      *)
(* output requires that the user burns 0.01 HTR": the inputs of HTR fill   *)
(* that as well where every data output is one of HTR.  It is in the       *)
(* proposals (schemas.js:284 forbids it a token and HTR is the default);   *)
(* POST /wallet/send-tx lets one name another token or take it by default, *)
(* and the code then adds the unit to that token and asks for no HTR.      *)
(***************************************************************************)
InputsFillOutputs ==
  Filled =>
    /\ \A t \in UsedTokens : Amount(Picked(t)) >= Sent(t)
    /\ DataOutputs \subseteq Of(Htr) =>
         Amount(Picked(Htr)) >= Sent(Htr) + Cardinality(DataOutputs)
    /\ \A u \in ToSet(inputs) : utxos[u].token \in UsedTokens
    /\ IsInjective(inputs)

(***************************************************************************)
(* "The helper getUtxosToFillTx will filter utxos to send the least amount *)
(* of inputs" (build-tx.test.js:292): no smaller set of utxos fills the    *)
(* outputs of a token, and none of one utxo fills them with less change.   *)
(***************************************************************************)
FewestInputs ==
  Filled =>
    \A t \in UsedTokens : \A S \in Fills(t) :
      /\ Cardinality(Picked(t)) <= Cardinality(S)
      /\ Cardinality(S) = 1 => Amount(Picked(t)) <= Amount(S)

(***************************************************************************)
(* The request is refused for want of utxos exactly when all the matching  *)
(* utxos of some token do not fill its outputs, wherever the token comes.  *)
(***************************************************************************)
RefusedOnlyWhenShort ==
  asked = "query" /\ result \in {"ok", "no utxos"} =>
    (result = "no utxos" <=> \E t \in UsedTokens : Fills(t) = {})
=============================================================================
