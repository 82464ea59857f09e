----------------------------- MODULE Fireblocks -----------------------------
(***************************************************************************)
(* The sends of a wallet whose transactions are signed by Fireblocks       *)
(* (services/fireblocks.service.js).                                       *)
(*                                                                         *)
(* While the wallet-lib's sendTransaction.prepareTx() awaits the external  *)
(* signer, the inputs are chosen but not yet marked and the wallet's lock  *)
(* is held: a send that is being signed is, for SendTx, one that has not   *)
(* marked its inputs yet.  The signer posts a raw transaction under the    *)
(* hash to sign, then polls it once a second.  Fireblocks is external.     *)
(***************************************************************************)
EXTENDS SendTx

CONSTANTS
  RawTxs,    \* hashes to sign, which are also Fireblocks' external ids
  AddressOf, \* AddressOf[u]: bip32 index of the address of UTXO u
  CallerOf,  \* CallerOf[x]: index of the nano contract caller of x, or NoCaller
  NoCaller,  \* null
  MaxPolls   \* bound on the polls of one signing: 600 in the code

Indices == {AddressOf[u] : u \in Utxos} \cup {CallerOf[x] : x \in RawTxs}

ASSUME FireblocksAssumption ==
  /\ RawTxs # {}
  /\ AddressOf \in [Utxos -> Nat]
  /\ CallerOf \in [RawTxs -> Nat \cup {NoCaller}]
  /\ NoCaller \notin Nat
  /\ MaxPolls \in Nat
  /\ KindsUsed \subseteq {"simple", "sendTx"} \cup MarkingKinds

VARIABLES
  sign,      \* sign[r]: where the signer of r is
  raw,       \* raw[r]: the hash r has signed, while it is being signed and after
  polls,     \* polls[r]: `count` of sendRawTransaction
  sigs,      \* sigs[r]: indices whose signatures the signer of r returned
  fbStatus,  \* fbStatus[x]: Fireblocks' status of x
  fbInputs,  \* fbInputs[x]: the inputs that x hashes
  fbIndices  \* fbIndices[x]: the indices x was created with

signVars == <<sign, raw, polls, sigs>>
fbVars == <<fbStatus, fbInputs, fbIndices>>
allVars == <<vars, signVars, fbVars>>

FbTypeOK ==
  /\ sign \in [Requests -> {"no", "post", "poll", "signed"}]
  /\ raw \in [Requests -> RawTxs]
  /\ polls \in [Requests -> 0 .. MaxPolls]
  /\ sigs \in [Requests -> SUBSET Indices]
  /\ fbStatus \in [RawTxs -> {"none", "PENDING", "COMPLETED", "FAILED"}]
  /\ fbInputs \in [RawTxs -> SUBSET Utxos]
  /\ fbIndices \in [RawTxs -> SUBSET Indices]

FbInit ==
  /\ Init
  /\ sign = [r \in Requests |-> "no"]
  /\ raw \in [Requests -> {CHOOSE x \in RawTxs : TRUE}]
  /\ polls = [r \in Requests |-> 0]
  /\ sigs = [r \in Requests |-> {}]
  /\ fbStatus = [x \in RawTxs |-> "none"]
  /\ fbInputs = [x \in RawTxs |-> {}]
  /\ fbIndices = [x \in RawTxs |-> {}]

-----------------------------------------------------------------------------
(* What is asked of Fireblocks. *)

(* `if (ncCallerIndex)`: index 0 is falsy and counts as no caller. *)
CallerToSign(x) == {CallerOf[x]} \ {NoCaller, 0}

(* Slip: `if (data.addressIndex)` around the inputs too. *)
TruthyIndicesToSign(x, us) == ({AddressOf[u] : u \in us} \ {0}) \cup CallerToSign(x)

(* The indices of the wallet's unsigned inputs, then the caller's. *)
IndicesToSign(x, us) == {AddressOf[u] : u \in us} \cup CallerToSign(x)

(* createRawTransaction: an external id is created once; posting it again is
   refused with code 1438 and changes nothing. *)
RawTransaction(x, us) ==
  IF fbStatus[x] = "none"
    THEN /\ fbStatus' = [fbStatus EXCEPT ![x] = "PENDING"]
         /\ fbIndices' = [fbIndices EXCEPT ![x] = IndicesToSign(x, us)]
         /\ UNCHANGED fbInputs
    ELSE UNCHANGED fbVars

(* A hash stands for its inputs: equal hashes, equal inputs. *)
HashOf(x, us) == fbInputs[x] \in {{}, us}

-----------------------------------------------------------------------------
(* The signer: startClient, getTxSignatures, sendRawTransaction. *)

(* The library has chosen the inputs; it hashes them and calls the signer. *)
SigningStarts(r) ==
  /\ Prepared(r)
  /\ \E x \in RawTxs :
       /\ HashOf(x, inputs'[r])
       /\ raw' = [raw EXCEPT ![r] = x]
       /\ fbInputs' = [fbInputs EXCEPT ![x] = inputs'[r]]
  /\ sign' = [sign EXCEPT ![r] = "post"]
  /\ UNCHANGED <<polls, sigs, fbStatus, fbIndices>>

(* Created, or already submitted by an earlier signing of the same hash. *)
Posted(r) ==
  /\ sign[r] = "post"
  /\ RawTransaction(raw[r], inputs[r])
  /\ sign' = [sign EXCEPT ![r] = "poll"]
  /\ UNCHANGED <<vars, raw, polls, sigs>>

(* Slip: the catch of a rejected signing does not call unlock(). *)
SigningRejectsKeepsLock(r) ==
  /\ Respond(r, "mark", "error")
  /\ sign' = [sign EXCEPT ![r] = "no"]
  /\ UNCHANGED <<lockVars, kind, source, inputs, todo, released, utxoVars,
                 overrun, freed, raw, polls, sigs>>

(* The signer rejects, so the send fails: nothing was marked, unlock() runs. *)
SigningRejects(r) ==
  /\ Respond(r, "mark", "error")
  /\ ReleaseOnce(r)
  /\ sign' = [sign EXCEPT ![r] = "no"]
  /\ UNCHANGED <<kind, source, inputs, todo, utxoVars, overrun, freed, raw, polls, sigs>>

(* getConfig throws during a reload, or the post fails, before or after it
   reached Fireblocks. *)
PostFails(r) ==
  /\ sign[r] = "post"
  /\ SigningRejects(r)
  /\ RawTransaction(raw[r], inputs[r]) \/ UNCHANGED fbVars

(* Slip: the count starts over, so the loop has no limit. *)
PolledForEver(r) ==
  /\ sign[r] = "poll" /\ fbStatus[raw[r]] = "PENDING"
  /\ polls' = [polls EXCEPT ![r] = (@ + 1) % MaxPolls]
  /\ UNCHANGED <<vars, sign, raw, sigs, fbVars>>

(* One turn of the loop finds the transaction neither COMPLETED nor FAILED. *)
Polled(r) ==
  /\ sign[r] = "poll" /\ polls[r] < MaxPolls
  /\ fbStatus[raw[r]] = "PENDING"
  /\ polls' = [polls EXCEPT ![r] = @ + 1]
  /\ UNCHANGED <<vars, sign, raw, sigs, fbVars>>

(* The poll rejects, the loop is at its limit, Fireblocks FAILED or returned
   no, foreign or inconsistent signatures. *)
PollFails(r) ==
  /\ sign[r] = "poll"
  /\ SigningRejects(r)
  /\ UNCHANGED fbVars

(* Slip: the loop ends at COMPLETED, whatever was signed is taken. *)
SignedUnchecked(r) ==
  /\ sign[r] = "poll" /\ polls[r] < MaxPolls
  /\ fbStatus[raw[r]] = "COMPLETED"
  /\ sign' = [sign EXCEPT ![r] = "signed"]
  /\ sigs' = [sigs EXCEPT ![r] = fbIndices[raw[r]] \ {0}]
  /\ UNCHANGED <<vars, raw, polls, fbVars>>

(* Every index asked for has a signature of this hash by its own key. *)
Signed(r) ==
  /\ sign[r] = "poll" /\ polls[r] < MaxPolls
  /\ fbStatus[raw[r]] = "COMPLETED"
  /\ IndicesToSign(raw[r], inputs[r]) \subseteq fbIndices[raw[r]]
  /\ sign' = [sign EXCEPT ![r] = "signed"]
  /\ sigs' = [sigs EXCEPT ![r] = IndicesToSign(raw[r], inputs[r])]
  /\ UNCHANGED <<vars, raw, polls, fbVars>>

(* Fireblocks, and its users' approval. *)
FireblocksDecides(x) ==
  /\ fbStatus[x] = "PENDING"
  /\ \E s \in {"COMPLETED", "FAILED"} : fbStatus' = [fbStatus EXCEPT ![x] = s]
  /\ UNCHANGED <<vars, signVars, fbInputs, fbIndices>>

-----------------------------------------------------------------------------
(* The rest of a send is that of any other wallet. *)

BeforeSigning(r) ==
  \/ Busy(r) \/ Start(r)
  \/ FundsFound(r) \/ FundsMissing(r) \/ FundsThrow(r) \/ PrepareFails(r)

AfterSigning(r) ==
  \/ sign[r] = "signed" /\ (InputsMarked(r) \/ MarkFails(r))
  \/ Sent(r) \/ SendFails(r)

Marking(r) ==
  \/ MarkingStarts(r) \/ UnmarkNext(r) \/ UnmarkEnds(r)
  \/ ReserveNext(r) \/ ReserveEnds(r)

Signer(r) == Posted(r) \/ PostFails(r) \/ Polled(r) \/ PollFails(r) \/ Signed(r)

FbNext ==
  \/ \E r \in Requests : SigningStarts(r) \/ Signer(r)
  \/ \E x \in RawTxs : FireblocksDecides(x)
  \/ /\ \/ \E r \in Requests : BeforeSigning(r) \/ AfterSigning(r) \/ Marking(r)
        \/ SendLockTimesOut
        \/ \E u \in Utxos : LeaseEnds(u)
        \/ Quiet
     /\ UNCHANGED <<signVars, fbVars>>

(* Promises settle and Node runs due timers; Fireblocks owes nothing. *)
FbFairness ==
  /\ \A r \in Requests : WF_allVars(Signer(r))
  /\ WF_allVars(SendLockTimesOut /\ UNCHANGED <<signVars, fbVars>>)

FbSpec == FbInit /\ [][FbNext]_allVars /\ FbFairness

-----------------------------------------------------------------------------
(***************************************************************************)
(* Signing by Fireblocks is one way to carry out the sends of SendTx: the  *)
(* posts and polls change nothing a send without them could not, and a     *)
(* signing that fails is a send whose inputs were not marked.  Hence every *)
(* safety property of SendTx holds of Fireblocks wallets, for polls of any *)
(* length against the lock's two minutes.  (fireblocks.service.js:275)     *)
(***************************************************************************)
Sends == INSTANCE SendTx
SendsAreImplemented == Sends!Spec

(***************************************************************************)
(* No transaction goes to the network without a signature Fireblocks made  *)
(* of that very hash for each of its inputs, and for its nano contract     *)
(* caller unless that is address 0, whichever signing created the raw      *)
(* transaction and however often it was retried.                           *)
(* (fireblocks.service.js:113-173)                                         *)
(***************************************************************************)
SignedAsNeeded ==
  \A r \in Requests :
    kind[r] \in SendingKinds /\ (pc[r] = "mine" \/ answer[r] = "ok") =>
      LET x == raw[r] IN
      /\ fbStatus[x] = "COMPLETED" /\ fbInputs[x] = inputs[r]
      /\ {AddressOf[u] : u \in inputs[r]} \subseteq sigs[r] \cap fbIndices[x]
      /\ CallerOf[x] \notin {NoCaller, 0} => CallerOf[x] \in sigs[r]

(***************************************************************************)
(* A signing ends, though Fireblocks may never decide: the poll gives up.  *)
(* (fireblocks.service.js:296-305)                                         *)
(***************************************************************************)
SigningEnds == \A r \in Requests : sign[r] \in {"post", "poll"} ~> sign[r] \notin {"post", "poll"}
=============================================================================
