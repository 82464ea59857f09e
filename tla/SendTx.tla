------------------------------- MODULE SendTx -------------------------------
(***************************************************************************)
(* The requests of one wallet that choose, reserve or free UTXOs.          *)
(*                                                                         *)
(* Node runs one handler at a time; another handler, or the lock's timer,  *)
(* can run only where a handler awaits.  An action below is therefore what *)
(* a handler does between two awaits.  Every request is sent once.         *)
(*                                                                         *)
(* UTXO marks (`selected_as_input`) live in the wallet-lib's storage; the  *)
(* library chooses UTXOs that are neither marked nor spent.                *)
(***************************************************************************)
EXTENDS Lock

CONSTANTS
  Requests,  \* HTTP requests addressed to the wallet
  Utxos,     \* the wallet's unspent outputs
  KindsUsed, \* the kinds of request a behaviour contains
  SendLock   \* slot (wallet's Lock, SEND_TX)

(* A request is of one of these kinds.
   "simple"        simple-send-tx, create-token, mint, melt, create-nft, utxo
                   consolidation, nano contract, blueprint, run-template: the
                   wallet-lib chooses the inputs inside the handler's try
   "sendTx"        send-tx: prepareTxFunds runs before the try
   "push"          sign-and-push of an atomic swap or of a P2SH proposal
   "buildTemplate" tx-template/build
   "unlockInputs"  atomic-swap/tx-proposal/unlock
   "buildSwap"     POST atomic-swap/tx-proposal (no lock taken)
   "buildP2sh"     p2sh/tx-proposal and its create-token, mint, melt variants
                   (no lock taken)
   "markInputs", "leaseInputs", "unmarkInputs"
                   PUT utxos-selected-as-input that marks, marks with a ttl,
                   or unmarks (no lock taken)                               *)
LockingKinds == {"simple", "sendTx", "push", "buildTemplate", "unlockInputs"}
SendingKinds == {"simple", "sendTx", "push"}
BuildingKinds == {"buildSwap", "buildP2sh"}
MarkingKinds == {"markInputs", "leaseInputs", "unmarkInputs"}
Kinds == LockingKinds \cup BuildingKinds \cup MarkingKinds

ASSUME SendTxAssumption == SendLock \in Slots /\ KindsUsed \subseteq Kinds

VARIABLES
  kind,     \* kind[r]
  pc,       \* where the handler of r awaits
  answer,   \* what r was answered
  source,   \* who chose the inputs of r: the wallet or the caller
  inputs,   \* the UTXOs r spends, proposes or (un)marks
  todo,     \* UTXOs a marking loop of r has still to visit
  released, \* lockReleased of the closure lockSendTx gave to r
  marked,   \* UTXOs marked selected_as_input
  leased,   \* the marks that have a time to live
  spent,    \* UTXOs spent by a transaction the network accepted
  overrun,  \* history: requests that worked on past the lock's timer
  freed     \* history: UTXOs unmarked while another request relied on them

reqVars == <<kind, pc, answer, source, inputs, todo, released>>
utxoVars == <<marked, leased, spent>>
vars == <<lockVars, reqVars, utxoVars, overrun, freed>>

PC == {"idle", "funds", "prepare", "mark", "mine", "unmark", "choose", "reserve", "done"}
Answers == {"none", "ok", "error", "busy", "crash"}

TypeOK ==
  /\ LockTypeOK
  /\ kind \in [Requests -> Kinds]
  /\ pc \in [Requests -> PC]
  /\ answer \in [Requests -> Answers]
  /\ source \in [Requests -> {"nobody", "wallet", "caller"}]
  /\ inputs \in [Requests -> SUBSET Utxos]
  /\ todo \in [Requests -> SUBSET Utxos]
  /\ released \in [Requests -> BOOLEAN]
  /\ marked \subseteq Utxos /\ leased \subseteq marked /\ spent \subseteq Utxos
  /\ overrun \subseteq Requests /\ freed \subseteq Utxos

Init ==
  /\ LockInit
  /\ kind \in [Requests -> KindsUsed]
  /\ pc = [r \in Requests |-> "idle"]
  /\ answer = [r \in Requests |-> "none"]
  /\ source = [r \in Requests |-> "nobody"]
  /\ inputs = [r \in Requests |-> {}]
  /\ todo = [r \in Requests |-> {}]
  /\ released = [r \in Requests |-> FALSE]
  /\ marked = {} /\ leased = {} /\ spent = {}
  /\ overrun = {} /\ freed = {}

-----------------------------------------------------------------------------
(* Control helpers. *)

Goto(r, from, to) == pc[r] = from /\ pc' = [pc EXCEPT ![r] = to]

Respond(r, from, a) ==
  Goto(r, from, "done") /\ answer' = [answer EXCEPT ![r] = a]

(* Slip: the closure has no lockReleased guard. *)
ReleaseAlways(r) ==
  Unlock(SendLock) /\ released' = [released EXCEPT ![r] = TRUE]

(* The closure of lockSendTx: the first call frees the lock, others do nothing. *)
ReleaseOnce(r) ==
  IF released[r]
    THEN UNCHANGED <<lockVars, released>>
    ELSE Unlock(SendLock) /\ released' = [released EXCEPT ![r] = TRUE]

(* Requests between a successful lock() and their own unlock(). *)
InSection == {r \in Requests : /\ kind[r] \in LockingKinds
                               /\ pc[r] \in {"funds", "prepare", "mark", "unmark"}}

(* The UTXOs getUtxos and the library's selection may return. *)
Available == Utxos \ (marked \cup spent)

(* r has chosen inputs for a transaction that may still reach the network. *)
InFlight(r) ==
  /\ kind[r] \in SendingKinds
  /\ pc[r] \in {"mark", "mine"} \/ answer[r] = "ok"

(* A proposal given to its author with its inputs reserved. *)
Proposed(r) == kind[r] \in BuildingKinds /\ answer[r] = "ok"

(* One of the requests qs counts on the mark of u. *)
ReliedOn(u, qs) ==
  \E q \in qs :
    /\ u \in inputs[q]
    /\ InFlight(q) \/ Proposed(q) \/ (kind[q] \in BuildingKinds /\ pc[q] = "reserve")

(* Marks of us are set or cleared, by r or by the library on r's behalf. *)
MarkUtxos(us, withTtl) ==
  /\ marked' = marked \cup us
  /\ leased' = IF withTtl THEN leased \cup us ELSE leased \ us

UnmarkUtxos(r, us) ==
  /\ marked' = marked \ us
  /\ leased' = leased \ us
  /\ freed' = freed \cup {u \in us \cap marked : ReliedOn(u, Requests \ {r})}

Choose(r, who, us) ==
  /\ inputs' = [inputs EXCEPT ![r] = us]
  /\ source' = [source EXCEPT ![r] = who]

-----------------------------------------------------------------------------
(* Taking the lock: the first synchronous stretch of every locking handler. *)

(* lock() returned false: "another transaction is already being sent". *)
Busy(r) ==
  /\ kind[r] \in LockingKinds
  /\ LockRefused(SendLock)
  /\ Respond(r, "idle", "busy")
  /\ UNCHANGED <<kind, source, inputs, todo, released, utxoVars, overrun, freed>>

Start(r) ==
  /\ kind[r] \in LockingKinds \ {"unlockInputs"}
  /\ LockTaken(SendLock)
  /\ Goto(r, "idle", IF kind[r] = "sendTx" THEN "funds" ELSE "prepare")
  /\ UNCHANGED <<kind, answer, source, inputs, todo, released, utxoVars, overrun, freed>>

-----------------------------------------------------------------------------
(* send-tx only: `await prepareTxFunds(...)`, before the handler's try. *)

(* inputs are a query: getUtxosToFillTx picks available UTXOs; inputs are
   explicit: taken as they are; no inputs: left to the wallet-lib. *)
FundsFound(r) ==
  /\ Goto(r, "funds", "prepare")
  /\ \/ \E us \in (SUBSET Available) \ {{}} : Choose(r, "wallet", us)
     \/ \E us \in (SUBSET Utxos) \ {{}} : Choose(r, "caller", us)
     \/ UNCHANGED <<source, inputs>>
  /\ UNCHANGED <<lockVars, kind, answer, todo, released, utxoVars, overrun, freed>>

(* "No utxos available for the query filter for this amount." *)
FundsMissing(r) ==
  /\ Respond(r, "funds", "error")
  /\ ReleaseOnce(r)
  /\ UNCHANGED <<kind, source, inputs, todo, utxoVars, overrun, freed>>

(* prepareTxFunds rejects (wallet.getUtxos failed): the rejection leaves the
   handler, the patched router hands it to Express, nobody calls unlock(). *)
FundsThrow(r) ==
  /\ Respond(r, "funds", "crash")
  /\ UNCHANGED <<lockVars, kind, source, inputs, todo, released, utxoVars, overrun, freed>>

-----------------------------------------------------------------------------
(* Inside the try: build the transaction, mark its inputs, release, mine. *)

(* The wallet-lib's transaction builders, sendTx.prepareTx() of
   runSendTransaction, and the assembly of a caller's transaction. *)
Prepared(r) ==
  /\ kind[r] \in SendingKinds
  /\ Goto(r, "prepare", "mark")
  /\ IF kind[r] = "push" THEN \E us \in (SUBSET Utxos) \ {{}} : Choose(r, "caller", us)
     ELSE IF inputs[r] = {} THEN \E us \in (SUBSET Available) \ {{}} : Choose(r, "wallet", us)
     ELSE inputs[r] \cap spent = {} /\ UNCHANGED <<source, inputs>>
  /\ UNCHANGED <<lockVars, kind, answer, todo, released, utxoVars, overrun, freed>>

(* Slip: the catch of the builder's error does not call unlock(). *)
PrepareFailsKeepsLock(r) ==
  /\ Respond(r, "prepare", "error")
  /\ UNCHANGED <<lockVars, kind, source, inputs, todo, released, utxoVars, overrun, freed>>

(* Building threw: the catch (or runSendTransaction's finally) releases. *)
PrepareFails(r) ==
  /\ Respond(r, "prepare", "error")
  /\ ReleaseOnce(r)
  /\ UNCHANGED <<kind, source, inputs, todo, utxoVars, overrun, freed>>

(* tx-template/build answers the hex and releases; it marks nothing. *)
TemplateBuilt(r) ==
  /\ kind[r] = "buildTemplate"
  /\ Respond(r, "prepare", "ok")
  /\ ReleaseOnce(r)
  /\ UNCHANGED <<kind, source, inputs, todo, utxoVars, overrun, freed>>

(* Slip: runSendTransaction releases the lock without marking the inputs. *)
InputsNotMarked(r) ==
  /\ Goto(r, "mark", "mine")
  /\ ReleaseOnce(r)
  /\ UNCHANGED <<kind, answer, source, inputs, todo, utxoVars, overrun, freed>>

(* `await updateOutputSelected(true)`, then runSendTransaction's finally. *)
InputsMarked(r) ==
  /\ Goto(r, "mark", "mine")
  /\ MarkUtxos(inputs[r], FALSE)
  /\ ReleaseOnce(r)
  /\ UNCHANGED <<kind, answer, source, inputs, todo, spent, overrun, freed>>

(* updateOutputSelected rejects after some inputs were marked. *)
MarkFails(r) ==
  /\ Respond(r, "mark", "error")
  /\ \E us \in SUBSET inputs[r] : us # inputs[r] /\ MarkUtxos(us, FALSE)
  /\ ReleaseOnce(r)
  /\ UNCHANGED <<kind, source, inputs, todo, spent, overrun, freed>>

(* runFromMining resolves: the network accepted the transaction. *)
Sent(r) ==
  /\ Respond(r, "mine", "ok")
  /\ inputs[r] \cap spent = {}
  /\ spent' = spent \cup inputs[r]
  /\ UNCHANGED <<lockVars, kind, source, inputs, todo, released, marked, leased, overrun, freed>>

(* runFromMining rejects; the wallet-lib may clear the marks it set; the catch
   calls unlock() a second time, after the lock may have gone to another. *)
SendFails(r) ==
  /\ Respond(r, "mine", "error")
  /\ UnmarkUtxos(r, inputs[r]) \/ UNCHANGED <<marked, leased, freed>>
  /\ ReleaseOnce(r)
  /\ UNCHANGED <<kind, source, inputs, todo, spent, overrun>>

-----------------------------------------------------------------------------
(* Marking loops: unlockInputs, markUtxosSelectedAsInput and addSend visit
   the UTXOs one by one, awaiting the storage each time. *)

(* unlockInputs takes the lock and starts clearing the partial tx's inputs. *)
UnlockInputsStarts(r) ==
  /\ kind[r] = "unlockInputs"
  /\ LockTaken(SendLock)
  /\ Goto(r, "idle", "unmark")
  /\ \E us \in (SUBSET Utxos) \ {{}} : Choose(r, "caller", us) /\ todo' = [todo EXCEPT ![r] = us]
  /\ UNCHANGED <<kind, answer, released, utxoVars, overrun, freed>>

(* utxosSelectedAsInput: same loop, without the lock. *)
MarkingStarts(r) ==
  /\ kind[r] \in MarkingKinds
  /\ Goto(r, "idle", IF kind[r] = "unmarkInputs" THEN "unmark" ELSE "reserve")
  /\ \E us \in (SUBSET Utxos) \ {{}} : Choose(r, "caller", us) /\ todo' = [todo EXCEPT ![r] = us]
  /\ UNCHANGED <<lockVars, kind, answer, released, utxoVars, overrun, freed>>

UnmarkNext(r) ==
  /\ pc[r] = "unmark"
  /\ \E u \in todo[r] : UnmarkUtxos(r, {u}) /\ todo' = [todo EXCEPT ![r] = @ \ {u}]
  /\ UNCHANGED <<lockVars, kind, pc, answer, source, inputs, released, spent, overrun>>

(* The loop ends or throws; unlockInputs' finally frees the wallet's lock. *)
UnmarkEnds(r) ==
  /\ Respond(r, "unmark", IF todo[r] = {} THEN "ok" ELSE "error")
  /\ IF kind[r] = "unlockInputs" THEN Unlock(SendLock) ELSE UNCHANGED lockVars
  /\ UNCHANGED <<kind, source, inputs, todo, released, utxoVars, overrun, freed>>

ReserveNext(r) ==
  /\ pc[r] = "reserve"
  /\ \E u \in todo[r] : /\ MarkUtxos({u}, kind[r] = "leaseInputs")
                        /\ todo' = [todo EXCEPT ![r] = @ \ {u}]
  /\ UNCHANGED <<lockVars, kind, pc, answer, source, inputs, released, spent, overrun, freed>>

(* Slip: the marking loop is not awaited before the answer. *)
ReserveEndsEarly(r) ==
  /\ Respond(r, "reserve", "ok")
  /\ UNCHANGED <<lockVars, kind, source, inputs, todo, released, utxoVars, overrun, freed>>

(* All marked: answered, unless a later call (swap service, serialisation)
   rejects; or a marking rejects half-way.  The marks already set stay. *)
ReserveEnds(r) ==
  /\ \/ todo[r] = {} /\ Respond(r, "reserve", "ok")
     \/ Respond(r, "reserve", "error")
  /\ UNCHANGED <<lockVars, kind, source, inputs, todo, released, utxoVars, overrun, freed>>

-----------------------------------------------------------------------------
(* Building an atomic-swap or P2SH proposal: no lock. *)

BuildStarts(r) ==
  /\ kind[r] \in BuildingKinds
  /\ Goto(r, "idle", "choose")
  /\ UNCHANGED <<lockVars, kind, answer, source, inputs, todo, released, utxoVars, overrun, freed>>

(* addSend / prepareTxData choose, or the caller's inputs are taken: a swap
   checks them with canUseUtxo, a P2SH proposal does not. *)
ProposalChooses(r) ==
  /\ Goto(r, "choose", "reserve")
  /\ \/ \E us \in (SUBSET Available) \ {{}} : Choose(r, "wallet", us) /\ todo' = [todo EXCEPT ![r] = us]
     \/ \E us \in (SUBSET Utxos) \ {{}} :
          /\ kind[r] = "buildSwap" => us \subseteq Available
          /\ Choose(r, "caller", us) /\ todo' = [todo EXCEPT ![r] = us]
  /\ UNCHANGED <<lockVars, kind, answer, released, utxoVars, overrun, freed>>

(* lock: false / mark_inputs_as_used: false, or nothing could be chosen. *)
ProposalUnreserved(r) ==
  /\ Respond(r, "choose", "ok") \/ Respond(r, "choose", "error")
  /\ UNCHANGED <<lockVars, kind, source, inputs, todo, released, utxoVars, overrun, freed>>

-----------------------------------------------------------------------------
(* The environment. *)

(* The two minutes are over; whoever is in the section works on unprotected. *)
SendLockTimesOut ==
  /\ TimerFires(SendLock)
  /\ overrun' = overrun \cup InSection
  /\ UNCHANGED <<reqVars, utxoVars, freed>>

(* The ttl of a mark is over. *)
LeaseEnds(u) ==
  /\ u \in leased
  /\ marked' = marked \ {u} /\ leased' = leased \ {u}
  /\ freed' = freed \cup {v \in {u} : ReliedOn(v, Requests)}
  /\ UNCHANGED <<lockVars, reqVars, spent, overrun>>

Handler(r) ==
  \/ Busy(r) \/ Start(r)
  \/ FundsFound(r) \/ FundsMissing(r) \/ FundsThrow(r)
  \/ Prepared(r) \/ PrepareFails(r) \/ TemplateBuilt(r)
  \/ InputsMarked(r) \/ MarkFails(r) \/ Sent(r) \/ SendFails(r)
  \/ UnlockInputsStarts(r) \/ MarkingStarts(r)
  \/ UnmarkNext(r) \/ UnmarkEnds(r) \/ ReserveNext(r) \/ ReserveEnds(r)
  \/ BuildStarts(r) \/ ProposalChooses(r) \/ ProposalUnreserved(r)

(* All requests answered and all timers gone: nothing is left to happen. *)
Quiet ==
  /\ \A r \in Requests : pc[r] = "done"
  /\ pending[SendLock] = {}
  /\ UNCHANGED vars

Next ==
  \/ \E r \in Requests : Handler(r)
  \/ SendLockTimesOut
  \/ \E u \in Utxos : LeaseEnds(u)
  \/ Quiet

Spec == Init /\ [][Next]_vars

-----------------------------------------------------------------------------
(* Safety. *)

(***************************************************************************)
(* As long as no handler outlived the lock's two minutes, at most one      *)
(* request of the wallet is between taking the lock and releasing it,      *)
(* whatever fails, and although a failed send calls unlock() again after   *)
(* the lock has gone to somebody else (lock.helper.js:38-44).              *)
(***************************************************************************)
MutualExclusion ==
  overrun = {} => \A r, q \in InSection : r = q

(***************************************************************************)
(* Two sends whose inputs the wallet chose never share an input, although  *)
(* the lock is released before either transaction is mined: the marks      *)
(* carry the exclusion on.  The two ways out are a handler that outlived   *)
(* the lock and a mark somebody cleared while the UTXO was relied on.      *)
(* (tx.helper.js:272-284)                                                  *)
(***************************************************************************)
NoDoubleSelection ==
  overrun = {} =>
    \A r, q \in Requests :
      /\ r # q
      /\ InFlight(r) /\ source[r] = "wallet"
      /\ InFlight(q) /\ source[q] = "wallet"
      => inputs[r] \cap inputs[q] \subseteq freed

(***************************************************************************)
(* A request is refused for good reason: the lock is taken only while some *)
(* handler is in the section, or after a send-tx whose prepareTxFunds      *)
(* rejected.  No other failure path leaves the lock taken.                 *)
(***************************************************************************)
LockTakenOnlyForWork ==
  lockStatus[SendLock] =>
    InSection # {} \/ \E r \in Requests : answer[r] = "crash"

(***************************************************************************)
(* The UTXOs of a proposal handed out with its inputs reserved stay        *)
(* reserved until they are spent or somebody clears a mark: "so that the   *)
(* proposal stays valid, even if the wallet is used for sending tokens"    *)
(* (docs/atomic-swaps.md).  A failed send of the same UTXO counts as       *)
(* somebody: it clears marks it does not own.                              *)
(***************************************************************************)
ProposalStaysReserved ==
  \A r \in Requests : Proposed(r) => inputs[r] \subseteq marked \cup spent \cup freed

=============================================================================
