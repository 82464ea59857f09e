---------------------------- MODULE SwapProposals ----------------------------
(***************************************************************************)
(* Atomic-swap proposals shared through the swap service, with the service *)
(* enabled (controllers/wallet/atomic-swap/tx-proposal.controller.js and   *)
(* services/atomic-swap.service.js).                                       *)
(*                                                                         *)
(* A handler checks the wallet's listened map, calls the service, awaits,  *)
(* and acts on the answer; meanwhile other handlers, other participants    *)
(* and a stop of the wallet act.  What reserving inputs does is in SendTx. *)
(* The service and the network to it are external.                         *)
(***************************************************************************)
EXTENDS Lock, Sequences

CONSTANTS
  Requests, Wallets, Proposals,
  Passwords,  \* of at least three characters
  NoPassword, \* none given, or too short a one
  Outsider,   \* a participant using another client
  MaxVersion, \* bound on the updates of one proposal
  Mixes       \* the kinds the requests of a behaviour have

(* "create"    POST tx-proposal with service.is_new
   "update"    POST tx-proposal with service.proposal_id, and /sign with one
   "fetch", "register", "delete"   the routes of those names
   "push"      sign-and-push
   "unlock"    tx-proposal/unlock                                            *)
Kinds == {"create", "update", "fetch", "register", "delete", "push", "unlock"}
Updates == {"create", "update"}

ASSUME SwapAssumption ==
  /\ NoPassword \notin Passwords /\ Outsider \notin Requests
  /\ Proposals # {} /\ Slots # {}
  /\ \E f \in [Wallets -> Slots] : \A w, v \in Wallets : w # v => f[w] # f[v]
  /\ Mixes \subseteq [Requests -> Kinds] /\ MaxVersion \in Nat

VARIABLES
  kind, pc, answer, \* of each request
  wal, pid,         \* wal[r], pid[r]: the wallet and the proposal r is about
  pw,               \* pw[r]: the password r sends to the service
  ver,              \* ver[r]: the version r updates
  reply,            \* reply[r]: how the call r awaits ended
  slot,             \* slot[r]: the Lock r locked
  listened,         \* walletListenedProposals: listened[w][p] is a password
  lockOf,           \* lockOf[w]: the Lock getWalletLock(w) returns
  history,          \* the service's history[p]: who wrote each version of p
  secret,           \* the service's secret[p]: the password of p
  gone,             \* proposals the service has dropped
  overrun,          \* history: requests that worked on past their lock's timer
  crossed           \* history: Locks freed by a request that did not hold them

requestVars == <<kind, pc, answer, wal, pid, pw, ver, reply, slot>>
serviceVars == <<history, secret, gone>>
vars == <<lockVars, requestVars, listened, lockOf, serviceVars, overrun, crossed>>

Replies == {"none", "ok", "missing", "refused", "lost"}

TypeOK ==
  /\ LockTypeOK
  /\ kind \in [Requests -> Kinds]
  /\ pc \in [Requests -> {"idle", "calling", "back", "section", "done"}]
  /\ answer \in [Requests -> {"none", "ok", "failed", "notFound", "busy", "crash"}]
  /\ wal \in [Requests -> Wallets] /\ pid \in [Requests -> Proposals]
  /\ pw \in [Requests -> Passwords \cup {NoPassword}]
  /\ ver \in [Requests -> 0 .. MaxVersion]
  /\ reply \in [Requests -> Replies] /\ slot \in [Requests -> Slots]
  /\ listened \in [Wallets -> [Proposals -> Passwords \cup {NoPassword}]]
  /\ lockOf \in [Wallets -> Slots]
  /\ \A p \in Proposals : history[p] \in Seq(Requests \cup {Outsider})
  /\ secret \in [Proposals -> Passwords \cup {NoPassword}]
  /\ \A r \in Requests : pc[r] = "calling" => pw[r] # NoPassword
  /\ \A r \in Requests : reply[r] # "none" <=> pc[r] = "back"
  /\ gone \subseteq Proposals /\ overrun \subseteq Requests /\ crossed \subseteq Slots

Init ==
  /\ LockInit
  /\ kind \in Mixes
  /\ pc = [r \in Requests |-> "idle"]
  /\ answer = [r \in Requests |-> "none"]
  /\ wal \in [Requests -> Wallets]
  /\ pid \in [Requests -> {CHOOSE p \in Proposals : TRUE}]
  /\ pw = [r \in Requests |-> NoPassword]
  /\ ver = [r \in Requests |-> 0]
  /\ reply = [r \in Requests |-> "none"]
  /\ slot \in [Requests -> {CHOOSE l \in Slots : TRUE}]
  /\ listened = [w \in Wallets |-> [p \in Proposals |-> NoPassword]]
  /\ lockOf = CHOOSE f \in [Wallets -> Slots] :
                \A w, v \in Wallets : w # v => f[w] # f[v]
  /\ history = [p \in Proposals |-> << >>]
  /\ secret = [p \in Proposals |-> NoPassword]
  /\ gone = {} /\ overrun = {} /\ crossed = {}

-----------------------------------------------------------------------------
(* Control helpers. *)

Respond(r, from, a) ==
  /\ pc[r] = from /\ pc' = [pc EXCEPT ![r] = "done"]
  /\ answer' = [answer EXCEPT ![r] = a]

Call(r, p, password, v) ==
  /\ pc[r] = "idle" /\ pc' = [pc EXCEPT ![r] = "calling"]
  /\ pid' = [pid EXCEPT ![r] = p]
  /\ pw' = [pw EXCEPT ![r] = password]
  /\ ver' = [ver EXCEPT ![r] = v]
  /\ UNCHANGED <<kind, answer, wal, reply, slot>>

(* listenedProposals.has(p) *)
Listens(w, p) == listened[w][p] # NoPassword

Listen(w, p, password) == listened' = [listened EXCEPT ![w][p] = password]
Forget(w, p) == Listen(w, p, NoPassword)

(* Everything that is not about the locks. *)
Elsewhere == UNCHANGED <<lockVars, lockOf, overrun, crossed>>

AnswersNow(r, a) ==
  /\ Respond(r, "idle", a)
  /\ UNCHANGED <<kind, wal, pid, pw, ver, reply, slot, listened, serviceVars>>
  /\ Elsewhere

-----------------------------------------------------------------------------
(* Up to the call of the service. *)

(* serviceCreate: the id is the one the service is going to give. *)
CreateCalls(r) ==
  /\ kind[r] = "create"
  /\ \E p \in Proposals, w \in Passwords :
       /\ history[p] = << >> /\ \A q \in Requests : kind[q] = "create" => pid[q] # p \/ pc[q] = "idle"
       /\ Call(r, p, w, 0)
  /\ UNCHANGED <<listened, serviceVars>> /\ Elsewhere

(* No password or one of less than three characters; an update of no partial tx. *)
CallRefused(r) == kind[r] \in Updates \cup {"register"} /\ AnswersNow(r, "failed")

(* An update or a fetch of a proposal the wallet does not listen to. *)
NotRegistered(r) ==
  /\ kind[r] \in {"update", "fetch"}
  /\ \E p \in Proposals : ~Listens(wal[r], p)
  /\ AnswersNow(r, "notFound")

(* serviceUpdate and serviceGet, with the password the wallet registered; the
   version of an update is one its author may have seen. *)
ListedCalls(r) ==
  /\ kind[r] \in {"update", "fetch"}
  /\ \E p \in Proposals : \E v \in 0 .. Len(history[p]) :
       /\ Listens(wal[r], p) /\ (kind[r] = "fetch" => v = 0)
       /\ Call(r, p, listened[wal[r]][p], v)
  /\ UNCHANGED <<listened, serviceVars>> /\ Elsewhere

(* Already listened to: the given password is compared with the stored one. *)
RegisteredBefore(r) ==
  /\ kind[r] = "register"
  /\ \E p \in Proposals, w \in Passwords \cup {NoPassword} :
       /\ Listens(wal[r], p)
       /\ AnswersNow(r, IF w = listened[wal[r]][p] THEN "ok" ELSE "failed")

(* Slip: the proposal is listened to before the service has checked it. *)
RegisterCallsListening(r) ==
  /\ kind[r] = "register"
  /\ \E p \in Proposals, w \in Passwords :
       ~Listens(wal[r], p) /\ Call(r, p, w, 0) /\ Listen(wal[r], p, w)
  /\ UNCHANGED serviceVars /\ Elsewhere

(* Slip: serviceGet does not insist on a password. *)
RegisterCallsBare(r) ==
  /\ kind[r] = "register"
  /\ \E p \in Proposals, w \in Passwords \cup {NoPassword} :
       ~Listens(wal[r], p) /\ Call(r, p, w, 0)
  /\ UNCHANGED <<listened, serviceVars>> /\ Elsewhere

(* serviceGet, with the password the caller gave. *)
RegisterCalls(r) ==
  /\ kind[r] = "register"
  /\ \E p \in Proposals, w \in Passwords : ~Listens(wal[r], p) /\ Call(r, p, w, 0)
  /\ UNCHANGED <<listened, serviceVars>> /\ Elsewhere

(* deleteListenedProposal *)
Deleted(r) ==
  /\ kind[r] = "delete"
  /\ Respond(r, "idle", "ok")
  /\ \E p \in Proposals : Forget(wal[r], p)
  /\ UNCHANGED <<kind, wal, pid, pw, ver, reply, slot, serviceVars>> /\ Elsewhere

-----------------------------------------------------------------------------
(* The service and the network. *)

(* How the service answers r; an update takes the version it names. *)
Verdict(r) ==
  LET p == pid[r] IN
  IF kind[r] = "create" THEN IF history[p] = << >> THEN "ok" ELSE "refused"
  ELSE IF history[p] = << >> \/ p \in gone THEN "missing"
  ELSE IF pw[r] # secret[p] THEN "refused"
  ELSE IF kind[r] = "update" /\ ver[r] # Len(history[p]) THEN "refused"
  ELSE "ok"

(* The service serves the call; its answer may be lost on the way. *)
Served(r) ==
  /\ pc[r] = "calling" /\ pc' = [pc EXCEPT ![r] = "back"]
  /\ IF kind[r] \in Updates /\ Verdict(r) = "ok"
       THEN /\ \E a \in {"ok", "lost"} : reply' = [reply EXCEPT ![r] = a]
            /\ Len(history[pid[r]]) < MaxVersion
            /\ history' = [history EXCEPT ![pid[r]] = Append(@, r)]
            /\ secret' = [secret EXCEPT ![pid[r]] = pw[r]]
       ELSE /\ reply' = [reply EXCEPT ![r] = Verdict(r)]
            /\ UNCHANGED <<history, secret>>
  /\ UNCHANGED <<kind, answer, wal, pid, pw, ver, slot, listened, gone>> /\ Elsewhere

(* The call does not reach the service. *)
CallLost(r) ==
  /\ pc[r] = "calling" /\ pc' = [pc EXCEPT ![r] = "back"]
  /\ reply' = [reply EXCEPT ![r] = "lost"]
  /\ UNCHANGED <<kind, answer, wal, pid, pw, ver, slot, listened, serviceVars>> /\ Elsewhere

(* Somebody else creates a proposal, or updates one. *)
OutsiderWrites(p) ==
  /\ p \notin gone /\ Len(history[p]) < MaxVersion
  /\ history[p] = << >> => \A q \in Requests : kind[q] = "create" => pid[q] # p \/ pc[q] = "idle"
  /\ history' = [history EXCEPT ![p] = Append(@, Outsider)]
  /\ IF history[p] = << >>
       THEN \E w \in Passwords : secret' = [secret EXCEPT ![p] = w]
       ELSE UNCHANGED secret
  /\ UNCHANGED <<requestVars, listened, gone>> /\ Elsewhere

ServiceDrops(p) ==
  /\ history[p] # << >> /\ p \notin gone /\ gone' = gone \cup {p}
  /\ UNCHANGED <<requestVars, listened, history, secret>> /\ Elsewhere

-----------------------------------------------------------------------------
(* After the call. *)

(* The answer, after which only what an update was about is of interest. *)
Settles(r, a) ==
  /\ Respond(r, "back", a)
  /\ reply' = [reply EXCEPT ![r] = "none"]
  /\ IF kind[r] \in Updates THEN UNCHANGED pw ELSE pw' = [pw EXCEPT ![r] = NoPassword]
  /\ UNCHANGED <<kind, wal, pid, ver, slot, serviceVars>> /\ Elsewhere

(* Slip: `success` of the update is not looked at. *)
UpdateEndsUnchecked(r) ==
  kind[r] = "update" /\ Settles(r, "ok") /\ UNCHANGED listened

(* serviceUpdate throws unless the service accepted the update. *)
UpdateEnds(r) ==
  /\ kind[r] = "update"
  /\ Settles(r, IF reply[r] = "ok" THEN "ok" ELSE "failed")
  /\ UNCHANGED listened

(* A created proposal is listened to, a registered one too, once the service
   has accepted the password; by the id of the wallet, whatever became of it. *)
CreateOrRegisterEnds(r) ==
  /\ kind[r] \in {"create", "register"}
  /\ \/ reply[r] = "ok" /\ Settles(r, "ok") /\ Listen(wal[r], pid[r], pw[r])
     \/ reply[r] # "ok" /\ Settles(r, "failed") /\ UNCHANGED listened

(* Slip: any failed fetch makes the wallet forget the proposal. *)
FetchEndsForgetting(r) ==
  /\ kind[r] = "fetch"
  /\ \/ reply[r] = "ok" /\ Settles(r, "ok") /\ UNCHANGED listened
     \/ reply[r] # "ok" /\ Settles(r, "notFound") /\ Forget(wal[r], pid[r])

(* Slip: the TypeError of a lost call is caught by nobody. *)
FetchEndsUnanswered(r) ==
  /\ kind[r] = "fetch"
  /\ \/ reply[r] = "ok" /\ Settles(r, "ok") /\ UNCHANGED listened
     \/ reply[r] = "missing" /\ Settles(r, "notFound") /\ Forget(wal[r], pid[r])
     \/ reply[r] = "refused" /\ Settles(r, "failed") /\ UNCHANGED listened

(* A 404 of the service makes the wallet forget the proposal; a call without
   an answer makes `err.response.status` throw, which the patched router hands
   to the final error handler. *)
FetchEnds(r) ==
  /\ kind[r] = "fetch"
  /\ \/ reply[r] = "ok" /\ Settles(r, "ok") /\ UNCHANGED listened
     \/ reply[r] = "missing" /\ Settles(r, "notFound") /\ Forget(wal[r], pid[r])
     \/ reply[r] = "refused" /\ Settles(r, "failed") /\ UNCHANGED listened
     \/ reply[r] = "lost" /\ Settles(r, "crash") /\ UNCHANGED listened

-----------------------------------------------------------------------------
(* The two handlers that take the wallet's lock. *)

Locking == {"push", "unlock"}

LockBusy(r) == kind[r] \in Locking /\ LockRefused(lockOf[wal[r]]) /\ AnswersNow(r, "busy")

SectionBegins(r) ==
  /\ kind[r] \in Locking /\ pc[r] = "idle"
  /\ LockTaken(lockOf[wal[r]])
  /\ pc' = [pc EXCEPT ![r] = "section"]
  /\ slot' = [slot EXCEPT ![r] = lockOf[wal[r]]]
  /\ UNCHANGED <<kind, answer, wal, pid, pw, ver, reply, listened, lockOf, serviceVars,
                 overrun, crossed>>

(* The requests that hold, or think they hold, a Lock. *)
Inside(l) == {r \in Requests : pc[r] = "section" /\ slot[r] = l}

SectionEnds(r, l) ==
  /\ Unlock(l)
  /\ \E a \in {"ok", "failed"} : Respond(r, "section", a)
  /\ crossed' = IF l = slot[r] /\ r \notin overrun THEN crossed ELSE crossed \cup {l}
  /\ UNCHANGED <<kind, wal, pid, pw, ver, reply, slot, listened, lockOf, serviceVars, overrun>>

(* Slip: the closure of lockSendTx looks the wallet's Lock up again. *)
PushReleasesAnew(r) ==
  /\ kind[r] = "push"
  /\ Unlock(lockOf[wal[r]])
  /\ \E a \in {"ok", "failed"} : Respond(r, "section", a)
  /\ UNCHANGED <<kind, wal, pid, pw, ver, reply, slot, listened, lockOf, serviceVars,
                 overrun, crossed>>

(* runSendTransaction, or the catch, frees the Lock lockSendTx captured. *)
PushReleases(r) == kind[r] = "push" /\ SectionEnds(r, slot[r])

(* The `finally` of unlockInputs frees the Lock the id has now. *)
UnlockReleases(r) == kind[r] = "unlock" /\ SectionEnds(r, lockOf[wal[r]])

LockTimesOut(l) ==
  /\ TimerFires(l)
  /\ overrun' = overrun \cup Inside(l)
  /\ UNCHANGED <<requestVars, listened, lockOf, serviceVars, crossed>>

(* stop: the wallet's proposals and its Lock are discarded; a wallet started
   under the same id gets new ones. *)
WalletRestarts(w) ==
  /\ listened' = [listened EXCEPT ![w] = [p \in Proposals |-> NoPassword]]
  /\ \E l \in Slots :
       /\ \A v \in Wallets : lockOf[v] # l
       /\ ~lockStatus[l] /\ Inside(l) = {}
       /\ lockOf' = [lockOf EXCEPT ![w] = l]
  /\ UNCHANGED <<lockVars, requestVars, serviceVars, overrun, crossed>>

-----------------------------------------------------------------------------
Handler(r) ==
  \/ CreateCalls(r) \/ CallRefused(r) \/ NotRegistered(r) \/ ListedCalls(r)
  \/ RegisteredBefore(r) \/ RegisterCalls(r) \/ Deleted(r)
  \/ UpdateEnds(r) \/ CreateOrRegisterEnds(r) \/ FetchEnds(r)
  \/ LockBusy(r) \/ SectionBegins(r) \/ PushReleases(r) \/ UnlockReleases(r)

Next ==
  \/ \E r \in Requests : Handler(r) \/ Served(r) \/ CallLost(r)
  \/ \E p \in Proposals : OutsiderWrites(p) \/ ServiceDrops(p)
  \/ \E l \in Slots : LockTimesOut(l)
  \/ \E w \in Wallets : WalletRestarts(w)

(* Node serves what is due, and axios reports a call that was not served. *)
Fairness == WF_vars(\E r \in Requests : pc[r] # "idle" /\ (Handler(r) \/ CallLost(r)))

Spec == Init /\ [][Next]_vars /\ Fairness

-----------------------------------------------------------------------------
(* What the participants are promised. *)

outcome == [r \in Requests |-> CASE answer[r] = "none" -> "none"
                                 [] answer[r] = "ok" -> "ok"
                                 [] OTHER -> "failed"]
Unasked == <<>>
asked == [r \in Requests |->
            IF kind[r] \in Updates /\ pw[r] # NoPassword THEN <<pid[r], ver[r]>> ELSE Unasked]

(***************************************************************************)
(* The wallets' use of the service implements a versioned register: an     *)
(* update answered with success has taken effect, on the version its       *)
(* author named, and so on top of everything the author had seen, although *)
(* calls and answers get lost, two participants update one version and a   *)
(* wallet stops meanwhile.  (atomic-swap.service.js:89-102)                *)
(***************************************************************************)
Register == INSTANCE VersionedProposals WITH
  history <- history, asked <- asked, outcome <- outcome
RegisterImplemented == Register!RegisterSpec

(***************************************************************************)
(* A password is listened to only after the service accepted it for that   *)
(* proposal: later calls cannot be refused because of it.                  *)
(* (tx-proposal.controller.js:469-477, atomic-swap.service.js:69-75)       *)
(***************************************************************************)
ListenedPasswordIsRight ==
  \A w \in Wallets, p \in Proposals : Listens(w, p) => listened[w][p] = secret[p]

(***************************************************************************)
(* A wallet goes on listening to a proposal until somebody deletes it, the *)
(* wallet stops, or the service has dropped the proposal: no other failure *)
(* of a call makes it forget one.  (tx-proposal.controller.js:217-222)     *)
(***************************************************************************)
ForgottenForReason ==
  [][\A w \in Wallets, p \in Proposals :
       Listens(w, p) /\ ~Listens(w, p)' =>
         \/ \E r \in Requests : kind[r] = "delete" /\ pc[r] = "idle" /\ pc'[r] = "done"
         \/ lockOf'[w] # lockOf[w]
         \/ p \in gone]_vars

(***************************************************************************)
(* A Lock protects one request at a time, across stops and starts of the   *)
(* wallet, unless a request that outlived its timer, or an unlock request  *)
(* of a wallet stopped meanwhile, freed the Lock of another.               *)
(* (lock.helper.js:30-47, tx-proposal.controller.js:430)                   *)
(***************************************************************************)
OneInside ==
  \A l \in Slots \ crossed : \A r, q \in Inside(l) \ overrun : r = q

(***************************************************************************)
(* Every call of the service ends in an answer to the caller, also one     *)
(* that gets none: in the end no request awaits.                           *)
(* (tx-proposal.controller.js:217-226, patch.js)                           *)
(***************************************************************************)
CallsAreAnswered == <>[](\A r \in Requests : pc[r] \in {"idle", "done"})
=============================================================================
