----------------------------- MODULE HsmSession -----------------------------
(***************************************************************************)
(* Sessions with the hardware security module (services/hsm.service.js,    *)
(* controllers/hsm/hsm.controller.js).                                     *)
(*                                                                         *)
(* The SDK keeps one current connection: hsm.connect() replaces it and     *)
(* hsm.disconnect() closes it, whoever opened it.  A session takes the     *)
(* global HSM lock, connects, works over several awaits, disconnects and   *)
(* frees the lock.  Two kinds of session exist: "start" derives the keys   *)
(* of a wallet, "sign" signs a transaction.                                *)
(***************************************************************************)
EXTENDS Lock

CONSTANTS
  Sessions, \* attempts to use the HSM, each made once
  Roots,    \* key names a wallet can be started from
  HsmLock,  \* slot (globalLock, HSM)
  Nobody    \* no current connection

ASSUME HsmAssumption == HsmLock \in Slots /\ Nobody \notin Sessions

VARIABLES
  role,        \* role[s]: "start" or "sign"
  root,        \* root[s]: the HSM key name s works with
  pc,          \* where s awaits
  outcome,     \* what s reported
  connections, \* sessions whose connection is open on the HSM
  current,     \* owner of the SDK's current connection
  derived,     \* <<root, level>> of the permanent keys derived on the HSM
  overrun,     \* history: sessions at work when the lock's timer fired
  leaked,      \* history: sessions that ended without hsmDisconnect succeeding
  intruders    \* history: starts that disconnect without having connected

sessionVars == <<role, root, pc, outcome>>
hsmVars == <<connections, current, derived>>
vars == <<lockVars, sessionVars, hsmVars, overrun, leaked, intruders>>

Levels == {"acct", "change"}
AtWork == {"connect", "validate", "acct", "change", "xpub", "sign", "disconnect"}

TypeOK ==
  /\ LockTypeOK
  /\ role \in [Sessions -> {"start", "sign"}]
  /\ root \in [Sessions -> Roots]
  /\ pc \in [Sessions -> {"idle", "done"} \cup AtWork]
  /\ outcome \in [Sessions -> {"none", "ok", "error", "busy"}]
  /\ connections \subseteq Sessions
  /\ current \in connections \cup {Nobody}
  /\ derived \subseteq Roots \X Levels
  /\ overrun \subseteq Sessions /\ leaked \subseteq Sessions /\ intruders \subseteq Sessions

Init ==
  /\ LockInit
  /\ role \in [Sessions -> {"start", "sign"}]
  /\ root \in [Sessions -> Roots]
  /\ pc = [s \in Sessions |-> "idle"]
  /\ outcome = [s \in Sessions |-> "none"]
  /\ connections = {} /\ current = Nobody
  /\ derived = {}
  /\ overrun = {} /\ leaked = {} /\ intruders = {}

Goto(s, from, to) == pc[s] = from /\ pc' = [pc EXCEPT ![s] = to]

Report(s, o) == outcome' = [outcome EXCEPT ![s] = o]

(* The session is over although hsmDisconnect did not run to its end. *)
Abandon(s, from) ==
  /\ Goto(s, from, "done")
  /\ Report(s, "error")
  /\ leaked' = leaked \cup {s}

Working == {s \in Sessions : pc[s] \in AtWork}

-----------------------------------------------------------------------------
(* hsmConnect *)

(* Slip: a start refused as busy disconnects like after any other error. *)
ConnectBusyDisconnects(s) ==
  /\ LockRefused(HsmLock)
  /\ Goto(s, "idle", IF role[s] = "start" THEN "disconnect" ELSE "done")
  /\ Report(s, "busy")
  /\ UNCHANGED <<role, root, hsmVars, overrun, leaked, intruders>>

(* The HSM lock is taken: HsmError, answered without disconnecting. *)
ConnectBusy(s) ==
  /\ LockRefused(HsmLock)
  /\ Goto(s, "idle", "done")
  /\ Report(s, "busy")
  /\ UNCHANGED <<role, root, hsmVars, overrun, leaked, intruders>>

(* No hsmHost, hsmUsername or hsmPassword: HsmError, before any lock. *)
NotConfigured(s) ==
  /\ Goto(s, "idle", "done")
  /\ Report(s, "error")
  /\ UNCHANGED <<lockVars, role, root, hsmVars, overrun, leaked, intruders>>

(* getConfig throws while the configuration is reloaded.  That is no HsmError:
   a start disconnects although it took no lock. *)
ConfigUnavailable(s) ==
  /\ Goto(s, "idle", IF role[s] = "start" THEN "disconnect" ELSE "done")
  /\ Report(s, "error")
  /\ intruders' = IF role[s] = "start" THEN intruders \cup {s} ELSE intruders
  /\ UNCHANGED <<lockVars, role, root, hsmVars, overrun, leaked>>

ConnectBegins(s) ==
  /\ LockTaken(HsmLock)
  /\ Goto(s, "idle", "connect")
  /\ UNCHANGED <<role, root, outcome, hsmVars, overrun, leaked, intruders>>

Connected(s) ==
  /\ Goto(s, "connect", IF role[s] = "start" THEN "validate" ELSE "sign")
  /\ connections' = connections \cup {s}
  /\ current' = s
  /\ UNCHANGED <<lockVars, role, root, outcome, derived, overrun, leaked, intruders>>

(* hsm.connect rejects: a start answers and disconnects, the signing method
   just rejects. *)
ConnectFails(s) ==
  /\ IF role[s] = "start"
       THEN Goto(s, "connect", "disconnect") /\ Report(s, "error") /\ UNCHANGED leaked
       ELSE Abandon(s, "connect")
  /\ UNCHANGED <<lockVars, role, root, hsmVars, overrun, intruders>>

-----------------------------------------------------------------------------
(* startHsmWallet, between connecting and disconnecting *)

(* A call on the HSM failed: the request is answered and disconnects. *)
StartFails(s) ==
  /\ \E step \in {"validate", "acct", "change", "xpub"} : Goto(s, step, "disconnect")
  /\ Report(s, "error")
  /\ UNCHANGED <<lockVars, role, root, hsmVars, overrun, leaked, intruders>>

KeyValidated(s) ==
  /\ Goto(s, "validate", "acct")
  /\ UNCHANGED <<lockVars, role, root, outcome, hsmVars, overrun, leaked, intruders>>

(* Slip: the change key is derived together with the account key only. *)
DerivesAccountOnly(s) ==
  /\ Goto(s, "acct", IF <<root[s], "acct">> \in derived THEN "xpub" ELSE "change")
  /\ derived' = derived \cup {<<root[s], "acct">>}
  /\ UNCHANGED <<lockVars, role, root, outcome, connections, current, overrun, leaked, intruders>>

(* deriveMainKeysFromRoot: the account key, unless it exists already... *)
AccountDerived(s) ==
  /\ Goto(s, "acct", "change")
  /\ derived' = derived \cup {<<root[s], "acct">>}
  /\ UNCHANGED <<lockVars, role, root, outcome, connections, current, overrun, leaked, intruders>>

(* ... and the change key, unless it exists already. *)
ChangeDerived(s) ==
  /\ Goto(s, "change", "xpub")
  /\ derived' = derived \cup {<<root[s], "change">>}
  /\ UNCHANGED <<lockVars, role, root, outcome, connections, current, overrun, leaked, intruders>>

(* getXPubFromKey *)
XPubRead(s) ==
  /\ Goto(s, "xpub", "disconnect")
  /\ Report(s, "ok")
  /\ UNCHANGED <<lockVars, role, root, hsmVars, overrun, leaked, intruders>>

-----------------------------------------------------------------------------
(* hsmSignTxMethodBuilder: the body has no try, so a failure skips the      *)
(* disconnection.                                                           *)

Signed(s) ==
  /\ Goto(s, "sign", "disconnect")
  /\ Report(s, "ok")
  /\ UNCHANGED <<lockVars, role, root, hsmVars, overrun, leaked, intruders>>

SignFails(s) ==
  /\ Abandon(s, "sign")
  /\ UNCHANGED <<lockVars, role, root, hsmVars, overrun, intruders>>

-----------------------------------------------------------------------------
(* hsmDisconnect *)

(* Slip: the SDK's singleton keeps pointing at the closed connection. *)
DisconnectedStale(s) ==
  /\ Goto(s, "disconnect", "done")
  /\ connections' = connections \ {current}
  /\ Unlock(HsmLock)
  /\ UNCHANGED <<role, root, outcome, current, derived, overrun, leaked, intruders>>

Disconnected(s) ==
  /\ Goto(s, "disconnect", "done")
  /\ connections' = connections \ {current}
  /\ current' = Nobody
  /\ Unlock(HsmLock)
  /\ UNCHANGED <<role, root, outcome, derived, overrun, leaked, intruders>>

(* hsm.disconnect rejects: lock.unlock is not reached. *)
DisconnectFails(s) ==
  /\ Abandon(s, "disconnect")
  /\ UNCHANGED <<lockVars, role, root, hsmVars, overrun, intruders>>

HsmLockTimesOut ==
  /\ TimerFires(HsmLock)
  /\ overrun' = overrun \cup Working
  /\ UNCHANGED <<sessionVars, hsmVars, leaked, intruders>>

Session(s) ==
  \/ NotConfigured(s) \/ ConfigUnavailable(s) \/ ConnectBusy(s) \/ ConnectBegins(s)
  \/ Connected(s) \/ ConnectFails(s)
  \/ KeyValidated(s) \/ AccountDerived(s) \/ ChangeDerived(s) \/ XPubRead(s) \/ StartFails(s)
  \/ Signed(s) \/ SignFails(s)
  \/ Disconnected(s) \/ DisconnectFails(s)

Quiet ==
  /\ \A s \in Sessions : pc[s] = "done"
  /\ pending[HsmLock] = {}
  /\ UNCHANGED vars

Next == (\E s \in Sessions : Session(s)) \/ HsmLockTimesOut \/ Quiet

Spec == Init /\ [][Next]_vars

Fairness ==
  /\ \A s \in Sessions : WF_vars(Session(s))
  /\ WF_vars(HsmLockTimesOut)

FairSpec == Spec /\ Fairness

-----------------------------------------------------------------------------

Undisturbed == overrun = {} /\ leaked = {} /\ intruders = {}

(***************************************************************************)
(* While no session was abandoned or outlived the lock, at most one        *)
(* connection is open, and a session at work uses its own: a request       *)
(* refused as busy does not disconnect "since it's still being used by     *)
(* another request" (hsm.controller.js:76-78), and hsmDisconnect, which    *)
(* closes whatever connection is current, closes the caller's.             *)
(***************************************************************************)
OwnConnection ==
  Undisturbed =>
    /\ connections \subseteq {current}
    /\ \A s \in Sessions :
         pc[s] \in AtWork \ {"connect", "disconnect"} => current = s

(***************************************************************************)
(* A start that got the xpub left both derived keys on the HSM, also when  *)
(* an earlier start of the same root key failed between the derivations.   *)
(***************************************************************************)
StartedWithKeys ==
  \A s \in Sessions :
    role[s] = "start" /\ outcome[s] = "ok" => {root[s]} \X Levels \subseteq derived

(***************************************************************************)
(* The HSM is never out of reach for ever: after any failed session the    *)
(* lock is free again in the end.                                          *)
(***************************************************************************)
HsmLockRecovers == \A s \in Sessions : s \in leaked ~> ~lockStatus[HsmLock]
=============================================================================
