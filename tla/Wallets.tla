------------------------------- MODULE Wallets -------------------------------
(***************************************************************************)
(* The registry of wallets and its life cycle (services/wallets.service.js,*)
(* middlewares/wallet.middleware.js, settings.js and the handlers that     *)
(* start, stop and use wallets).                                           *)
(*                                                                         *)
(* The process keeps several maps keyed by wallet-id: initializedWallets,  *)
(* hsmWalletIds, the locks of lock.js and the proposals the atomic swap    *)
(* service listens to.  Requests check them, await, and update them later. *)
(* A wallet object is named by the start request that built it.            *)
(* walletLoggers is set and deleted with initializedWallets and is left    *)
(* out.  A configuration is known by the reload that installed it.         *)
(***************************************************************************)
EXTENDS Naturals, FiniteSets

CONSTANTS
  Ids,        \* wallet-ids
  Starts,     \* start requests, and the wallets they build
  Stops,      \* requests of POST /wallet/stop
  Uses,       \* requests that use a wallet
  Reloads,    \* requests of POST /reload-config
  StartKinds, \* which of "plain", "hsm", "fireblocks" starts occur
  Boot,       \* the configuration read by setupConfig
  Null        \* null: no wallet, no configuration

Requests == Starts \cup Stops \cup Uses \cup Reloads
Configs == Reloads \cup {Boot}

ASSUME WalletsAssumption ==
  /\ Starts \cap (Stops \cup Uses \cup Reloads) = {}
  /\ Stops \cap (Uses \cup Reloads) = {} /\ Uses \cap Reloads = {}
  /\ Boot \notin Reloads /\ Null \notin Starts \cup Configs
  /\ StartKinds \subseteq {"plain", "hsm", "fireblocks"}
  /\ "hsm" \notin Ids

VARIABLES
  idOf,      \* idOf[q]: the wallet-id in the request (Reloads have none)
  kind,      \* kind[q]: how a start starts, what a use does
  pc,        \* where the request awaits
  target,    \* target[q]: the wallet object a stop or a use works on
  slot,      \* slot[u]: the Lock whose SEND_TX use u took
  cfg,       \* cfg[s]: the configuration wallet s is built with
  old,       \* old[r]: oldConfig of reload r
  visited,   \* visited[r]: entries the loop of stopAllWallets went through
  toClear,   \* toClear[r]: keys stopAllWallets has left to delete
  registry,  \* initializedWallets
  hsmIds,    \* keys of hsmWalletIds
  locks,     \* locks[id]: how many Locks of id lock.delete discarded
  taken,     \* Locks whose SEND_TX is taken
  listened,  \* walletListenedProposals: <<id, wallet it was registered for>>
  closed,    \* wallets whose stop() was called
  config,    \* _config of settings.js
  alive,     \* the process has not ended
  overlapped,\* history: ids two starts were in flight for at once
  cleared,   \* history: wallets whose key stopAllWallets deleted
  straddled, \* history: starts holding a configuration that a reload replaced
  outlived,  \* history: ids stopAllWallets cleared while a stopWallet awaited
  late       \* history: wallets stopped before a registration for them ended

requestVars == <<idOf, kind, pc, target, slot, cfg, old, visited, toClear>>
mapVars == <<registry, hsmIds, locks, taken, listened>>
history == <<overlapped, cleared, straddled, outlived, late>>
vars == <<requestVars, mapVars, closed, config, alive, history>>

InFlight(q) == pc[q] \notin {"idle", "refused", "failed", "done", "up"}
Registered == {id \in Ids : registry[id] # Null}
Running(w) == pc[w] = "up" /\ w \notin closed
HsmSlot == <<"hsm", 0>>
SlotOf(id) == <<id, locks[id]>>

(* getWalletLock *)
WalletLock(id) == IF id \in hsmIds THEN HsmSlot ELSE SlotOf(id)

TypeOK ==
  /\ idOf \in [Requests \ Reloads -> Ids]
  /\ kind \in [Starts \cup Uses -> StartKinds \cup {"send", "listen"}]
  /\ pc \in [Requests -> {"idle", "refused", "failed", "done", "up", "signer", "starting",
                          "confirm", "stopping", "working", "import", "loop", "clear"}]
  /\ target \in [Stops \cup Uses -> Starts \cup {Null}]
  /\ slot \in [Uses -> {HsmSlot} \cup (Ids \X Nat)]
  /\ cfg \in [Starts -> Configs \cup {Null}]
  /\ old \in [Reloads -> Configs \cup {Null}]
  /\ visited \in [Reloads -> SUBSET Ids] /\ toClear \in [Reloads -> SUBSET Ids]
  /\ registry \in [Ids -> Starts \cup {Null}]
  /\ hsmIds \subseteq Ids
  /\ locks \in [Ids -> Nat]
  /\ taken \subseteq {HsmSlot} \cup (Ids \X Nat)
  /\ listened \subseteq Ids \X Starts
  /\ closed \subseteq {w \in Starts : pc[w] = "up"}
  /\ config \in Configs \cup {Null}
  /\ alive \in BOOLEAN

Init ==
  /\ idOf \in [Requests \ Reloads -> Ids]
  /\ kind \in {k \in [Starts \cup Uses -> StartKinds \cup {"send", "listen"}] :
                 \A q \in Starts \cup Uses : k[q] \in StartKinds <=> q \in Starts}
  /\ pc = [q \in Requests |-> "idle"]
  /\ target = [q \in Stops \cup Uses |-> Null]
  /\ slot = [u \in Uses |-> HsmSlot]
  /\ cfg = [s \in Starts |-> Null]
  /\ old = [r \in Reloads |-> Null]
  /\ visited = [r \in Reloads |-> {}] /\ toClear = [r \in Reloads |-> {}]
  /\ registry = [id \in Ids |-> Null]
  /\ hsmIds = {} /\ locks = [id \in Ids |-> 0] /\ taken = {} /\ listened = {}
  /\ closed = {} /\ config = Boot /\ alive = TRUE
  /\ overlapped = {} /\ cleared = {} /\ straddled = {} /\ outlived = {} /\ late = {}

Goto(q, from, to) == alive /\ pc[q] = from /\ pc' = [pc EXCEPT ![q] = to]

(* initializedWallets.delete(id): a loop over the map that is under way meets
   the id again if it is added again. *)
Deregister(id) ==
  /\ registry' = [registry EXCEPT ![id] = Null]
  /\ visited' = [r \in Reloads |-> visited[r] \ {id}]

(* removeAllWalletProposals(id) *)
ForgetProposals(id) == listened' = {p \in listened : p[1] # id}

-----------------------------------------------------------------------------
(* Starting: POST /start, /hsm/start and /fireblocks/start *)

(* The wallet-id is taken; or there is no configuration and 503 is answered,
   which the request comes to only if its header names a wallet with a logger. *)
StartRefused(s) ==
  /\ idOf[s] \in Registered \/ (config = Null /\ Registered # {})
  /\ Goto(s, "idle", "refused")
  /\ UNCHANGED <<idOf, kind, target, slot, cfg, old, visited, toClear, mapVars, closed,
                 config, alive, history>>

(* getLogger looks for a configuration to build a logger with: the promise of
   loggerMiddleware rejects, nobody handles it, Node ends the process. *)
StartCrashes(s) ==
  /\ config = Null /\ idOf[s] \notin Registered
  /\ Goto(s, "idle", "failed")
  /\ alive' = FALSE
  /\ UNCHANGED <<idOf, kind, target, slot, cfg, old, visited, toClear, mapVars, closed,
                 config, history>>

(* The checks passed.  /start goes straight to startWallet; the others await
   the signer first, /fireblocks/start with the configuration in hand. *)
StartBegins(s) ==
  /\ idOf[s] \notin Registered /\ config # Null
  /\ Goto(s, "idle", IF kind[s] = "plain" THEN "starting" ELSE "signer")
  /\ cfg' = [cfg EXCEPT ![s] = IF kind[s] = "hsm" THEN Null ELSE config]
  /\ overlapped' = overlapped \cup
       {id \in {idOf[s]} : \E t \in Starts \ {s} : InFlight(t) /\ idOf[t] = id}
  /\ UNCHANGED <<idOf, kind, target, slot, old, visited, toClear, mapVars, closed, config,
                 alive, cleared, straddled, outlived, late>>

(* The signer answered; /hsm/start reads the configuration only now, and
   startWallet needs one to build the wallet's logger. *)
SignerAnswers(s) ==
  /\ config # Null
  /\ Goto(s, "signer", "starting")
  /\ cfg' = [cfg EXCEPT ![s] = IF kind[s] = "hsm" THEN config ELSE @]
  /\ UNCHANGED <<idOf, kind, target, slot, old, visited, toClear, mapVars, closed, config,
                 alive, history>>

(* The signer failed, or there is no configuration after it answered. *)
SignerFails(s) ==
  /\ Goto(s, "signer", "failed")
  /\ UNCHANGED <<idOf, kind, target, slot, cfg, old, visited, toClear, mapVars, closed,
                 config, alive, history>>

(* startWallet, once wallet.start() resolved. *)
StartResolves(s) ==
  /\ Goto(s, "starting", "up")
  /\ registry' = [registry EXCEPT ![idOf[s]] = s]
  /\ hsmIds' = IF kind[s] = "hsm" THEN hsmIds \cup {idOf[s]} ELSE hsmIds
  /\ UNCHANGED <<idOf, kind, target, slot, cfg, old, visited, toClear, locks, taken,
                 listened, closed, config, alive, history>>

(* wallet.start() rejected: nothing was registered. *)
StartRejects(s) ==
  /\ Goto(s, "starting", "failed")
  /\ UNCHANGED <<idOf, kind, target, slot, cfg, old, visited, toClear, mapVars, closed,
                 config, alive, history>>

-----------------------------------------------------------------------------
(* walletMiddleware, with confirmFirstAddress on *)

(* The wallet is looked up and its first address awaited. *)
WalletFound(q) ==
  /\ config # Null /\ idOf[q] \in Registered
  /\ Goto(q, "idle", "confirm")
  /\ target' = [target EXCEPT ![q] = registry[idOf[q]]]
  /\ UNCHANGED <<idOf, kind, slot, cfg, old, visited, toClear, mapVars, closed, config,
                 alive, history>>

(* The configuration is read first: without one the promise of the middleware
   rejects, nobody handles it, Node ends the process. *)
WalletCrashes(q) ==
  /\ config = Null
  /\ Goto(q, "idle", "failed")
  /\ alive' = FALSE
  /\ UNCHANGED <<idOf, kind, target, slot, cfg, old, visited, toClear, mapVars, closed,
                 config, history>>

(* No such wallet; another first address, a wallet that is not ready, or a
   taken lock. *)
WalletRefused(q) ==
  /\ \/ config # Null /\ idOf[q] \notin Registered /\ Goto(q, "idle", "refused")
     \/ Goto(q, "confirm", "refused")
  /\ UNCHANGED <<idOf, kind, target, slot, cfg, old, visited, toClear, mapVars, closed,
                 config, alive, history>>

-----------------------------------------------------------------------------
(* stopWallet.  It looks the id up again, and forgets the HSM key before    *)
(* it awaits wallet.stop().                                                 *)

(* Slip: stopWallet leaves the id in hsmWalletIds. *)
StopBeginsKeepsHsm(p) ==
  /\ Goto(p, "confirm", "stopping")
  /\ Running(target[p]) /\ idOf[p] \in Registered
  /\ closed' = closed \cup {registry[idOf[p]]}
  /\ UNCHANGED <<idOf, kind, target, slot, cfg, old, visited, toClear, mapVars, config,
                 alive, history>>

(* Slip: stopWallet does not check that the id is still registered. *)
StopBeginsUnchecked(p) ==
  /\ Goto(p, "confirm", "stopping")
  /\ Running(target[p])
  /\ hsmIds' = hsmIds \ {idOf[p]}
  /\ closed' = closed \cup {registry[idOf[p]]}
  /\ UNCHANGED <<idOf, kind, target, slot, cfg, old, visited, toClear, registry, locks,
                 taken, listened, config, alive, history>>

StopBegins(p) ==
  /\ Goto(p, "confirm", "stopping")
  /\ Running(target[p]) /\ idOf[p] \in Registered
  /\ hsmIds' = hsmIds \ {idOf[p]}
  /\ closed' = closed \cup {registry[idOf[p]]}
  /\ UNCHANGED <<idOf, kind, target, slot, cfg, old, visited, toClear, registry, locks,
                 taken, listened, config, alive, history>>

(* The id is gone: nothing to stop. *)
StopOfNothing(p) ==
  /\ Goto(p, "confirm", "done")
  /\ Running(target[p]) /\ idOf[p] \notin Registered
  /\ UNCHANGED <<idOf, kind, target, slot, cfg, old, visited, toClear, mapVars, closed,
                 config, alive, history>>

(* Slip: stopWallet keeps the Lock of the id. *)
StopResolvesKeepsLock(p) ==
  /\ Goto(p, "stopping", "done")
  /\ Deregister(idOf[p])
  /\ ForgetProposals(idOf[p])
  /\ UNCHANGED <<idOf, kind, target, slot, cfg, old, toClear, hsmIds, locks, taken, closed,
                 config, alive, history>>

(* Slip: stopWallet keeps the proposals of the id. *)
StopResolvesKeepsProposals(p) ==
  /\ Goto(p, "stopping", "done")
  /\ Deregister(idOf[p])
  /\ locks' = [locks EXCEPT ![idOf[p]] = @ + 1]
  /\ UNCHANGED <<idOf, kind, target, slot, cfg, old, toClear, hsmIds, taken, listened,
                 closed, config, alive, history>>

StopResolves(p) ==
  /\ Goto(p, "stopping", "done")
  /\ Deregister(idOf[p])
  /\ locks' = [locks EXCEPT ![idOf[p]] = @ + 1]
  /\ ForgetProposals(idOf[p])
  /\ UNCHANGED <<idOf, kind, target, slot, cfg, old, toClear, hsmIds, taken, closed,
                 config, alive, history>>

(* wallet.stop() rejected: the wallet stays registered. *)
StopRejects(p) ==
  /\ Goto(p, "stopping", "failed")
  /\ UNCHANGED <<idOf, kind, target, slot, cfg, old, visited, toClear, mapVars, closed,
                 config, alive, history>>

-----------------------------------------------------------------------------
(* Uses: "send" holds the SEND_TX lock over its awaits, "listen" registers  *)
(* a proposal after the atomic swap service answered.                       *)

SendBegins(u) ==
  /\ Goto(u, "confirm", "working")
  /\ kind[u] = "send" /\ Running(target[u])
  /\ WalletLock(idOf[u]) \notin taken
  /\ slot' = [slot EXCEPT ![u] = WalletLock(idOf[u])]
  /\ taken' = taken \cup {WalletLock(idOf[u])}
  /\ UNCHANGED <<idOf, kind, target, cfg, old, visited, toClear, registry, hsmIds, locks,
                 listened, closed, config, alive, history>>

SendEnds(u) ==
  /\ kind[u] = "send"
  /\ Goto(u, "working", "done")
  /\ taken' = taken \ {slot[u]}
  /\ UNCHANGED <<idOf, kind, target, slot, cfg, old, visited, toClear, registry, hsmIds,
                 locks, listened, closed, config, alive, history>>

LockTimesOut ==
  /\ alive
  /\ \E l \in taken : taken' = taken \ {l}
  /\ UNCHANGED <<requestVars, registry, hsmIds, locks, listened, closed, config, alive,
                 history>>

ListenBegins(u) ==
  /\ Goto(u, "confirm", "working")
  /\ kind[u] = "listen" /\ Running(target[u])
  /\ UNCHANGED <<idOf, kind, target, slot, cfg, old, visited, toClear, mapVars, closed,
                 config, alive, history>>

ListenFails(u) ==
  /\ kind[u] = "listen"
  /\ Goto(u, "working", "failed")
  /\ UNCHANGED <<idOf, kind, target, slot, cfg, old, visited, toClear, mapVars, closed,
                 config, alive, history>>

(* addListenedProposal goes by the id, whatever happened to the wallet. *)
ListenEnds(u) ==
  /\ kind[u] = "listen"
  /\ Goto(u, "working", "done")
  /\ listened' = listened \cup {<<idOf[u], target[u]>>}
  /\ late' = late \cup ({target[u]} \cap closed)
  /\ UNCHANGED <<idOf, kind, target, slot, cfg, old, visited, toClear, registry, hsmIds,
                 locks, taken, closed, config, alive, overlapped, cleared, straddled,
                 outlived>>

-----------------------------------------------------------------------------
(* reloadConfig *)

(* Slip: the old configuration stays readable until the new one is set. *)
ReloadBeginsReadable(r) ==
  /\ Goto(r, "idle", "import")
  /\ old' = [old EXCEPT ![r] = config]
  /\ UNCHANGED <<idOf, kind, target, slot, cfg, visited, toClear, mapVars, closed, config,
                 alive, history>>

ReloadBegins(r) ==
  /\ Goto(r, "idle", "import")
  /\ old' = [old EXCEPT ![r] = config]
  /\ config' = Null
  /\ UNCHANGED <<idOf, kind, target, slot, cfg, visited, toClear, mapVars, closed, alive,
                 history>>

(* The file cannot be imported, _analizeConfig throws (it always does when
   there was no old configuration), or a wallet.stop() rejected. *)
ReloadFails(r) ==
  /\ Goto(r, "import", "failed") \/ (visited[r] # {} /\ Goto(r, "loop", "failed"))
  /\ UNCHANGED <<idOf, kind, target, slot, cfg, old, visited, toClear, mapVars, closed,
                 config, alive, history>>

(* A change the service cannot recover from: the error handler exits. *)
ReloadExits(r) ==
  /\ old[r] # Null
  /\ Goto(r, "import", "failed")
  /\ alive' = FALSE
  /\ UNCHANGED <<idOf, kind, target, slot, cfg, old, visited, toClear, mapVars, closed,
                 config, history>>

(* Slip: a reload that stops no wallet forgets to set _config. *)
ReloadKeepsNull(r) ==
  /\ old[r] # Null
  /\ Goto(r, "import", "done")
  /\ UNCHANGED <<idOf, kind, target, slot, cfg, old, visited, toClear, mapVars, closed,
                 config, alive, history>>

(* Nothing a wallet was built with changed. *)
ReloadKeeps(r) ==
  /\ old[r] # Null
  /\ Goto(r, "import", "done")
  /\ config' = old[r]
  /\ UNCHANGED <<idOf, kind, target, slot, cfg, old, visited, toClear, mapVars, closed,
                 alive, history>>

(* Slip: stopAllWallets loops over a copy of the wallets. *)
ReloadStopsCopy(r) ==
  /\ old[r] # Null
  /\ Goto(r, "import", "loop")
  /\ visited' = [visited EXCEPT ![r] = Ids \ Registered]
  /\ UNCHANGED <<idOf, kind, target, slot, cfg, old, toClear, mapVars, closed, config,
                 alive, history>>

(* Slip: the new configuration is set before the wallets are stopped. *)
ReloadStopsLater(r) ==
  /\ old[r] # Null
  /\ Goto(r, "import", "loop")
  /\ config' = r
  /\ UNCHANGED <<idOf, kind, target, slot, cfg, old, visited, toClear, mapVars, closed,
                 alive, history>>

(* Something changed that the wallets were built with: stopAllWallets. *)
ReloadStopsAll(r) ==
  /\ old[r] # Null
  /\ Goto(r, "import", "loop")
  /\ UNCHANGED <<idOf, kind, target, slot, cfg, old, visited, toClear, mapVars, closed,
                 config, alive, history>>

(* The loop goes over the live map: it also meets the wallets added to it
   while it awaits the stop of another. *)
ReloadStopsOne(r) ==
  /\ Goto(r, "loop", "loop")
  /\ \E id \in Registered \ visited[r] :
       /\ visited' = [visited EXCEPT ![r] = @ \cup {id}]
       /\ closed' = closed \cup {registry[id]}
  /\ UNCHANGED <<idOf, kind, target, slot, cfg, old, toClear, mapVars, config, alive,
                 history>>

(* The loop is over: the keys to delete are copied. *)
ReloadStopsEnd(r) ==
  /\ Registered \subseteq visited[r]
  /\ Goto(r, "loop", "clear")
  /\ toClear' = [toClear EXCEPT ![r] = Registered]
  /\ straddled' = straddled \cup {s \in Starts : InFlight(s) /\ cfg[s] # Null}
  /\ UNCHANGED <<idOf, kind, target, slot, cfg, old, visited, mapVars, closed, config,
                 alive, overlapped, cleared, outlived, late>>

(* One key is deleted; hsmWalletIds and the locks are left alone. *)
ReloadClears(r) ==
  /\ Goto(r, "clear", "clear")
  /\ \E id \in toClear[r] :
       /\ toClear' = [toClear EXCEPT ![r] = @ \ {id}]
       /\ Deregister(id)
       /\ ForgetProposals(id)
       /\ cleared' = cleared \cup ({registry[id]} \ {Null})
       /\ outlived' = outlived \cup
            {i \in {id} : \E p \in Stops : pc[p] = "stopping" /\ idOf[p] = i}
  /\ UNCHANGED <<idOf, kind, target, slot, cfg, old, hsmIds, locks, taken, closed, config,
                 alive, overlapped, straddled, late>>

ReloadEnds(r) ==
  /\ toClear[r] = {}
  /\ Goto(r, "clear", "done")
  /\ config' = r
  /\ UNCHANGED <<idOf, kind, target, slot, cfg, old, visited, toClear, mapVars, closed,
                 alive, history>>

-----------------------------------------------------------------------------

StartStep(s) ==
  \/ StartRefused(s) \/ StartCrashes(s) \/ StartBegins(s)
  \/ SignerAnswers(s) \/ SignerFails(s) \/ StartResolves(s) \/ StartRejects(s)
StopStep(p) ==
  \/ WalletFound(p) \/ WalletCrashes(p) \/ WalletRefused(p) \/ StopBegins(p) \/ StopOfNothing(p)
  \/ StopResolves(p) \/ StopRejects(p)
UseStep(u) ==
  \/ WalletFound(u) \/ WalletCrashes(u) \/ WalletRefused(u) \/ SendBegins(u) \/ SendEnds(u)
  \/ ListenBegins(u) \/ ListenFails(u) \/ ListenEnds(u)
ReloadStep(r) ==
  \/ ReloadBegins(r) \/ ReloadFails(r) \/ ReloadExits(r) \/ ReloadKeeps(r)
  \/ ReloadStopsAll(r) \/ ReloadStopsOne(r) \/ ReloadStopsEnd(r) \/ ReloadClears(r)
  \/ ReloadEnds(r)

(* Nothing is under way, or the process is gone. *)
Quiet ==
  /\ alive => taken = {} /\ \A q \in Requests : ~InFlight(q)
  /\ UNCHANGED vars

Next ==
  \/ \E s \in Starts : StartStep(s)
  \/ \E p \in Stops : StopStep(p)
  \/ \E u \in Uses : UseStep(u)
  \/ \E r \in Reloads : ReloadStep(r)
  \/ LockTimesOut \/ Quiet

Spec == Init /\ [][Next]_vars

(* Every promise a request awaits settles; requests need not come. *)
FairSpec ==
  /\ Spec
  /\ \A s \in Starts : WF_vars(InFlight(s) /\ StartStep(s))
  /\ \A p \in Stops : WF_vars(InFlight(p) /\ StopStep(p))
  /\ \A u \in Uses : WF_vars(InFlight(u) /\ UseStep(u))
  /\ \A r \in Reloads : WF_vars(InFlight(r) /\ ReloadStep(r))

-----------------------------------------------------------------------------

(***************************************************************************)
(* A wallet that runs can be reached, hence stopped: it is registered      *)
(* under its id, unless two starts of the id were in flight at once, or a  *)
(* reload cleared the id under a stop that still awaited.  A wallet        *)
(* registered while stopAllWallets awaits the stop of another is stopped   *)
(* by it too before its key is deleted (wallets.service.js:32-65).         *)
(***************************************************************************)
NoOrphan ==
  \A s \in Starts :
    Running(s) /\ idOf[s] \notin overlapped \cup outlived => registry[idOf[s]] = s

(***************************************************************************)
(* While a configuration can be read, every registered wallet was built    *)
(* with it, unless the start was under way when a reload stopped the       *)
(* wallets (settings.js:266-283 and startWallet's captured config).        *)
(***************************************************************************)
CurrentConfig ==
  config # Null =>
    \A id \in Registered :
      registry[id] \notin straddled => cfg[registry[id]] = config

(***************************************************************************)
(* Two overlapping reloads never act on their analysis both: the null      *)
(* configuration makes the later one fail (settings.js:267-277).           *)
(***************************************************************************)
OneReloadAtATime ==
  \A r1, r2 \in Reloads :
    InFlight(r1) /\ InFlight(r2) /\ old[r1] # Null /\ old[r2] # Null => r1 = r2

(***************************************************************************)
(* A running wallet that was started from the HSM is always known as one,  *)
(* so that it takes the HSM's way of locking and signing; a wallet that    *)
(* was not is taken for one only if its id was the HSM's before and was    *)
(* lost other than by stopWallet: stopAllWallets leaves the keys of        *)
(* hsmWalletIds, as do two starts of one id in flight at once, and a       *)
(* stopWallet that deletes the id of a wallet started after a reload       *)
(* cleared it.  (hsm.service.js, wallets.service.js:32-83, 134-151)        *)
(***************************************************************************)
HsmFlagIsRight ==
  \A id \in Registered :
    /\ kind[registry[id]] = "hsm" /\ Running(registry[id]) => id \in hsmIds
    /\ kind[registry[id]] # "hsm" /\ id \in hsmIds =>
         \/ id \in overlapped \cup outlived
         \/ \E w \in cleared : idOf[w] = id /\ kind[w] = "hsm"

(***************************************************************************)
(* A send that a wallet left behind holds the lock of a later wallet with  *)
(* its id only if its own wallet lost the id other than by stopWallet,     *)
(* which discards the Lock: stopAllWallets deletes the keys of the wallets *)
(* and keeps their Locks, and so does a start that overwrites another.     *)
(* (wallets.service.js:32-83, lock.js)                                     *)
(***************************************************************************)
NewWalletHasFreshLock ==
  \A u \in Uses :
    LET id == idOf[u] IN
      /\ kind[u] = "send" /\ pc[u] = "working" /\ slot[u] = SlotOf(id)
      /\ id \in Registered /\ registry[id] # target[u]
      => id \in overlapped \cup outlived \/ target[u] \in cleared

(***************************************************************************)
(* A wallet lists the proposals registered for it, not those of an earlier *)
(* wallet of its id, unless their registration outlived that wallet, or    *)
(* the wallet lost its id to one of the races of NoOrphan.                 *)
(***************************************************************************)
ListsOwnProposals ==
  \A p \in listened :
    /\ p[1] \in Registered \ (overlapped \cup outlived)
    /\ p[2] \notin late
    => registry[p[1]] = p[2]

(***************************************************************************)
(* The configuration comes back after every reload that neither failed nor *)
(* ended the process, whatever starts meanwhile.                           *)
(***************************************************************************)
ConfigComesBack ==
  config = Null ~>
    \/ config # Null
    \/ ~alive
    \/ \E r \in Reloads : pc[r] = "failed" /\ old[r] # Null

(***************************************************************************)
(* "it won't start a new one because it must first stop the old wallet and *)
(* then start the new" (index.controller.js:71-72).                        *)
(***************************************************************************)
OneWalletPerId ==
  \A s, t \in Starts : Running(s) /\ Running(t) /\ idOf[s] = idOf[t] => s = t

(***************************************************************************)
(* "should return 503 on unavailable config" (config-error.test.js:34): a  *)
(* request that comes while there is no configuration is answered; only a  *)
(* reload with a non recoverable change ends the process.                  *)
(***************************************************************************)
OnlyReloadsExit ==
  [][alive' \/ \E r \in Reloads : pc[r] = "import" /\ pc'[r] = "failed"]_vars
=============================================================================
