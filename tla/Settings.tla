------------------------------- MODULE Settings -------------------------------
(***************************************************************************)
(* What a change of config.js does to a running service (settings.js,      *)
(* initHathorLib of helpers/wallet.helper.js): which differences end the   *)
(* process, which stop the wallets and which reconfigure the wallet-lib;   *)
(* against that, the values that wallets, the library and health checks    *)
(* were given earlier and use later.                                       *)
(*                                                                         *)
(* Options that are treated alike are one field: static stands for those   *)
(* settings.js:164-179 compares (the HTTP server's, consoleLevel,          *)
(* httpLogFormat, enabled_plugins, the HSM's and Fireblocks'), params for  *)
(* tokenUid, gapLimit and connectionTimeout.  Options a reload compares    *)
(* with nothing, as logging and plugin_config, are left out.  Overlapping  *)
(* reloads and the order in which wallets stop are in Wallets.             *)
(***************************************************************************)
EXTENDS Naturals, FiniteSets

CONSTANTS
  Configs,      \* the contents config.js may have
  Boot,         \* those it has when the service starts
  WalletIds,
  Keys,         \* keys of seeds and multisig
  Words,        \* seeds that wordsValid accepts
  DefaultMining, SwapMainnet, SwapTestnet, \* the library's and constants.js' URLs
  None          \* undefined

Options(f) == IF f = None THEN [k \in {} |-> None] ELSE f
At(f, k) == IF k \in DOMAIN Options(f) THEN f[k] ELSE None

(* The parts of an option's multisig data. *)
Data(d) == [total |-> d.total, numSignatures |-> d.numSignatures, pubkeys |-> d.pubkeys]

(* Present options have a value; multisig data is nothing but its parts. *)
ASSUME SettingsAssumption ==
  /\ Boot \in Configs /\ None \notin Configs \cup Words /\ None \notin {"pass", "warn", "fail"}
  /\ \A c \in Configs :
       /\ c.warn \in BOOLEAN
       /\ \A k \in DOMAIN Options(c.seeds) : c.seeds[k] # None
       /\ \A k \in DOMAIN Options(c.multisig) : c.multisig[k] = Data(c.multisig[k])

VARIABLES
  config,    \* _config, or None while there is none to read
  old, new,  \* oldConfig and newConfig of the reload under way
  reload,    \* "idle"; it awaits the "import" of config.js or the wallets' "stop"
  lib,       \* hathorLibConfig
  starting,  \* starting[w]: what startWallet of w was given, while it awaits
  wallets,   \* wallets[w]: what the registered wallet w was started with
  straddled, \* history: ids whose start a reload overtook
  putBack,   \* history: such a start was the last to set the library's node
  probe,     \* a health check of the fullnode or of tx-mining
  exited     \* process.exit(0)

vars == <<config, old, new, reload, lib, starting, wallets, straddled, putBack, probe, exited>>

(* initHathorLib: what is not configured any more keeps its last value, but
   for the swap service's URL. *)
InitLib(l, c) ==
  [txMiningUrl    |-> IF c.txMiningUrl = None THEN l.txMiningUrl ELSE c.txMiningUrl,
   txMiningApiKey |-> IF c.txMiningApiKey = None THEN l.txMiningApiKey ELSE c.txMiningApiKey,
   swap           |-> IF c.swap # None THEN c.swap
                      ELSE IF c.network = "mainnet" THEN SwapMainnet ELSE SwapTestnet,
   server         |-> c.server, network |-> c.network]

Quiet == [phase |-> "idle", warn |-> FALSE, told |-> None, healthy |-> TRUE, bad |-> FALSE,
          away |-> FALSE]

Init ==
  /\ config = Boot /\ old = None /\ new = None /\ reload = "idle"
  /\ lib = InitLib([txMiningUrl |-> DefaultMining, txMiningApiKey |-> None, swap |-> None], Boot)
  /\ starting = [w \in WalletIds |-> None] /\ wallets = [w \in WalletIds |-> None]
  /\ straddled = {} /\ putBack = FALSE /\ probe = Quiet /\ exited = FALSE

-----------------------------------------------------------------------------
(* Starting a wallet: what POST /start takes from the configuration. *)

(* getWalletConfigFromSeed; the words of a wallet that came with its own seed
   or with an xpub are no matter of the configuration. *)
SeedFound(k) == k = None \/ At(config.seeds, k) \in Words

ProperMultisig(d) ==
  d # None /\ Cardinality(d.pubkeys) = d.total /\ d.numSignatures <= d.total

(* seedKey || multisigKey *)
MultisigFound(k, m) ==
  m = None \/ ((k = None \/ m = k) /\ ProperMultisig(At(config.multisig, m)))

StartBegins(w, k, m) ==
  /\ ~exited /\ config # None
  /\ wallets[w] = None /\ starting[w] = None
  /\ SeedFound(k) /\ MultisigFound(k, m)
  /\ starting' = [starting EXCEPT ![w] =
       [seedKey |-> k, seed |-> At(config.seeds, k),
        multisigKey |-> m, multisig |-> At(config.multisig, m),
        watched |-> m \in DOMAIN Options(config.seeds),
        server |-> config.server, network |-> config.network, params |-> config.params,
        setLib |-> FALSE]]
  /\ UNCHANGED <<config, old, new, reload, lib, putBack, wallets, straddled, probe, exited>>

(* wallet.start() gives the library the node of the wallet's connection. *)
StartSetsLib(w) ==
  /\ ~exited /\ starting[w] # None /\ ~starting[w].setLib
  /\ starting' = [starting EXCEPT ![w].setLib = TRUE]
  /\ lib' = [lib EXCEPT !.server = starting[w].server, !.network = starting[w].network]
  /\ putBack' = (w \in straddled)
  /\ UNCHANGED <<config, old, new, reload, wallets, straddled, probe, exited>>

StartResolves(w) ==
  /\ ~exited /\ starting[w] # None /\ starting[w].setLib
  /\ wallets' = [wallets EXCEPT ![w] = starting[w]]
  /\ starting' = [starting EXCEPT ![w] = None]
  /\ UNCHANGED <<config, old, new, reload, lib, putBack, straddled, probe, exited>>

StartRejects(w) ==
  /\ ~exited /\ starting[w] # None
  /\ starting' = [starting EXCEPT ![w] = None]
  /\ straddled' = straddled \ {w}
  /\ UNCHANGED <<config, old, new, reload, lib, putBack, wallets, probe, exited>>

Stop(w) ==
  /\ ~exited /\ wallets[w] # None
  /\ wallets' = [wallets EXCEPT ![w] = None]
  /\ straddled' = straddled \ {w}
  /\ UNCHANGED <<config, old, new, reload, lib, putBack, starting, probe, exited>>

-----------------------------------------------------------------------------
(* _analizeConfig *)

(* `newConfig.seeds[seedKey]` of an undefined newConfig.seeds *)
SeedsThrow(o, n) == DOMAIN Options(o.seeds) # {} /\ n.seeds = None

(* Slip: seeds that are not valid are left for the start to find. *)
UnrecoverableUnlessStatic(o, n) == o.static # n.static

Unrecoverable(o, n) ==
  o.static # n.static \/ \E k \in DOMAIN Options(n.seeds) : n.seeds[k] \notin Words

SameMultisig(d, e) ==
  e # None /\ d.total = e.total /\ d.numSignatures = e.numSignatures /\ d.pubkeys = e.pubkeys

(* Slip: only the seeds themselves are compared. *)
SeedsChangedOnly(o, n) == \E k \in DOMAIN Options(o.seeds) : At(n.seeds, k) # o.seeds[k]

(* A multisig configuration is compared if its key is that of a seed, too. *)
SeedsChanged(o, n) ==
  \E k \in DOMAIN Options(o.seeds) :
    \/ At(n.seeds, k) # o.seeds[k]
    \/ At(o.multisig, k) # None /\ ~SameMultisig(o.multisig[k], At(n.multisig, k))

NodeChanged(o, n) == o.server # n.server \/ o.network # n.network

MustStop(o, n) == SeedsChanged(o, n) \/ NodeChanged(o, n) \/ o.params # n.params

(* Slip: the node is left for the starts of wallets to set. *)
MustReconfigureForServices(o, n) ==
  o.txMiningUrl # n.txMiningUrl \/ o.swap # n.swap \/ o.txMiningApiKey # n.txMiningApiKey

MustReconfigure(o, n) ==
  \/ NodeChanged(o, n)
  \/ o.txMiningUrl # n.txMiningUrl \/ o.swap # n.swap \/ o.txMiningApiKey # n.txMiningApiKey

-----------------------------------------------------------------------------
(* reloadConfig and _updateConfig *)

(* Slip: the old configuration can be read until the new one is there. *)
ReloadBeginsReadable ==
  /\ ~exited /\ config # None /\ reload = "idle"
  /\ old' = config /\ reload' = "import"
  /\ UNCHANGED <<config, new, lib, putBack, starting, wallets, straddled, probe, exited>>

(* With no configuration to read, the reload that fails on a null oldConfig
   changes nothing and is left out. *)
ReloadBegins ==
  /\ ~exited /\ config # None
  /\ old' = config /\ config' = None /\ reload' = "import"
  /\ probe' = [probe EXCEPT !.away = @ \/ probe.phase = "asked"]
  /\ UNCHANGED <<new, lib, putBack, starting, wallets, straddled, exited>>

(* The rest of _updateConfig and of reloadConfig, with nothing to await. *)
Install(n) ==
  /\ IF MustReconfigure(old, n)
       THEN lib' = InitLib(lib, n) /\ putBack' = FALSE
       ELSE UNCHANGED <<lib, putBack>>
  /\ config' = n /\ old' = None /\ new' = None /\ reload' = "idle"

Overtaken == {w \in WalletIds : starting[w] # None}

ReloadAnalysed(n) ==
  /\ ~exited /\ reload = "import"
  /\ ~SeedsThrow(old, n) /\ ~Unrecoverable(old, n)
  /\ IF MustStop(old, n)
       THEN new' = n /\ reload' = "stop" /\ UNCHANGED <<lib, putBack, config, old, straddled>>
       ELSE Install(n) /\ straddled' = straddled \cup Overtaken
  /\ UNCHANGED <<starting, wallets, probe, exited>>

(* NonRecoverableConfigChangeError, and ConfigErrorHandler. *)
ReloadExits(n) ==
  /\ ~exited /\ reload = "import"
  /\ ~(SeedsThrow(old, n) /\ old.static = n.static) /\ Unrecoverable(old, n)
  /\ exited' = TRUE
  /\ UNCHANGED <<config, old, new, reload, lib, putBack, starting, wallets, straddled, probe>>

(* The import or the analysis throws: there is no configuration from now on. *)
ReloadFails ==
  /\ ~exited
  /\ \/ reload = "import"
     \/ reload = "stop" /\ \E w \in WalletIds : wallets[w] # None
  /\ reload' = "idle" /\ old' = None /\ new' = None
  /\ UNCHANGED <<config, lib, putBack, starting, wallets, straddled, probe, exited>>

(* stopAllWallets ended. *)
ReloadStops ==
  /\ ~exited /\ reload = "stop"
  /\ wallets' = [w \in WalletIds |-> None]
  /\ Install(new)
  /\ straddled' = Overtaken
  /\ UNCHANGED <<starting, probe, exited>>

-----------------------------------------------------------------------------
(* GET /health: getFullnodeHealth or getTxMiningServiceHealth *)

(* The Healthcheck keeps how the configuration counts a warning. *)
ProbeAsks ==
  /\ ~exited /\ config # None /\ probe.phase = "idle"
  /\ probe' = [Quiet EXCEPT !.phase = "asked", !.warn = config.warn]
  /\ UNCHANGED <<config, old, new, reload, lib, putBack, starting, wallets, straddled, exited>>

(* Slip: an answer with an error code is a warning, whatever it says. *)
ReportedAsWarning(how, status) ==
  CASE how = "rejected" -> [status |-> "warn", bad |-> TRUE]
    [] how = "ok" /\ config # None ->
         [status |-> status, bad |-> status = "fail" \/ (status = "warn" /\ config.warn)]
    [] OTHER -> [status |-> "fail", bad |-> TRUE]

(* What is reported of an answer, of a rejection that carries one, and of no
   answer; getConfig throws in the same try the answer is awaited in.  The
   status of a body that has none is undefined, and is passed on. *)
Reported(how, status) ==
  CASE how = "rejected" -> [status |-> status, bad |-> TRUE]
    [] how = "ok" /\ config # None ->
         [status |-> status, bad |-> status = "fail" \/ (status = "warn" /\ config.warn)]
    [] OTHER -> [status |-> "fail", bad |-> TRUE]

(* What the response's code may be, by healthcheck-lib; what that makes of an
   undefined status is its own. *)
CountsHealthy(status) ==
  {h \in BOOLEAN : status # None => h = (status = "pass" \/ (status = "warn" /\ ~probe.warn))}

ProbeAnswers(how, status) ==
  /\ ~exited /\ probe.phase = "asked"
  /\ LET r == Reported(how, status) IN
     \E healthy \in CountsHealthy(r.status) :
       probe' = [probe EXCEPT !.phase = "answered",
                              !.told = IF how = "none" THEN "fail" ELSE status,
                              !.healthy = healthy, !.bad = r.bad]
  /\ UNCHANGED <<config, old, new, reload, lib, putBack, starting, wallets, straddled, exited>>

ProbeEnds ==
  /\ ~exited /\ probe.phase = "answered"
  /\ probe' = Quiet
  /\ UNCHANGED <<config, old, new, reload, lib, putBack, starting, wallets, straddled, exited>>

-----------------------------------------------------------------------------
Next ==
  \/ \E w \in WalletIds, k, m \in Keys \cup {None} : StartBegins(w, k, m)
  \/ \E w \in WalletIds : StartSetsLib(w) \/ StartResolves(w) \/ StartRejects(w) \/ Stop(w)
  \/ ReloadBegins \/ ReloadFails \/ ReloadStops
  \/ \E n \in Configs : ReloadAnalysed(n) \/ ReloadExits(n)
  \/ ProbeAsks \/ ProbeEnds
  \/ \E how \in {"ok", "rejected", "none"}, status \in {"pass", "warn", "fail", None} :
       ProbeAnswers(how, status)

Spec == Init /\ [][Next]_vars

-----------------------------------------------------------------------------
(***************************************************************************)
(* Whoever can read a configuration finds the wallets started with its     *)
(* node, its parameters, its seeds and its multisig data: every difference *)
(* that would make a running wallet another one stops it.  Excepted are    *)
(* starts a reload overtook and multisig data under a key that is not a    *)
(* seed's, whose changes nobody looks for.  (settings.js:184-252)          *)
(***************************************************************************)
WalletsMatchConfig ==
  config # None => \A w \in WalletIds \ straddled :
    LET x == wallets[w] IN x # None =>
      /\ x.server = config.server /\ x.network = config.network /\ x.params = config.params
      /\ x.seedKey # None => At(config.seeds, x.seedKey) = x.seed
      /\ x.multisigKey # None /\ x.watched => At(config.multisig, x.multisigKey) = x.multisig

(***************************************************************************)
(* The wallet-lib works with the configuration's servers, after any        *)
(* sequence of reloads and starts: options come and go, the library keeps  *)
(* each until it is set again, and every start sets the node anew.         *)
(* Excepted are the node after a start that a reload overtook set it,      *)
(* which puts the old one back, and a tx-mining option that was removed:   *)
(* "if not present we will use the default" (settings.js:47-48) is true at *)
(* boot, but a reload leaves the removed value there.  (settings.js:       *)
(* 236-261, wallet.helper.js:32-60, wallets.service.js:140)                *)
(***************************************************************************)
LibMatchesConfig ==
  config # None =>
    /\ ~putBack => lib.server = config.server /\ lib.network = config.network
    /\ lib.swap = IF config.swap # None THEN config.swap
                  ELSE IF config.network = "mainnet" THEN SwapMainnet ELSE SwapTestnet
    /\ config.txMiningUrl # None => lib.txMiningUrl = config.txMiningUrl
    /\ config.txMiningApiKey # None => lib.txMiningApiKey = config.txMiningApiKey

(***************************************************************************)
(* No sequence of reloads leads to a configuration the process cannot run  *)
(* with: the options whose change it says it does not support are those of *)
(* boot ("Checking changes in the fields: http_post, http_bind_address,    *)
(* ...", settings.js:158-163), and the seeds that came with a reload are   *)
(* valid.  Not all options that are read only at boot are among the        *)
(* former: logging and plugin_config are not, and a reload that changes    *)
(* them is installed.  (settings.js:158-182, 216-234)                      *)
(***************************************************************************)
AppMatchesConfig ==
  config \notin {None, Boot} =>
    /\ config.static = Boot.static
    /\ \A k \in DOMAIN Options(config.seeds) : config.seeds[k] \in Words

(***************************************************************************)
(* A service that says it failed, or gives no answer, is never counted as  *)
(* healthy, and one that says it passed always is, unless a reload took    *)
(* the configuration away while it was asked; and unless that happened,    *)
(* text and code agree on an answered warning, though they count it with   *)
(* configurations read at two times.  Of an answer whose body has no       *)
(* status the text says that the service is healthy, and the code is what  *)
(* healthcheck-lib makes of an undefined status: nothing is promised.      *)
(* (healthcheck.service.js:8-15, 98-171)                                   *)
(***************************************************************************)
HealthIsTold ==
  probe.phase = "answered" =>
    /\ probe.told = "fail" => ~probe.healthy
    /\ probe.told = "pass" /\ ~probe.away => probe.healthy
    /\ probe.told # None /\ ~probe.healthy /\ ~probe.away => probe.bad
=============================================================================
