---------------------------- MODULE ServiceProofs ----------------------------
(***************************************************************************)
(* The invariants of Settings, for all contents of config.js and any       *)
(* sequence of reloads; that of Http, whose tables of routes and handlers  *)
(* are gone through row by row; and those of the service made of the two.  *)
(***************************************************************************)
EXTENDS Service, TLAPS

(* What must hold of whichever configuration the service can read next. *)
AppFits(c) ==
  /\ c.static = Boot.static
  /\ c # Boot => \A k \in DOMAIN Options(c.seeds) : c.seeds[k] \in Words

LibFits(c) ==
  /\ DOMAIN lib = {"txMiningUrl", "txMiningApiKey", "swap", "server", "network"}
  /\ ~putBack => lib.server = c.server /\ lib.network = c.network
  /\ lib.swap = IF c.swap # None THEN c.swap
                ELSE IF c.network = "mainnet" THEN SwapMainnet ELSE SwapTestnet
  /\ c.txMiningUrl # None => lib.txMiningUrl = c.txMiningUrl
  /\ c.txMiningApiKey # None => lib.txMiningApiKey = c.txMiningApiKey

(* x is a wallet, or the start of one, that c could have started; its seed
   and its multisig data are found. *)
StartFits(x, c) ==
  /\ DOMAIN x = {"seedKey", "seed", "multisigKey", "multisig", "watched", "server", "network",
                 "params", "setLib"}
  /\ x.server = c.server /\ x.network = c.network /\ x.params = c.params
  /\ x.seedKey # None => x.seed \in Words /\ At(c.seeds, x.seedKey) = x.seed
  /\ x.multisigKey # None /\ x.watched =>
       /\ x.multisigKey \in DOMAIN Options(c.seeds)
       /\ x.multisig # None /\ At(c.multisig, x.multisigKey) = x.multisig

WalletsFit(c) ==
  \A w \in WalletIds \ straddled :
    /\ starting[w] # None => StartFits(starting[w], c)
    /\ wallets[w] # None => StartFits(wallets[w], c)

Fits(c) == c \in Configs /\ AppFits(c) /\ LibFits(c) /\ WalletsFit(c)

(* The reload keeps the configuration in old while nobody can read it, and
   the library and the wallets still fit that one. *)
ReloadInv ==
  /\ reload \in {"idle", "import", "stop"}
  /\ config # None => reload = "idle" /\ Fits(config)
  /\ reload # "idle" => Fits(old)
  /\ reload = "stop" => new \in Configs /\ AppFits(new)
  /\ DOMAIN starting = WalletIds /\ DOMAIN wallets = WalletIds
  /\ \A w \in WalletIds : starting[w] = None \/ wallets[w] = None

(* A check that no reload disturbed counts with the present configuration. *)
ProbeInv ==
  /\ probe \in [phase : {"idle", "asked", "answered"}, warn : BOOLEAN,
                told : {None, "pass", "warn", "fail"},
                healthy : BOOLEAN, bad : BOOLEAN, away : BOOLEAN]
  /\ probe.phase = "asked" /\ ~probe.away => config # None /\ probe.warn = config.warn
  /\ HealthIsTold

-----------------------------------------------------------------------------
(* What the analysis found no difference in fits the new configuration. *)

LEMMA AppStaysFit ==
  ASSUME NEW o, NEW n, AppFits(o), ~Unrecoverable(o, n)
  PROVE  AppFits(n)
BY DEF AppFits, Unrecoverable

LEMMA LibStaysFit ==
  ASSUME NEW o, NEW n, LibFits(o), ~MustReconfigure(o, n)
  PROVE  LibFits(n)
BY DEF LibFits, MustReconfigure, NodeChanged

LEMMA LibIsInitialised ==
  ASSUME NEW l, NEW c, lib' = InitLib(l, c)
  PROVE  LibFits(c)'
BY DEF LibFits, InitLib

LEMMA StartStaysFit ==
  ASSUME NEW x, NEW o \in Configs, NEW n \in Configs, StartFits(x, o), ~MustStop(o, n)
  PROVE  StartFits(x, n)
<1> USE SettingsAssumption
<1>1. /\ x.server = n.server /\ x.network = n.network /\ x.params = n.params
  BY DEF StartFits, MustStop, NodeChanged
<1>2. \A k \in DOMAIN Options(o.seeds) :
        At(n.seeds, k) = o.seeds[k] /\ o.seeds[k] # None
  BY DEF MustStop, SeedsChanged
<1>3. ASSUME x.seedKey # None
      PROVE  x.seed \in Words /\ At(n.seeds, x.seedKey) = x.seed
  <2>1. x.seed \in Words /\ At(o.seeds, x.seedKey) = x.seed /\ x.seed # None
    BY <1>3 DEF StartFits
  <2>2. x.seedKey \in DOMAIN Options(o.seeds) /\ o.seeds[x.seedKey] = x.seed
    BY <2>1 DEF At
  <2> QED BY <2>1, <2>2, <1>2
<1>4. ASSUME x.multisigKey # None, x.watched
      PROVE  /\ x.multisigKey \in DOMAIN Options(n.seeds)
             /\ x.multisig # None /\ At(n.multisig, x.multisigKey) = x.multisig
  <2> DEFINE m == x.multisigKey
  <2>1. /\ m \in DOMAIN Options(o.seeds)
        /\ x.multisig # None /\ At(o.multisig, m) = x.multisig
    BY <1>4 DEF StartFits
  <2>2. m \in DOMAIN Options(n.seeds)
    BY <2>1, <1>2 DEF At
  <2>3. m \in DOMAIN Options(o.multisig) /\ o.multisig[m] = x.multisig
    BY <2>1 DEF At
  <2>4. SameMultisig(o.multisig[m], At(n.multisig, m))
    BY <2>1, <2>3 DEF MustStop, SeedsChanged
  <2>5. m \in DOMAIN Options(n.multisig) /\ At(n.multisig, m) = n.multisig[m]
    BY <2>4 DEF SameMultisig, At
  <2>6. o.multisig[m] = Data(o.multisig[m]) /\ n.multisig[m] = Data(n.multisig[m])
    BY <2>3, <2>5
  <2>7. Data(o.multisig[m]) = Data(n.multisig[m])
    BY <2>4, <2>5 DEF SameMultisig, Data
  <2> QED BY <2>1, <2>2, <2>3, <2>5, <2>6, <2>7
<1> QED BY <1>1, <1>3, <1>4 DEF StartFits

-----------------------------------------------------------------------------
(* A start fits the configuration it reads. *)
LEMMA StartFitsItsConfig ==
  ASSUME NEW w \in WalletIds, NEW k, NEW m, StartBegins(w, k, m), DOMAIN starting = WalletIds
  PROVE  StartFits(starting'[w], config)
<1> DEFINE x == starting'[w]
<1>1. /\ x.seedKey = k /\ x.seed = At(config.seeds, k)
      /\ x.multisigKey = m /\ x.multisig = At(config.multisig, m)
      /\ x.watched = (m \in DOMAIN Options(config.seeds))
      /\ x.server = config.server /\ x.network = config.network /\ x.params = config.params
      /\ DOMAIN x = {"seedKey", "seed", "multisigKey", "multisig", "watched", "server",
                     "network", "params", "setLib"}
  BY DEF StartBegins
<1>2. k # None => At(config.seeds, k) \in Words
  BY DEF StartBegins, SeedFound
<1>3. m # None => At(config.multisig, m) # None
  BY DEF StartBegins, MultisigFound, ProperMultisig
<1>4. StartFits(x, config)
  <2> HIDE DEF x
  <2> QED BY <1>1, <1>2, <1>3 DEF StartFits
<1> QED BY <1>4

(* Installing the configuration that was analysed. *)
LEMMA InstallFits ==
  ASSUME NEW n, Install(n), old \in Configs, n \in Configs, LibFits(old), AppFits(n), WalletsFit(n)'
  PROVE  /\ reload' = "idle" /\ config' = n
         /\ Fits(n)'
<1>1. reload' = "idle" /\ config' = n
  BY DEF Install
<1>2. LibFits(n)'
  <2>1. CASE MustReconfigure(old, n)
    BY <2>1, LibIsInitialised DEF Install
  <2>2. CASE ~MustReconfigure(old, n)
    BY <2>2, LibStaysFit DEF Install, LibFits
  <2> QED BY <2>1, <2>2
<1> QED BY <1>1, <1>2 DEF Fits, AppFits

LEMMA ReloadInvStart == Init => ReloadInv
<1> SUFFICES ASSUME Init PROVE ReloadInv
  OBVIOUS
<1> USE SettingsAssumption
<1>1. LibFits(Boot)
  BY DEF Init, InitLib, LibFits
<1>2. AppFits(Boot)
  BY DEF AppFits
<1>3. WalletsFit(Boot)
  BY DEF Init, WalletsFit
<1> QED BY <1>1, <1>2, <1>3 DEF Init, ReloadInv, Fits

(* The steps that change neither a configuration nor the library. *)
SameReload == UNCHANGED <<config, old, new, reload, lib, putBack>>

LEMMA WalletStepKeepsInv ==
  ASSUME ReloadInv, SameReload, SettingsAssumption,
         DOMAIN starting' = WalletIds, DOMAIN wallets' = WalletIds,
         \A w \in WalletIds : starting'[w] = None \/ wallets'[w] = None,
         config # None => WalletsFit(config)',
         reload # "idle" => WalletsFit(old)'
  PROVE  ReloadInv'
<1>1. config # None => Fits(config)'
  BY DEF ReloadInv, Fits, AppFits, LibFits, SameReload
<1>2. reload # "idle" => Fits(old)'
  BY DEF ReloadInv, Fits, AppFits, LibFits, SameReload
<1>3. reload' = "stop" => new' \in Configs /\ AppFits(new)'
  BY DEF ReloadInv, SameReload, AppFits
<1>4. /\ reload' \in {"idle", "import", "stop"}
      /\ config' # None => reload' = "idle"
  BY DEF ReloadInv, SameReload
<1>5. UNCHANGED <<config, reload>>
  BY DEF SameReload
<1> QED BY <1>1, <1>2, <1>3, <1>4, <1>5 DEF ReloadInv

(* A start that no reload overtook has the node of the present configuration. *)
LEMMA StartSetsLibKeepsInv ==
  ASSUME SettingsAssumption, ReloadInv, NEW w \in WalletIds, StartSetsLib(w)
  PROVE  ReloadInv'
<1>1. /\ UNCHANGED <<config, old, new, reload, wallets, straddled>>
      /\ starting[w] # None /\ putBack' = (w \in straddled)
      /\ starting' = [starting EXCEPT ![w].setLib = TRUE]
      /\ lib' = [lib EXCEPT !.server = starting[w].server, !.network = starting[w].network]
  BY DEF StartSetsLib
<1>2. DOMAIN starting' = WalletIds /\ DOMAIN wallets' = WalletIds
  BY <1>1 DEF ReloadInv
<1>3. wallets[w] = None
  BY <1>1 DEF ReloadInv
<1>4. /\ \A v \in WalletIds \ {w} : starting'[v] = starting[v]
      /\ starting'[w] = [starting[w] EXCEPT !.setLib = TRUE]
  BY <1>1 DEF ReloadInv
<1>5. \A v \in WalletIds : starting'[v] = None \/ wallets'[v] = None
  BY <1>1, <1>3, <1>4 DEF ReloadInv
<1>6. ASSUME NEW c, StartFits(starting[w], c)
      PROVE  /\ starting[w].server = c.server /\ starting[w].network = c.network
             /\ StartFits(starting'[w], c)
  <2> DEFINE x == starting[w]
  <2>1. DOMAIN x = {"seedKey", "seed", "multisigKey", "multisig", "watched", "server",
                    "network", "params", "setLib"}
    BY <1>6 DEF StartFits
  <2>2. PICK y : y = [x EXCEPT !.setLib = TRUE]
    OBVIOUS
  <2>3. /\ DOMAIN y = DOMAIN x
        /\ y.seedKey = x.seedKey /\ y.seed = x.seed
        /\ y.multisigKey = x.multisigKey /\ y.multisig = x.multisig /\ y.watched = x.watched
        /\ y.server = x.server /\ y.network = x.network /\ y.params = x.params
    BY <2>1, <2>2
  <2>4. StartFits(y, c)
    BY <1>6, <2>3 DEF StartFits
  <2> QED BY <1>4, <1>6, <2>2, <2>4 DEF StartFits
<1>7. ASSUME NEW c, Fits(c)
      PROVE  WalletsFit(c)'
  BY <1>1, <1>3, <1>4, <1>6, <1>7 DEF Fits, WalletsFit
<1>8. ASSUME NEW c, Fits(c)
      PROVE  LibFits(c)'
  <2>1. DOMAIN lib = {"txMiningUrl", "txMiningApiKey", "swap", "server", "network"}
    BY <1>8 DEF Fits, LibFits
  <2>2. /\ DOMAIN lib' = DOMAIN lib
        /\ lib'.server = starting[w].server /\ lib'.network = starting[w].network
        /\ lib'.txMiningUrl = lib.txMiningUrl /\ lib'.txMiningApiKey = lib.txMiningApiKey
        /\ lib'.swap = lib.swap
    BY <1>1, <2>1
  <2>3. ~putBack' => starting[w].server = c.server /\ starting[w].network = c.network
    BY <1>1, <1>6, <1>8 DEF Fits, WalletsFit
  <2> QED BY <1>8, <2>1, <2>2, <2>3 DEF Fits, LibFits
<1>9. config # None => Fits(config)'
  <2>1. ASSUME config # None
        PROVE  WalletsFit(config)' /\ LibFits(config)' /\ AppFits(config) /\ config \in Configs
    BY <1>1, <1>7, <1>8, <2>1 DEF ReloadInv, Fits
  <2> QED BY <1>1, <2>1 DEF Fits, AppFits
<1>10. reload # "idle" => Fits(old)'
  <2>1. ASSUME reload # "idle"
        PROVE  WalletsFit(old)' /\ LibFits(old)' /\ AppFits(old) /\ old \in Configs
    BY <1>1, <1>7, <1>8, <2>1 DEF ReloadInv, Fits
  <2> QED BY <1>1, <2>1 DEF Fits, AppFits
<1>11. reload' = "stop" => new' \in Configs /\ AppFits(new)'
  BY <1>1 DEF ReloadInv, AppFits
<1> QED BY <1>1, <1>2, <1>5, <1>9, <1>10, <1>11 DEF ReloadInv

LEMMA ReloadInvStep == ReloadInv /\ [Next]_vars => ReloadInv'
<1> SUFFICES ASSUME ReloadInv, [Next]_vars PROVE ReloadInv'
  OBVIOUS
<1> USE SettingsAssumption
<1>1. ASSUME NEW w \in WalletIds, NEW k, NEW m, StartBegins(w, k, m)
      PROVE  ReloadInv'
  <2>1. SameReload /\ UNCHANGED <<wallets, straddled>> /\ config # None /\ wallets[w] = None
    BY <1>1 DEF StartBegins, SameReload
  <2>2. DOMAIN starting' = WalletIds /\ \A v \in WalletIds \ {w} : starting'[v] = starting[v]
    BY <1>1 DEF StartBegins, ReloadInv
  <2>3. StartFits(starting'[w], config)
    BY <1>1, StartFitsItsConfig DEF ReloadInv
  <2>4. reload = "idle" /\ WalletsFit(config)
    BY <2>1 DEF ReloadInv, Fits
  <2>5. WalletsFit(config)'
    BY <2>1, <2>2, <2>3, <2>4 DEF WalletsFit, StartFits, SameReload
  <2>6. DOMAIN wallets' = WalletIds /\ \A v \in WalletIds : starting'[v] = None \/ wallets'[v] = None
    BY <2>1, <2>2 DEF ReloadInv
  <2> QED BY <2>1, <2>2, <2>4, <2>5, <2>6, WalletStepKeepsInv
<1>2. ASSUME NEW w \in WalletIds, StartResolves(w) \/ StartRejects(w) \/ Stop(w)
      PROVE  ReloadInv'
  <2>1. SameReload
    BY <1>2 DEF StartResolves, StartRejects, Stop, SameReload
  <2>2. DOMAIN starting' = WalletIds /\ DOMAIN wallets' = WalletIds
    BY <1>2 DEF StartResolves, StartRejects, Stop, ReloadInv
  <2>3. \A v \in WalletIds \ {w} : starting'[v] = starting[v] /\ wallets'[v] = wallets[v]
    BY <1>2 DEF StartResolves, StartRejects, Stop, ReloadInv
  <2>4. \/ straddled' = straddled /\ starting'[w] = None /\ wallets'[w] = starting[w]
        \/ straddled' = straddled \ {w} /\ starting'[w] = None /\ wallets'[w] = None
    BY <1>2 DEF StartResolves, StartRejects, Stop, ReloadInv
  <2>5. /\ config # None => WalletsFit(config)
        /\ reload # "idle" => WalletsFit(old)
    BY DEF ReloadInv, Fits
  <2>6. WalletsFit(config) => WalletsFit(config)'
    BY <2>1, <2>3, <2>4 DEF WalletsFit, StartFits, SameReload
  <2>7. WalletsFit(old) => WalletsFit(old)'
    BY <2>1, <2>3, <2>4 DEF WalletsFit, StartFits, SameReload
  <2>8. \A v \in WalletIds : starting'[v] = None \/ wallets'[v] = None
    BY <2>3, <2>4 DEF ReloadInv
  <2> QED BY <2>1, <2>2, <2>5, <2>6, <2>7, <2>8, WalletStepKeepsInv
<1>3. CASE ReloadBegins
  <2>1. /\ old' = config /\ config' = None /\ reload' = "import"
        /\ UNCHANGED <<lib, putBack, starting, wallets, straddled>>
    BY <1>3 DEF ReloadBegins
  <2>2. Fits(config)
    BY <1>3 DEF ReloadBegins, ReloadInv
  <2>3. Fits(old)'
    BY <2>1, <2>2 DEF Fits, AppFits, LibFits, WalletsFit, StartFits
  <2> QED BY <2>1, <2>3 DEF ReloadInv
<1>4. ASSUME NEW n \in Configs, ReloadAnalysed(n)
      PROVE  ReloadInv'
  <2>1. /\ reload = "import" /\ Fits(old) /\ ~Unrecoverable(old, n)
        /\ UNCHANGED <<starting, wallets>>
    BY <1>4 DEF ReloadAnalysed, ReloadInv
  <2>2. AppFits(n)
    BY <2>1, AppStaysFit DEF Fits
  <2>3. DOMAIN starting = WalletIds /\ DOMAIN wallets = WalletIds
        /\ \A w \in WalletIds : starting[w] = None \/ wallets[w] = None
    BY DEF ReloadInv
  <2>4. CASE MustStop(old, n)
    <3>1. new' = n /\ reload' = "stop" /\ UNCHANGED <<lib, putBack, config, old, straddled>>
      BY <1>4, <2>4 DEF ReloadAnalysed
    <3>2. Fits(old)'
      BY <2>1, <3>1 DEF Fits, AppFits, LibFits, WalletsFit, StartFits
    <3>3. AppFits(new)'
      BY <2>2, <3>1 DEF AppFits
    <3>4. config = None
      BY <2>1 DEF ReloadInv
    <3> QED BY <2>1, <2>3, <3>1, <3>2, <3>3, <3>4 DEF ReloadInv
  <2>5. CASE ~MustStop(old, n)
    <3>1. Install(n) /\ straddled' = straddled \cup Overtaken
      BY <1>4, <2>5 DEF ReloadAnalysed
    <3>2. ASSUME NEW w \in WalletIds \ straddled', wallets'[w] # None
          PROVE  StartFits(wallets'[w], n)
      BY <2>1, <2>5, <3>1, <3>2, StartStaysFit DEF Fits, WalletsFit
    <3>3. \A w \in WalletIds \ straddled' : starting'[w] = None
      BY <2>1, <3>1 DEF Overtaken
    <3>4. WalletsFit(n)'
      BY <3>2, <3>3 DEF WalletsFit, StartFits
    <3>5. reload' = "idle" /\ config' = n /\ Fits(n)'
      BY <2>1, <2>2, <3>1, <3>4, InstallFits DEF Fits
    <3>6. Fits(config)'
      BY <3>5
    <3> QED BY <2>1, <2>3, <3>5, <3>6 DEF ReloadInv
  <2> QED BY <2>4, <2>5
<1>5. ASSUME NEW n \in Configs, ReloadExits(n)
      PROVE  ReloadInv'
  <2>1. SameReload /\ UNCHANGED <<starting, wallets, straddled>>
    BY <1>5 DEF ReloadExits, SameReload
  <2> QED BY <2>1 DEF SameReload, ReloadInv, Fits, AppFits, LibFits, WalletsFit, StartFits
<1>6. CASE ReloadFails
  <2>1. /\ reload # "idle" /\ reload' = "idle" /\ config' = config
        /\ UNCHANGED <<starting, wallets>>
    BY <1>6 DEF ReloadFails
  <2>2. config = None
    BY <2>1 DEF ReloadInv
  <2> QED BY <2>1, <2>2 DEF ReloadInv
<1>7. CASE ReloadStops
  <2>1. /\ reload = "stop" /\ Fits(old) /\ new \in Configs /\ AppFits(new)
        /\ wallets' = [w \in WalletIds |-> None] /\ starting' = starting
        /\ Install(new) /\ straddled' = Overtaken
    BY <1>7 DEF ReloadStops, ReloadInv
  <2>2. \A w \in WalletIds \ straddled' : starting'[w] = None
    BY <2>1 DEF Overtaken
  <2>3. PICK n : n = new
    OBVIOUS
  <2>4. WalletsFit(n)'
    BY <2>1, <2>2 DEF WalletsFit
  <2>5. reload' = "idle" /\ config' = n /\ Fits(n)'
    BY <2>1, <2>3, <2>4, InstallFits DEF Fits
  <2>6. Fits(config)'
    BY <2>5
  <2>7. DOMAIN starting' = WalletIds
    BY <2>1 DEF ReloadInv
  <2> QED BY <2>1, <2>5, <2>6, <2>7 DEF ReloadInv
<1>8. ASSUME UNCHANGED <<config, old, new, reload, lib, putBack, starting, wallets, straddled>>
      PROVE  ReloadInv'
  BY <1>8 DEF ReloadInv, Fits, AppFits, LibFits, WalletsFit, StartFits
<1>9. CASE UNCHANGED vars
  BY <1>8, <1>9 DEF vars
<1>10. CASE ProbeAsks \/ ProbeEnds
  BY <1>8, <1>10 DEF ProbeAsks, ProbeEnds
<1>11. ASSUME NEW how, NEW verdict, ProbeAnswers(how, verdict)
       PROVE  ReloadInv'
  BY <1>8, <1>11 DEF ProbeAnswers
<1>12. ASSUME NEW w \in WalletIds, StartSetsLib(w)
       PROVE  ReloadInv'
  BY <1>12, StartSetsLibKeepsInv
<1> QED BY <1>1, <1>2, <1>3, <1>4, <1>5, <1>6, <1>7, <1>9, <1>10, <1>11, <1>12 DEF Next

-----------------------------------------------------------------------------
(* Health checks. *)

LEMMA ProbeInvStart == Init => ProbeInv
BY DEF Init, Quiet, ProbeInv, HealthIsTold

LEMMA ProbeInvStep ==
  ASSUME SettingsAssumption, ReloadInv, ProbeInv, [Next]_vars PROVE ProbeInv'
<1>1. ASSUME UNCHANGED <<config, probe>>
      PROVE  ProbeInv'
  BY <1>1 DEF ProbeInv, HealthIsTold
<1>2. CASE UNCHANGED vars
  BY <1>1, <1>2 DEF vars
<1>3. ASSUME NEW w \in WalletIds, NEW k, NEW m, StartBegins(w, k, m)
      PROVE  ProbeInv'
  BY <1>1, <1>3 DEF StartBegins
<1>4. ASSUME NEW w \in WalletIds,
             StartSetsLib(w) \/ StartResolves(w) \/ StartRejects(w) \/ Stop(w)
      PROVE  ProbeInv'
  BY <1>1, <1>4 DEF StartSetsLib, StartResolves, StartRejects, Stop
<1>5. CASE ReloadBegins
  <2> DEFINE gone == probe.away \/ probe.phase = "asked"
  <2>1. gone \in BOOLEAN /\ (probe.phase = "asked" => gone) /\ (probe.away => gone)
    BY DEF ProbeInv
  <2>2. probe' = [probe EXCEPT !.away = gone] /\ config' = None
    BY <1>5 DEF ReloadBegins
  <2> HIDE DEF gone
  <2> QED BY <2>1, <2>2 DEF ProbeInv, HealthIsTold
<1>6. ASSUME probe' = probe, reload # "idle"
      PROVE  ProbeInv'
  BY <1>6 DEF ProbeInv, HealthIsTold, ReloadInv
<1>7. ASSUME NEW n, ReloadAnalysed(n) \/ ReloadExits(n)
      PROVE  ProbeInv'
  BY <1>6, <1>7 DEF ReloadAnalysed, ReloadExits
<1>8. CASE ReloadFails \/ ReloadStops
  BY <1>6, <1>8 DEF ReloadFails, ReloadStops
<1>9. CASE ProbeAsks
  <2>1. config \in Configs /\ config # None
    BY <1>9 DEF ProbeAsks, ReloadInv, Fits
  <2>2. PICK b \in BOOLEAN : b = config.warn
    BY <2>1 DEF SettingsAssumption
  <2>3. probe' = [phase |-> "asked", warn |-> b, told |-> None, healthy |-> TRUE,
                  bad |-> FALSE, away |-> FALSE] /\ config' = config
    BY <1>9, <2>2 DEF ProbeAsks, Quiet
  <2> QED BY <2>1, <2>2, <2>3 DEF ProbeInv, HealthIsTold
<1>10. ASSUME NEW how \in {"ok", "rejected", "none"},
              NEW verdict \in {"pass", "warn", "fail", None}, ProbeAnswers(how, verdict)
       PROVE  ProbeInv'
  <2>1. config # None => config.warn \in BOOLEAN
    BY DEF ReloadInv, Fits, SettingsAssumption
  <2> DEFINE r == Reported(how, verdict)
             said == IF how = "none" THEN "fail" ELSE verdict
  <2>2. PICK h \in CountsHealthy(r.status) :
          probe' = [probe EXCEPT !.phase = "answered", !.told = said,
                                 !.healthy = h, !.bad = r.bad]
    BY <1>10, Zenon DEF ProbeAnswers
  <2>3. probe.phase = "asked" /\ config' = config
    BY <1>10 DEF ProbeAnswers
  <2>4. /\ h \in BOOLEAN
        /\ r.status = "pass" => h
        /\ r.status = "fail" => ~h
        /\ r.status = "warn" /\ ~h => probe.warn
    <3>1. r.status \in {"pass", "warn", "fail"} => r.status # None
      BY DEF SettingsAssumption
    <3> QED BY <2>2, <3>1 DEF CountsHealthy
  <2>5. None \notin {"pass", "warn", "fail"}
    BY DEF SettingsAssumption
  <2>6. CASE how = "rejected"
    <3>1. r = [status |-> verdict, bad |-> TRUE] /\ said = verdict
      BY <2>6 DEF Reported
    <3>2. /\ r.bad = TRUE /\ said = verdict
          /\ verdict = "fail" => ~h
          /\ verdict = "pass" => h
      BY <2>4, <3>1
    <3> HIDE DEF r, said
    <3> QED BY <2>2, <2>3, <2>4, <2>5, <3>2 DEF ProbeInv, HealthIsTold
  <2>7. CASE how = "ok" /\ config # None
    <3>1. /\ r.status = verdict /\ said = verdict
          /\ r.bad = (verdict = "fail" \/ (verdict = "warn" /\ config.warn))
      BY <2>7 DEF Reported
    <3>2. r.bad \in BOOLEAN
      BY <3>1, Zenon
    <3>3. /\ verdict = "fail" => ~h /\ r.bad
          /\ verdict = "pass" => h
          /\ verdict = "warn" /\ ~h => probe.warn
          /\ verdict = "warn" /\ config.warn => r.bad
      BY <2>4, <3>1
    <3>4. said = verdict
      BY <3>1
    <3> HIDE DEF r, said
    <3> QED BY <2>2, <2>3, <2>4, <2>5, <3>2, <3>3, <3>4 DEF ProbeInv, HealthIsTold
  <2>8. CASE how # "rejected" /\ ~(how = "ok" /\ config # None)
    <3>1. r = [status |-> "fail", bad |-> TRUE]
      BY <2>8 DEF Reported
    <3>2. r.bad = TRUE /\ ~h
      BY <2>4, <3>1
    <3>3. said = "fail" \/ (said = verdict /\ config = None)
      BY <2>8
    <3> HIDE DEF r, said
    <3> QED BY <2>2, <2>3, <2>4, <2>5, <3>2, <3>3 DEF ProbeInv, HealthIsTold
  <2> QED BY <2>6, <2>7, <2>8
<1>11. CASE ProbeEnds
  BY <1>11 DEF ProbeEnds, ProbeInv, HealthIsTold, Quiet
<1> QED BY <1>2, <1>3, <1>4, <1>5, <1>7, <1>8, <1>9, <1>10, <1>11 DEF Next

-----------------------------------------------------------------------------
SettingsInv == ReloadInv /\ ProbeInv

(* The inductive invariant holds from boot on. *)
LEMMA SettingsInvHolds == Spec => []SettingsInv
<1> USE SettingsAssumption DEF SettingsInv
<1>1. Init => SettingsInv
  BY ReloadInvStart, ProbeInvStart
<1>2. SettingsInv /\ [Next]_vars => SettingsInv'
  BY ReloadInvStep, ProbeInvStep
<1> QED BY <1>1, <1>2, PTL DEF Spec

(***************************************************************************)
(* Wallets fit the configuration in force: every reload that would make    *)
(* one of them another wallet stops it.  (settings.js:184-252)             *)
(***************************************************************************)
THEOREM WalletsAlwaysMatch == Spec => []WalletsMatchConfig
<1>1. ReloadInv => WalletsMatchConfig
  BY DEF ReloadInv, Fits, WalletsFit, StartFits, WalletsMatchConfig
<1> QED BY <1>1, SettingsInvHolds, PTL DEF SettingsInv

(***************************************************************************)
(* The library works with the configuration in force, but for what the     *)
(* code leaves behind: server and network after a wallet whose start a     *)
(* reload overtook has put the old ones back, and the tx-mining options    *)
(* that a reload took out of the file.                                     *)
(* (settings.js:30-60, 236-261, wallet.helper.js:32-60)                    *)
(***************************************************************************)
THEOREM LibAlwaysMatches == Spec => []LibMatchesConfig
<1>1. ReloadInv => LibMatchesConfig
  BY DEF ReloadInv, Fits, LibFits, LibMatchesConfig
<1> QED BY <1>1, SettingsInvHolds, PTL DEF SettingsInv

(***************************************************************************)
(* No sequence of reloads installs another value of an option that is read *)
(* at boot and that a reload compares; logging and plugin_config are read  *)
(* at boot too and compared with nothing.  (settings.js:158-182, 216-234)  *)
(***************************************************************************)
THEOREM AppAlwaysMatches == Spec => []AppMatchesConfig
<1>1. ReloadInv => AppMatchesConfig
  BY DEF ReloadInv, Fits, AppFits, AppMatchesConfig
<1> QED BY <1>1, SettingsInvHolds, PTL DEF SettingsInv

(***************************************************************************)
(* What is told of a service agrees with the status it answered with, or   *)
(* with its silence, through reloads that come between the two readings of *)
(* the configuration; an answer whose body has no status is told as one    *)
(* without a status and said to be healthy.                                *)
(* (healthcheck.service.js:8-15, 98-171)                                   *)
(***************************************************************************)
THEOREM HealthIsAlwaysTold == Spec => []HealthIsTold
<1>1. ProbeInv => HealthIsTold
  BY DEF ProbeInv
<1> QED BY <1>1, SettingsInvHolds, PTL DEF SettingsInv

-----------------------------------------------------------------------------
(* The tables of Http.  A handler is harmless if none of its code before a
   try can throw on a body, and guarded if what it throws on, odd fields
   aside, is what the validators of its path reject; one that is not awaited
   catches the rest.  A free path has no validators. *)

Harmless(h) == h.breaks = {} /\ h.exposed = FALSE /\ h.awaited = TRUE

Guarded(p, h) ==
  /\ h.checks = TRUE
  /\ h.awaited = TRUE \/ (h.fails = "caught" /\ h.exposed = FALSE)
  /\ \A b : Accepts(p, b) => \A c \in h.breaks : \E f \in DOMAIN c : b[f] # c[f]

Free(p, h) == h.breaks = {} /\ h.awaited = TRUE /\ NoSchema \subseteq SchemaOf(p)

Unguarded(p, h) == p = "/fireblocks/start" /\ h.awaited = TRUE

Sound(r) ==
  Harmless(r[2]) \/ Guarded(r[1], r[2]) \/ Free(r[1], r[2]) \/ Unguarded(r[1], r[2])

LEMMA PlainIsSound ==
  \A r, f : r[2] \in {Checked(f), Unchecked(f)} => Sound(r)
<1> TAKE r, f
<1>1. CASE r[2] = Checked(f)
  <2>1. r[2].breaks = {} /\ r[2].checks = TRUE /\ r[2].awaited = TRUE
    BY <1>1 DEF Checked
  <2> QED BY <2>1 DEF Sound, Guarded
<1>2. CASE r[2] = Unchecked(f)
  <2>1. r[2].breaks = {} /\ r[2].exposed = FALSE /\ r[2].awaited = TRUE
    BY <1>2 DEF Checked, Unchecked
  <2> QED BY <2>1 DEF Sound, Harmless
<1> QED BY <1>1, <1>2

LEMMA FreeAccepts ==
  ASSUME NEW p, NEW b, NoSchema \subseteq SchemaOf(p)
  PROVE  Accepts(p, b)
BY DEF NoSchema, Schema, Accepts

(* What the routes files declare for the handlers that rely on it. *)
LEMMA SchemasRelied ==
  /\ SchemaOf("/health")
       \subseteq Schema({}, {"wallet_ids", "include_fullnode", "include_tx_mining"})
  /\ SchemaOf("/wallet/send-tx")
       \subseteq Schema({"outputs"}, {"inputs", "token", "change_address", "debug"})
  /\ SchemaOf("/wallet/tx-proposal")
       \subseteq Both(txBuildSchema, queryInputSchema \cup txInputSchema)
  /\ SchemaOf("/wallet/tx-proposal/add-signatures") \subseteq txHexInputDataSchema
  /\ SchemaOf("/wallet/tx-proposal/input-data") \subseteq p2pkhSignature \cup p2shSignature
  /\ SchemaOf(Multisig)
       \subseteq Schema({"outputs"}, {"inputs", "change_address", "mark_inputs_as_used"})
  /\ SchemaOf("/wallet/nano-contracts/create") \subseteq nanoContractCreateData
  /\ SchemaOf("/wallet/nano-contracts/execute") \subseteq nanoContractExecuteData
<1> USE DEF SchemaOf, Routes, WalletRoutes, RootRoutes, ReadRoutes, SimpleSendRoutes,
      SendTxRoute, TokenRoutes, UtxoRoutes, ConfigRoutes, SwapRoutes, ProposalRoutes,
      MultisigRoutes, MultisigSignRoutes, NanoRoutes, TemplateRoutes, Swap, Multisig
<1>1. SchemaOf("/health")
        \subseteq Schema({}, {"wallet_ids", "include_fullnode", "include_tx_mining"})
  OBVIOUS
<1>2. SchemaOf("/wallet/send-tx")
        \subseteq Schema({"outputs"}, {"inputs", "token", "change_address", "debug"})
  OBVIOUS
<1>3. SchemaOf("/wallet/tx-proposal")
        \subseteq Both(txBuildSchema, queryInputSchema \cup txInputSchema)
  OBVIOUS
<1>4. SchemaOf("/wallet/tx-proposal/add-signatures") \subseteq txHexInputDataSchema
  OBVIOUS
<1>5. SchemaOf("/wallet/tx-proposal/input-data") \subseteq p2pkhSignature \cup p2shSignature
  OBVIOUS
<1>6. SchemaOf(Multisig)
        \subseteq Schema({"outputs"}, {"inputs", "change_address", "mark_inputs_as_used"})
  OBVIOUS
<1>7. SchemaOf("/wallet/nano-contracts/create") \subseteq nanoContractCreateData
  OBVIOUS
<1>8. SchemaOf("/wallet/nano-contracts/execute") \subseteq nanoContractExecuteData
  OBVIOUS
<1> QED BY <1>1, <1>2, <1>3, <1>4, <1>5, <1>6, <1>7, <1>8

LEMMA SendTxSound == Sound(<<"/wallet/send-tx", SendTx>>)
<1>1. \A b : Accepts("/wallet/send-tx", b) =>
        b["outputs"] \notin {"absent", "bad"} /\ b["inputs"] # "bad"
  BY SchemasRelied DEF Accepts, Schema
<1> QED BY <1>1 DEF Sound, Guarded, SendTx, FundsBreak, Missing, Checked

LEMMA HealthSound == Sound(<<"/health", Health>>)
<1>1. \A b : Accepts("/health", b) => b["wallet_ids"] # "bad"
  BY SchemasRelied DEF Accepts, Schema
<1> QED BY <1>1 DEF Sound, Guarded, Health, Checked

LEMMA ProposalSound == \A r \in ProposalHandlers : Sound(r)
<1>1. Sound(<<"/wallet/tx-proposal", [Checked("passed") EXCEPT !.breaks = FundsBreak]>>)
  <2>1. \A b : Accepts("/wallet/tx-proposal", b) =>
                 b["outputs"] \notin {"absent", "bad"} /\ b["inputs"] # "bad"
    BY SchemasRelied DEF Accepts, Schema, Both, txBuildSchema, queryInputSchema, txInputSchema
  <2> QED BY <2>1 DEF Sound, Guarded, FundsBreak, Missing, Checked
<1>2. Sound(<<"/wallet/tx-proposal/add-signatures", AddSignatures>>)
  <2>1. \A b : Accepts("/wallet/tx-proposal/add-signatures", b) =>
                 /\ b["txHex"] \notin {"absent", "bad"}
                 /\ b["signatures"] \notin {"absent", "bad"}
    BY SchemasRelied DEF Accepts, Schema, Both, txHexInputDataSchema, txHexSchema
  <2> QED BY <2>1 DEF Sound, Guarded, AddSignatures, Missing, Checked
<1>3. Sound(<<"/wallet/tx-proposal/input-data", InputData>>)
  <2>1. \A b : Accepts("/wallet/tx-proposal/input-data", b) =>
                 \/ b["signature"] \notin {"absent", "bad"}
                 \/ b["signatures"] \notin {"absent", "bad"}
    BY SchemasRelied DEF Accepts, Schema, p2pkhSignature, p2shSignature
  <2> QED BY <2>1 DEF Sound, Guarded, InputData, Checked
<1> QED BY <1>1, <1>2, <1>3, PlainIsSound DEF ProposalHandlers

LEMMA MultisigSound == \A r \in MultisigHandlers : Sound(r)
<1>1. Sound(<<Multisig, [Checked("passed") EXCEPT !.breaks = Missing("outputs")]>>)
  <2>1. \A b : Accepts(Multisig, b) => b["outputs"] \notin {"absent", "bad"}
    BY SchemasRelied DEF Accepts, Schema
  <2> QED BY <2>1 DEF Sound, Guarded, Missing, Checked
<1> QED BY <1>1, PlainIsSound DEF MultisigHandlers

LEMMA NanoSound == \A r \in NanoHandlers : Sound(r)
<1>1. \A a \in nanoContractCreateData \cup nanoContractExecuteData : "data" \in a.required
  <2>1. \A a \in nanoContractData : "data" \in a.required
    BY DEF nanoContractData, Schema
  <2>2. \A a \in nanoContractCreateData : "data" \in a.required
    BY <2>1 DEF nanoContractCreateData, Both
  <2>3. \A a \in nanoContractExecuteData : "data" \in a.required
    BY <2>1 DEF nanoContractExecuteData, Both
  <2> QED BY <2>2, <2>3
<1>2. \A b : \A p \in NotAwaited : Accepts(p, b) => b["data"] \notin {"absent", "bad"}
  <2>1. \A a \in SchemaOf("/wallet/nano-contracts/create") : "data" \in a.required
    BY <1>1, SchemasRelied
  <2>2. \A a \in SchemaOf("/wallet/nano-contracts/execute") : "data" \in a.required
    BY <1>1, SchemasRelied
  <2> QED BY <2>1, <2>2 DEF Accepts, NotAwaited
<1>3. \A p \in NotAwaited : Guarded(p, NanoExecute)
  <2>1. NanoExecute.checks = TRUE /\ NanoExecute.fails = "caught" /\ NanoExecute.exposed = FALSE
    BY DEF NanoExecute, Checked
  <2>2. \A c \in NanoExecute.breaks : DOMAIN c = {"data"} /\ c["data"] \in {"absent", "bad"}
    BY DEF NanoExecute, Checked, Missing
  <2> QED BY <1>2, <2>1, <2>2 DEF Guarded
<1> QED BY <1>3, PlainIsSound DEF NanoHandlers, Sound

LEMMA SwapSound == \A r \in SwapHandlers : Sound(r)
<1>1. Sound(<<Swap, SwapBuild>>)
  BY DEF Sound, Guarded, SwapBuild, Checked
<1> QED BY <1>1, PlainIsSound DEF SwapHandlers

LEMMA FreePaths ==
  \A p \in {"/start", "/multisig-pubkey", "/hsm/start"} : NoSchema \subseteq SchemaOf(p)
<1> SUFFICES ASSUME NEW p \in {"/start", "/multisig-pubkey", "/hsm/start"}, NEW a \in NoSchema
             PROVE  a \in SchemaOf(p)
  OBVIOUS
<1>1. <<p, a>> \in {"/", "/docs", "/start", "/multisig-pubkey", "/hsm/start"} \X NoSchema
  OBVIOUS
<1>2. <<p, a>> \in Routes
  BY <1>1 DEF Routes, RootRoutes
<1>3. <<p, a>> \in {s \in Routes : s[1] = p} /\ <<p, a>>[2] = a
  BY <1>2
<1> QED BY <1>3 DEF SchemaOf

LEMMA RootSound == \A r \in RootHandlers : Sound(r)
<1>1. \A r \in {"/", "/docs"} \X {Unchecked("passed")} : Sound(r)
  BY PlainIsSound
<1>2. \A r \in {"/start", "/multisig-pubkey"} \X {StartOrPubkey} : Sound(r)
  BY FreePaths DEF Sound, Free, StartOrPubkey, Checked, Unchecked
<1>3. \A r \in {"/push-tx"} \X {[Checked("caught") EXCEPT !.reads = "first"]} : Sound(r)
  BY DEF Sound, Guarded, Checked
<1>4. \A r \in {"/configuration-string"} \X {[Checked("passed") EXCEPT !.callsBack = TRUE]} :
        Sound(r)
  BY DEF Sound, Guarded, Checked
<1> QED BY <1>1, <1>2, <1>3, <1>4 DEF RootHandlers

LEMMA HandlersSound == \A r \in Handlers : Sound(r)
<1>1. \A r \in RootHandlers : Sound(r)
  BY RootSound
<1>2. \A r \in ReadHandlers \cup SendingHandlers \cup ConfigHandlers \cup TemplateHandlers :
        Sound(r)
  BY PlainIsSound DEF ReadHandlers, SendingHandlers, ConfigHandlers, TemplateHandlers
<1>3. Sound(<<"/fireblocks/start", FireblocksStart>>)
  BY DEF Sound, Unguarded, FireblocksStart, Checked, Unchecked
<1>4. /\ Sound(<<"/hsm/start", HsmStart>>)
      /\ Sound(<<"/wallet/tx-confirmation-blocks", ConfirmationBlocks>>)
      /\ Sound(<<"/wallet/decode", Decode>>) /\ Sound(<<"/wallet/stop", StopWallet>>)
  <2>1. Sound(<<"/hsm/start", HsmStart>>)
    BY FreePaths DEF Sound, Free, HsmStart, Checked, Unchecked
  <2>2. Sound(<<"/wallet/tx-confirmation-blocks", ConfirmationBlocks>>)
    BY DEF Sound, Guarded, ConfirmationBlocks, Checked
  <2>3. Sound(<<"/wallet/decode", Decode>>) /\ Sound(<<"/wallet/stop", StopWallet>>)
    BY PlainIsSound DEF Decode, StopWallet
  <2> QED BY <2>1, <2>2, <2>3
<1> QED
  BY <1>1, <1>2, <1>3, <1>4, SendTxSound, HealthSound, ProposalSound, MultisigSound, NanoSound,
     SwapSound DEF Handlers

(* Every path the routes files declare has a handler. *)
Handled(p) == \E r \in Handlers : r[1] = p

LEMMA RowsAreHandled ==
  ASSUME NEW S, NEW h, S \X {h} \subseteq Handlers
  PROVE  \A p \in S : Handled(p)
<1> TAKE p \in S
<1>1. <<p, h>> \in Handlers /\ <<p, h>>[1] = p
  OBVIOUS
<1> QED BY <1>1 DEF Handled

LEMMA RowIsHandled ==
  ASSUME NEW p, NEW h, <<p, h>> \in Handlers
  PROVE  Handled(p)
<1>1. <<p, h>>[1] = p
  OBVIOUS
<1> QED BY <1>1 DEF Handled

LEMMA RootHandled == \A r \in RootRoutes : Handled(r[1])
<1>1. \A p \in {"/", "/docs"} : Handled(p)
  <2>1. {"/", "/docs"} \X {Unchecked("passed")} \subseteq Handlers
    BY DEF Handlers, RootHandlers
  <2> QED BY <2>1, RowsAreHandled
<1>2. \A p \in {"/start", "/multisig-pubkey"} : Handled(p)
  <2>1. {"/start", "/multisig-pubkey"} \X {StartOrPubkey} \subseteq Handlers
    BY DEF Handlers, RootHandlers
  <2> QED BY <2>1, RowsAreHandled
<1>3. Handled("/push-tx")
  <2>1. <<"/push-tx", [Checked("caught") EXCEPT !.reads = "first"]>> \in Handlers
    BY DEF Handlers, RootHandlers
  <2> QED BY <2>1, RowIsHandled
<1>4. Handled("/configuration-string")
  <2>1. <<"/configuration-string", [Checked("passed") EXCEPT !.callsBack = TRUE]>> \in Handlers
    BY DEF Handlers, RootHandlers
  <2> QED BY <2>1, RowIsHandled
<1>5. Handled("/hsm/start")
  <2>1. <<"/hsm/start", HsmStart>> \in Handlers
    BY DEF Handlers
  <2> QED BY <2>1, RowIsHandled
<1>6. Handled("/fireblocks/start")
  <2>1. <<"/fireblocks/start", FireblocksStart>> \in Handlers
    BY DEF Handlers
  <2> QED BY <2>1, RowIsHandled
<1>7. Handled("/health")
  <2>1. <<"/health", Health>> \in Handlers
    BY DEF Handlers
  <2> QED BY <2>1, RowIsHandled
<1> QED BY <1>1, <1>2, <1>3, <1>4, <1>5, <1>6, <1>7 DEF RootRoutes

LEMMA ReadHandled == \A p \in Paths(ReadRoutes) : Handled(p)
<1> DEFINE rest == Paths(ReadRoutes) \ (UncheckedReads \cup {"/wallet/tx-confirmation-blocks"})
<1>1. \A p \in UncheckedReads : Handled(p)
  <2>1. UncheckedReads \X {Unchecked("passed")} \subseteq Handlers
    BY DEF Handlers, ReadHandlers
  <2> QED BY <2>1, RowsAreHandled
<1>2. \A p \in rest : Handled(p)
  <2>1. rest \X {Checked("passed")} \subseteq Handlers
    BY DEF Handlers, ReadHandlers
  <2> HIDE DEF rest
  <2> QED BY <2>1, RowsAreHandled
<1>3. Handled("/wallet/tx-confirmation-blocks")
  <2>1. <<"/wallet/tx-confirmation-blocks", ConfirmationBlocks>> \in Handlers
    BY DEF Handlers
  <2> QED BY <2>1, RowIsHandled
<1> QED BY <1>1, <1>2, <1>3

LEMMA SendingHandled ==
  /\ \A p \in Paths(TokenRoutes) \cup Paths(UtxoRoutes) : Handled(p)
  /\ \A r \in SimpleSendRoutes \cup SendTxRoute : Handled(r[1])
<1> DEFINE caught == {"/wallet/simple-send-tx"} \cup Paths(TokenRoutes)
                       \cup (Paths(UtxoRoutes) \ {"/wallet/stop"})
<1>1. \A p \in caught : Handled(p)
  <2>1. caught \X {Checked("caught")} \subseteq Handlers
    BY DEF Handlers, SendingHandlers
  <2> HIDE DEF caught
  <2> QED BY <2>1, RowsAreHandled
<1>2. Handled("/wallet/stop")
  <2>1. <<"/wallet/stop", StopWallet>> \in Handlers
    BY DEF Handlers
  <2> QED BY <2>1, RowIsHandled
<1>3. Handled("/wallet/decode")
  <2>1. <<"/wallet/decode", Decode>> \in Handlers
    BY DEF Handlers
  <2> QED BY <2>1, RowIsHandled
<1>4. Handled("/wallet/send-tx")
  <2>1. <<"/wallet/send-tx", SendTx>> \in Handlers
    BY DEF Handlers
  <2> QED BY <2>1, RowIsHandled
<1> QED BY <1>1, <1>2, <1>3, <1>4 DEF SimpleSendRoutes, SendTxRoute

LEMMA ConfigHandled == \A p \in Paths(ConfigRoutes) : Handled(p)
<1> DEFINE rest == Paths(ConfigRoutes) \ UncheckedConfig
<1>1. \A p \in UncheckedConfig : Handled(p)
  <2>1. UncheckedConfig \X {Unchecked("passed")} \subseteq Handlers
    BY DEF Handlers, ConfigHandlers
  <2> QED BY <2>1, RowsAreHandled
<1>2. \A p \in rest : Handled(p)
  <2>1. rest \X {Checked("passed")} \subseteq Handlers
    BY DEF Handlers, ConfigHandlers
  <2> HIDE DEF rest
  <2> QED BY <2>1, RowsAreHandled
<1> QED BY <1>1, <1>2

LEMMA SwapHandled == \A p \in Paths(SwapRoutes) : Handled(p)
<1> DEFINE rest == Paths(SwapRoutes) \ ({Swap} \cup SwapPassed \cup SwapCaught)
<1>1. \A p \in SwapPassed : Handled(p)
  <2>1. SwapPassed \X {Unchecked("passed")} \subseteq Handlers
    BY DEF Handlers, SwapHandlers
  <2> QED BY <2>1, RowsAreHandled
<1>2. \A p \in SwapCaught : Handled(p)
  <2>1. SwapCaught \X {Unchecked("caught")} \subseteq Handlers
    BY DEF Handlers, SwapHandlers
  <2> QED BY <2>1, RowsAreHandled
<1>3. \A p \in rest : Handled(p)
  <2>1. rest \X {Checked("caught")} \subseteq Handlers
    BY DEF Handlers, SwapHandlers
  <2> HIDE DEF rest
  <2> QED BY <2>1, RowsAreHandled
<1>4. Handled(Swap)
  <2>1. <<Swap, SwapBuild>> \in Handlers
    BY DEF Handlers, SwapHandlers
  <2> QED BY <2>1, RowIsHandled
<1> QED BY <1>1, <1>2, <1>3, <1>4

LEMMA ProposalHandled == \A r \in ProposalRoutes : Handled(r[1])
<1>1. Handled("/wallet/tx-proposal")
  <2>1. <<"/wallet/tx-proposal", [Checked("passed") EXCEPT !.breaks = FundsBreak]>> \in Handlers
    BY DEF Handlers, ProposalHandlers
  <2> QED BY <2>1, RowIsHandled
<1>2. Handled("/wallet/tx-proposal/add-signatures")
  <2>1. <<"/wallet/tx-proposal/add-signatures", AddSignatures>> \in Handlers
    BY DEF Handlers, ProposalHandlers
  <2> QED BY <2>1, RowIsHandled
<1>3. Handled("/wallet/tx-proposal/input-data")
  <2>1. <<"/wallet/tx-proposal/input-data", InputData>> \in Handlers
    BY DEF Handlers, ProposalHandlers
  <2> QED BY <2>1, RowIsHandled
<1>4. Handled("/wallet/tx-proposal/get-wallet-inputs")
  <2>1. <<"/wallet/tx-proposal/get-wallet-inputs", Checked("caught")>> \in Handlers
    BY DEF Handlers, ProposalHandlers
  <2> QED BY <2>1, RowIsHandled
<1> QED BY <1>1, <1>2, <1>3, <1>4 DEF ProposalRoutes

LEMMA MultisigHandled == \A p \in Paths(MultisigRoutes \cup MultisigSignRoutes) : Handled(p)
<1> DEFINE rest == Paths(MultisigRoutes \cup MultisigSignRoutes) \ {Multisig}
<1>1. \A p \in rest : Handled(p)
  <2>1. rest \X {Checked("caught")} \subseteq Handlers
    BY DEF Handlers, MultisigHandlers
  <2> HIDE DEF rest
  <2> QED BY <2>1, RowsAreHandled
<1>2. Handled(Multisig)
  <2>1. <<Multisig, [Checked("passed") EXCEPT !.breaks = Missing("outputs")]>> \in Handlers
    BY DEF Handlers, MultisigHandlers
  <2> QED BY <2>1, RowIsHandled
<1> QED BY <1>1, <1>2

LEMMA NanoHandled ==
  /\ \A p \in Paths(NanoRoutes) : Handled(p)
  /\ \A p \in Paths(TemplateRoutes) : Handled(p)
<1> DEFINE rest == Paths(NanoRoutes) \ NotAwaited
<1>1. \A p \in NotAwaited : Handled(p)
  <2>1. NotAwaited \X {NanoExecute} \subseteq Handlers
    BY DEF Handlers, NanoHandlers
  <2> QED BY <2>1, RowsAreHandled
<1>2. \A p \in rest : Handled(p)
  <2>1. rest \X {Checked("caught")} \subseteq Handlers
    BY DEF Handlers, NanoHandlers
  <2> HIDE DEF rest
  <2> QED BY <2>1, RowsAreHandled
<1>3. \A p \in Paths(TemplateRoutes) : Handled(p)
  <2>1. Paths(TemplateRoutes) \X {Checked("caught")} \subseteq Handlers
    BY DEF Handlers, TemplateHandlers
  <2> QED BY <2>1, RowsAreHandled
<1> QED BY <1>1, <1>2, <1>3

(* The handler of every path is one whose inputs are guarded. *)
LEMMA EveryPathIsSound ==
  ASSUME NEW p \in Paths(Routes)
  PROVE  LET h == HandlerOf[p] IN
         Harmless(h) \/ Guarded(p, h) \/ Free(p, h) \/ Unguarded(p, h)
<1>1. Handled(p)
  BY RootHandled, ReadHandled, SendingHandled, ConfigHandled, SwapHandled, ProposalHandled,
     MultisigHandled, NanoHandled DEF Paths, Routes, WalletRoutes
<1> DEFINE r == CHOOSE x \in Handlers : x[1] = p
<1>2. r \in Handlers /\ r[1] = p
  BY <1>1 DEF Handled
<1>3. HandlerOf[p] = r[2]
  BY DEF HandlerOf
<1> HIDE DEF r
<1>4. Sound(r)
  BY <1>2, HandlersSound
<1> QED BY <1>2, <1>3, <1>4 DEF Sound

-----------------------------------------------------------------------------
(* A request that is under way has a path of its own, and only what the
   property excuses has failed on an input. *)
HttpInv ==
  /\ stage \notin {"idle", "answered"} => route \in Paths(Routes)
  /\ stage = "confirming" => ConfirmFirstAddress = TRUE
  /\ InvalidInputCausesNoFailure

(* Whose input a handler may throw on. *)
Excused == route = "/fireblocks/start" \/ (Accepts(route, body) /\ IsOdd(body))

LEMMA TripIsExcused ==
  ASSUME route \in Paths(Routes), PassesCheck, Breaks \/ MayBreak
  PROVE  Handler.awaited = TRUE /\ Excused
<1>1. CASE Harmless(Handler)
  BY <1>1 DEF Harmless, Breaks, MayBreak
<1>2. CASE Guarded(route, Handler)
  <2>1. Accepts(route, body)
    BY <1>2 DEF Guarded, PassesCheck
  <2>2. ~Breaks
    BY <1>2, <2>1 DEF Guarded, Breaks
  <2>3. Handler.exposed /\ IsOdd(body)
    BY <2>2 DEF MayBreak
  <2>4. Handler.awaited = TRUE
    BY <1>2, <2>3 DEF Guarded
  <2> QED BY <2>1, <2>3, <2>4 DEF Excused
<1>3. CASE Free(route, Handler)
  <2>1. ~Breaks
    BY <1>3 DEF Free, Breaks
  <2>2. IsOdd(body)
    BY <2>1 DEF MayBreak
  <2>3. Accepts(route, body)
    BY <1>3, FreeAccepts DEF Free
  <2> QED BY <1>3, <2>2, <2>3 DEF Excused, Free
<1>4. CASE Unguarded(route, Handler)
  BY <1>4 DEF Unguarded, Excused
<1> QED BY <1>1, <1>2, <1>3, <1>4, EveryPathIsSound DEF Handler

LEMMA HttpInvStart == HttpInit => HttpInv
BY DEF HttpInit, HttpInv, InvalidInputCausesNoFailure

LEMMA HttpInvStep == HttpInv /\ [HttpNext]_httpVars => HttpInv'
<1> SUFFICES ASSUME HttpInv, [HttpNext]_httpVars PROVE HttpInv'
  OBVIOUS
<1> USE DEF HttpInv, InvalidInputCausesNoFailure
<1>s. CASE UNCHANGED httpVars
  BY <1>s DEF httpVars
<1>n. CASE HttpNext
  <2>1. CASE Arrives
    BY <2>1 DEF Arrives, Goto
  <2>2. CASE Serve
    <3>1. CASE Malformed
      BY <3>1 DEF Malformed, Answers
    <3>2. CASE MiddlewareThrows
      BY <3>2 DEF MiddlewareThrows, Unhandled
    <3>3. CASE Refused
      BY <3>3 DEF Refused, Answers
    <3>4. CASE PassesMiddlewares
      BY <3>4, HttpAssumption DEF PassesMiddlewares, Goto
    <3>5. CASE AddressTold
      BY <3>5 DEF AddressTold, Answers, Unhandled
    <3>6. CASE ConfigThrows
      BY <3>6 DEF ConfigThrows, Rejects, Unhandled
    <3>7. CASE BadRequest
      BY <3>7 DEF BadRequest, HandlerRuns, Answers
    <3>8. CASE Trips
      <4>1. stage = "validating" /\ route \in Paths(Routes) /\ PassesCheck
            /\ (Breaks \/ MayBreak)
        BY <3>8 DEF Trips, HandlerRuns
      <4>2. Handler.awaited = TRUE /\ Excused
        BY <4>1, TripIsExcused
      <4>3. UNCHANGED <<route, body, ended>> /\ stage' \notin {"idle", "confirming"}
        BY <3>8, <4>2 DEF Trips, Rejects, Answers
      <4> QED BY <4>1, <4>2, <4>3 DEF Excused
    <3>9. CASE Works
      BY <3>9 DEF Works, HandlerRuns
    <3>10. CASE WorkEnds
      BY <3>10 DEF WorkEnds, Answers
    <3>11. CASE WorkFails
      <4>1. CASE Handler.fails = "answered" /\ err' = "work" /\ Answers(500)
                   /\ UNCHANGED <<route, body, available, ended>>
        BY <4>1 DEF Answers
      <4>2. ASSUME Handler.fails = "passed", NEW e \in {"work", "readonly"}, Rejects(e)
            PROVE  HttpInv'
        <5>1. stage = "working" /\ route \in Paths(Routes)
          BY <3>11 DEF WorkFails
        <5>2. Handler.awaited = TRUE
          <6>1. Harmless(Handler) \/ Guarded(route, Handler) \/ Handler.awaited = TRUE
            BY <5>1, EveryPathIsSound DEF Handler, Free, Unguarded
          <6> QED BY <6>1, <4>2 DEF Harmless, Guarded
        <5> QED BY <4>2, <5>1, <5>2 DEF Rejects
      <4> QED BY <3>11, <4>1, <4>2 DEF WorkFails
    <3>12. CASE ConfigErrorHandler
      BY <3>12 DEF ConfigErrorHandler, Answers
    <3>13. CASE ReadonlyErrorHandler
      BY <3>13 DEF ReadonlyErrorHandler, Answers
    <3>14. CASE LastErrorHandler
      BY <3>14 DEF LastErrorHandler, Answers
    <3> QED
      BY <2>2, <3>1, <3>2, <3>3, <3>4, <3>5, <3>6, <3>7, <3>8, <3>9, <3>10, <3>11, <3>12,
         <3>13, <3>14 DEF Serve
  <2>3. CASE CalledBack
    BY <2>3 DEF CalledBack, Answers
  <2>4. CASE Leaves
    BY <2>4 DEF Leaves, Goto
  <2>5. CASE Reload
    BY <1>n, <2>5 DEF HttpNext, Reload
  <2> QED BY <1>n, <2>1, <2>2, <2>3, <2>4, <2>5 DEF HttpNext
<1> QED BY <1>s, <1>n

(***************************************************************************)
(* No handler but that of /fireblocks/start works on what its validators   *)
(* reject, however many fields deviate, and one that throws on what they   *)
(* accept does so on an odd field; no body ends the process.  What the     *)
(* code of every handler relies on before its try, and can be asked of a   *)
(* validator, is what those of its path ask for.  (routes/, controllers/,  *)
(* patch.js:10-63)                                                         *)
(***************************************************************************)
THEOREM InvalidInputsCauseNoFailure == HttpSpec => []InvalidInputCausesNoFailure
<1>1. HttpInv => InvalidInputCausesNoFailure
  BY DEF HttpInv
<1> QED BY <1>1, HttpInvStart, HttpInvStep, PTL DEF HttpSpec

-----------------------------------------------------------------------------
(* The service. *)

LEMMA HttpInvHolds == HttpInit /\ [][HttpNext]_httpVars => []HttpInv
BY HttpInvStart, HttpInvStep, PTL

(* getConfig() has a configuration to return exactly when Settings has one,
   and a process that runs did not exit. *)
Coupled ==
  /\ available = (config # None)
  /\ ended = "no" => exited = FALSE

ServiceInv == SettingsInv /\ Coupled

LEMMA ServiceInvStart == ServiceInit => ServiceInv
<1>1. Init => SettingsInv
  BY ReloadInvStart, ProbeInvStart, SettingsAssumption DEF SettingsInv
<1>2. ServiceInit => Coupled
  BY SettingsAssumption DEF ServiceInit, Init, HttpInit, Coupled
<1> QED BY <1>1, <1>2 DEF ServiceInit, ServiceInv

LEMMA StepOfSettings == [ServiceNext]_serviceVars => [Next]_vars
BY DEF ServiceNext, serviceVars, Requests, Serves, Configures

(* A reload gives the process up when nobody can read a configuration. *)
LEMMA ExitIsUnreadable ==
  ASSUME ReloadInv, exited = FALSE, Next, exited' # FALSE
  PROVE  config = None /\ config' = None /\ exited' = TRUE
<1>1. PICK n \in Configs : ReloadExits(n)
  BY DEF Next, StartBegins, StartSetsLib, StartResolves, StartRejects, Stop, ReloadBegins, ReloadFails,
         ReloadStops, ReloadAnalysed, ProbeAsks, ProbeEnds, ProbeAnswers
<1>2. reload = "import" /\ exited' = TRUE /\ config' = config
  BY <1>1 DEF ReloadExits
<1> QED BY <1>2 DEF ReloadInv

LEMMA ServiceInvStep == ServiceInv /\ [ServiceNext]_serviceVars => ServiceInv'
<1> SUFFICES ASSUME ServiceInv, [ServiceNext]_serviceVars PROVE ServiceInv'
  OBVIOUS
<1>1. SettingsInv'
  BY StepOfSettings, ReloadInvStep, ProbeInvStep, SettingsAssumption DEF ServiceInv, SettingsInv
<1>2. Coupled'
  <2>1. CASE UNCHANGED serviceVars
    BY <2>1 DEF serviceVars, vars, httpVars, ServiceInv, Coupled
  <2>2. CASE Configures
    BY <2>2 DEF Configures, Coupled, ServiceInv
  <2>3. CASE Requests
    <3>1. UNCHANGED <<config, exited>> /\ ended = "no"
      BY <2>3 DEF Requests, Serves, vars
    <3>2. UNCHANGED available
      BY <2>3 DEF Requests, Serves, Serve, Arrives, CalledBack, Leaves, Malformed,
             MiddlewareThrows, Refused, PassesMiddlewares, AddressTold, ConfigThrows, Rejects,
             BadRequest, Trips, Works, WorkEnds, WorkFails, ConfigErrorHandler,
             ReadonlyErrorHandler, LastErrorHandler, Unhandled
    <3> QED BY <3>1, <3>2 DEF ServiceInv, Coupled
  <2> QED BY <2>1, <2>2, <2>3 DEF ServiceNext
<1> QED BY <1>1, <1>2 DEF ServiceInv

LEMMA StepOfHttp == ServiceInv /\ [ServiceNext]_serviceVars => [HttpNext]_httpVars
<1> SUFFICES ASSUME ServiceInv, [ServiceNext]_serviceVars PROVE [HttpNext]_httpVars
  OBVIOUS
<1>1. CASE UNCHANGED serviceVars
  BY <1>1 DEF serviceVars, httpVars
<1>2. CASE Requests
  BY <1>2 DEF Requests, Serves, HttpNext
<1>3. CASE Configures
  <2>1. /\ ended = "no" /\ Next /\ available = (config # None) /\ available' = (config' # None)
        /\ ended' = IF exited' THEN "reload" ELSE ended
        /\ UNCHANGED <<stage, route, body, err, status>> /\ exited = FALSE
    BY <1>3 DEF Configures, ServiceInv, Coupled
  <2>2. CASE exited' = FALSE
    <3>1. CASE available' = available
      BY <2>1, <2>2, <3>1 DEF httpVars
    <3>2. CASE available' = ~available
      BY <2>1, <2>2, <3>2 DEF HttpNext, Reload
    <3> QED BY <2>1, <3>1, <3>2
  <2>3. CASE exited' # FALSE
    <3>1. config = None /\ config' = None /\ exited' = TRUE
      BY <2>1, <2>3, ExitIsUnreadable DEF ServiceInv, SettingsInv
    <3> QED BY <2>1, <3>1 DEF HttpNext, Reload
  <2> QED BY <2>2, <2>3
<1> QED BY <1>1, <1>2, <1>3 DEF ServiceNext

LEMMA ServiceInvHolds == ServiceSpec => []ServiceInv
BY ServiceInvStart, ServiceInvStep, PTL DEF ServiceSpec

(***************************************************************************)
(* The requests and reloads of one process do to a request nothing Http    *)
(* does not reckon with: what RequestsAreServed says, but for its          *)
(* fairness.  (settings.js:102-108, 266-283)                               *)
(***************************************************************************)
THEOREM RequestsServed == ServiceSpec => HttpInit /\ [][HttpNext]_httpVars
<1>1. ServiceInit => HttpInit
  BY DEF ServiceInit
<1> QED BY <1>1, ServiceInvHolds, StepOfHttp, PTL DEF ServiceSpec

(***************************************************************************)
(* Requests do to the configuration nothing Settings does not reckon with, *)
(* so that every theorem above about Spec is one about the service.        *)
(* (settings.js:266-283)                                                   *)
(***************************************************************************)
THEOREM ServiceReloads == ServiceSpec => Spec
<1>1. ServiceInit => Init
  BY DEF ServiceInit
<1> QED BY <1>1, StepOfSettings, PTL DEF ServiceSpec, Spec

(***************************************************************************)
(* The same of the service: no handler works on what its validators        *)
(* reject, and no body ends the process, next to any reload that           *)
(* settings.js may be in.  (patch.js:10-63, app.js:38-56)                  *)
(***************************************************************************)
THEOREM ServiceInvalidInputsCauseNoFailure == ServiceSpec => []InvalidInputCausesNoFailure
<1>1. HttpInv => InvalidInputCausesNoFailure
  BY DEF HttpInv
<1> QED BY <1>1, RequestsServed, HttpInvHolds, PTL
=============================================================================
