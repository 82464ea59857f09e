# A verification of hathor-wallet-headless

TLA+ models of the headless wallet (`src/src`), TLC configurations that check
them on small instances, and TLAPS proofs that their main properties hold for
any number of requests, wallets, UTXOs and sessions.

The program is one Node process. Nothing runs in parallel, but almost every
handler awaits: the wallet-lib's storage and fullnode calls, the HSM, Fireblocks,
the atomic swap service, the configuration file. Between two awaits anything
else may run, and the state a handler checked before an await is used after it.
That is what these models are about. **An action is what a handler does between
two awaits**; an await that fails is an action of its own.

## Inventory

| Component | State it keeps | Operations | Talks to |
|---|---|---|---|
| Locks (`lock.js`) | per Lock object and type: taken, timer; GlobalLock: one Lock per wallet, one for the HSM | `lock`, `unlock`, timer, `get`, `delete` | every sending handler, HSM service, `stopWallet` |
| Sending and reserving UTXOs (`wallet.controller`, `p2sh`, `atomic-swap`, `tx-template`, `nano-contracts`, `lock.helper`, `tx.helper`) | the `lockReleased` closure; the wallet-lib's `selected_as_input` marks | the POST handlers that send, build, reserve or unmark | Locks, wallet-lib |
| Input selection (`tx.helper.js`) | `tokens`, `preparedInputs` of one call | `prepareTxFunds`, `getUtxosToFillTx` | wallet-lib `getUtxos` |
| HSM sessions (`hsm.service`, `hsm.controller`) | the SDK's one connection, keys derived on the HSM | connect, validate, derive, read xpub, sign, disconnect | global HSM lock |
| Wallet registry (`wallets.service`, `wallet.middleware`, start controllers) | `initializedWallets`, `hsmWalletIds`, `walletLoggers` | start, stop, `stopAllWallets`, lookup | Locks, configuration, swap proposals |
| Configuration (`settings.js`) | `_config` | `getConfig`, `setupConfig`, `reloadConfig` | registry (`stopAllWallets`), every reader |
| Atomic swap proposals (`atomic-swap.service`, `tx-proposal.controller`) | `walletListenedProposals`; version number at the service | build, register, fetch, sign, unlock inputs, delete | swap service, registry |
| Fireblocks signing (`fireblocks.service`) | none between calls; the client | raw signing request, poll | Fireblocks, SEND_TX lock |
| Notifications (`notification.service`, `plugins/`) | listeners on each wallet, the child process | publish state, new-tx, update-tx, connection events | wallet-lib events, plugins |
| Health checks (`healthcheck.service`) | none between requests | `/health` | fullnode, tx-mining, wallets, configuration |
| Single-await handlers (all controllers) | none | balances, history, addresses, ... | wallet-lib |
| HTTP surface (`app`, routes, schemas, middlewares, `patch.js`) | none that requests change | validation, routing, error handlers | Express, configuration |
| API documentation and logging | none | | |
| Command-line scripts (`scripts/`) | none | run apart from the service | |

What is hard in this system, and what makes each component correct:

* **Locks**: a timer must free only the acquisition it was armed for, and every
  acquisition must end.
* **Sending**: the wallet's lock is given back before the transaction is mined,
  from then on only the marks keep two sends apart; a failed send releases twice;
  several handlers touch the marks without the lock.
* **HSM**: `hsmDisconnect` closes whatever connection is current, so a session
  must never disconnect in another one's stead; a failed signature never
  disconnects at all; a start that broke off leaves half of the keys behind.
* **Registry**: the id is checked before the awaits of a start and set after them;
  `stopWallet` and `stopAllWallets` delete by id after awaiting; four maps must be
  kept in step; `stopAllWallets` loops over the live map.
* **Configuration**: it is null during a reload, and whoever reads it then fails,
  in some places by ending the process; a start carries the configuration it read;
  what a reload compares must cover what wallets and library were given earlier.
* **Atomic swaps**: the listened map is read before a call of the service and
  written after it; answers get lost; others update the same proposal; a Lock is
  looked up again after the awaits.
* **Fireblocks**: a signing is polled for ten minutes under a lock of two; a retry
  finds the raw transaction of an earlier attempt.
* **Notifications**: transaction events wait for a balance, the others do not; two
  buses and a channel lie between a wallet and a plugin; either process may end.
* **HTTP**: which bodies a handler can rely on is decided in another file; an
  error ends in one of three handlers, or in none.

`PROJECT.json` lists the hazards line by line.

## Modules

| Module | Models | Extends |
|---|---|---|
| `Lock` | class `Lock` over a set of slots, a slot being a (Lock object, type) pair | |
| `SendTx` | the requests of one wallet that choose, reserve or free UTXOs | `Lock` |
| `TxFunds` | `prepareTxFunds`, `getUtxosToFillTx`, with amounts | |
| `HsmSession` | sessions with the HSM | `Lock` |
| `Wallets` | the registry, its life cycle, the requests that outlive a wallet, `reloadConfig` | |
| `Fireblocks` | the sends of a wallet signed by Fireblocks; implements `SendTx` | `SendTx` |
| `VersionedProposals` | what a shared swap proposal promises: a register with versions | |
| `SwapProposals` | the swap handlers, the listened map, the service; implements `VersionedProposals` | `Lock` |
| `Settings` | `_analizeConfig`, `initHathorLib`, what wallets and health checks took from the configuration | |
| `Notifications` | events from the wallets to the plugins of the child process | |
| `Http` | one request through middlewares, validators, handler and error handlers | |
| `Service` | the process: `Http` over the configuration of `Settings`; implements `Http` | `Settings`, `Http` |
| `MC*` | the instances TLC runs | |
| `*Proofs` | theorems and proofs about `Lock`, `SendTx` and `Fireblocks` (both in `SendTxProofs`), `TxFunds`, `HsmSession`, `Wallets`, `SwapProposals`, `Notifications`, `Settings` and `Http` and `Service` (these in `ServiceProofs`) | `TLAPS` |

Definitions prefixed by a comment "Slip:" are the plausible bugs the properties
were tried against: each replaces one action, and each breaks the property it
is paired with in `PROJECT.json`.

### Lock

`lockStatus` and `setTimeoutLock` are the fields of the class; `pending` are the
timers armed in Node, which is where a forgotten `clearTimeout` shows. The delay
is abstracted: an armed timer may fire at any moment, so every relation between
two minutes and the duration of a handler is covered.

### SendTx

Every request is one of ten kinds (the comment at `LockingKinds` maps routes
to kinds), sent once, and goes through the awaits of its handler:

    idle -> funds -> prepare -> mark -> mine -> done     sends
    idle -> unmark -> done                               unlock, unmark
    idle -> choose -> reserve -> done                    proposals
    idle -> reserve -> done                              mark, lease

`funds` is the await of `prepareTxFunds`, which only send-tx has and which lies
before its `try`. `prepare` is the wallet-lib's builder together with
`sendTx.prepareTx()`, `mark` is `updateOutputSelected(true)`, after which
`runSendTransaction` releases the lock, and `mine` is `runFromMining`. The
wallet-lib is external: it chooses unmarked, unspent UTXOs, marks and unmarks
them, keeps a time to live, and accepts or rejects transactions; on a rejection
it may or may not clear the marks. `unlock()` is the closure of
`lock.helper.js`. `overrun` and `freed` are history variables: requests that were
in their section when the timer fired, and UTXOs whose mark was cleared while
another request relied on it.

### TxFunds

One call of `prepareTxFunds`. A step is what lies between two awaits of
`wallet.getUtxos`; the sort, the two branches of `getUtxosToFillTx` and the map
of needed amounts are functions of the request and the sorted utxos. Utxos of one
amount may come in any order (the sort keeps the wallet's, which is not known).
`TokenOrders` holds one sequence, the tokens as the map lists them; it is a set so
that it can be reasoned about without recursion. `utxos` are those that match the
request's filter; the wallet-lib's filter is external. Tokens are `Htr` and others, one
of which is the `Default` that outputs without a token inherit, as send-tx takes it
from its body.

### HsmSession

A session is a start (`startHsmWallet` up to `hsmDisconnect`) or a signature
(`hsmSignTxMethodBuilder`). `current` is the SDK's singleton connection,
`connections` are those open on the HSM. `leaked`, `overrun` and `intruders` are
history: sessions that never disconnected, that outlived the lock, and starts
that disconnect without having connected (their `getConfig` throws during a
reload, which `startHsmWallet` treats as a failed connection).

### Wallets

A wallet object is named by the start that built it. `registry`, `hsmIds`,
`locks`, `taken` and `listened` are the maps; `locks[id]` counts the Locks that
`lock.delete(id)` discarded, so that a request holding the Lock of a stopped
wallet can be told from one holding the next. `config` is `_config`, known by the
reload that installed it, `Null` during a reload. `alive` turns false when
`_updateConfig` ends the process or when a middleware's rejection goes unhandled.
`visited` and `toClear` are the positions of the two loops of `stopAllWallets`:
the first iterates over the live map, the second over a copy of its keys. Which
difference of configuration leads to which of keep, restart and exit is left
open here and decided in `Settings`.

### Fireblocks

For `SendTx`, a send that is being signed is one at `mark`: its inputs are chosen,
not marked, and the lock is held. `SigningStarts` is `Prepared` together with the
call of the signer; `sign[r]` is where the signer is (`post`, `poll`), `raw[r]`
the hash it asks Fireblocks to sign, which is also the external id, `polls[r]`
the loop's `count`. `fbStatus`, `fbInputs` and `fbIndices` are Fireblocks' record
of each raw transaction: a second post of an id is refused with code 1438, which
the client takes for success, so the record is the first attempt's. A rejected
signing is a rejected `prepareTx`: the handler's `catch` unlocks.

### SwapProposals

A request is at `calling` while it awaits the service and `back` when the call
ended, well or not; `section` is what runs under the lock. `listened` is
`walletListenedProposals`, `lockOf` is `GlobalLock`'s map, of which a stop and a
start make a new Lock while requests of the old wallet hold the old one. The
service is external: it keeps a history of each proposal, accepts an update of
the latest version only, drops proposals, and its answers can be lost after the
update took effect. `overrun` and `crossed` are history: requests whose lock timed
out, and Locks that were freed by a request that did not hold them, which
`unlockInputs` does when its wallet was replaced.

### Settings

A configuration is a record with one field for each class of options that the
code treats alike; `config.js` may contain any of a set of them at each reload.
`wallets[w]` is what the running wallet was started with, and `lib` what
`initHathorLib` set, field by field, and what `wallet.start()` sets again, the node of
the wallet's connection (`StartSetsLib`). `putBack` and `straddled` are history: that a
start which a reload overtook was the last to set the node, and such starts. Options
that a reload compares with nothing, as `logging` and `plugin_config`, are left out. `ReloadAnalysed`, `ReloadExits` and
`ReloadFails` are the outcomes of `_analizeConfig`, in the order in which it looks
for differences. `probe` is one health check that reads the configuration twice,
before and after it awaits the service it asks. The service's answer, or the rejection
that carries one, may have a body without a status: the code passes `undefined` on, and
what healthcheck-lib makes of that is left open (`CountsHealthy`).

### Notifications

`raised` are events in the order the wallet-lib raised them, `emitted` in the
order the main process published them, `channel` the IPC channel, `got[p]` what
the handler of plugin p was called with, `inbox[c]` what was sent to a websocket
client. Plugins listen either to `message` or to the events' own names, and
register when `main()` reaches them, or when their broker called back.

### Http

A request goes idle -> reading -> (confirming) -> validating -> working ->
answered, with `failing` for an error on its way to the error handlers. The routes
files are tables, sets of rows of a path and an alternative of its schema, which is
the fields it requires and allows; the controllers are tables of paths and what the
handler does with the fields: whether it asks for the validators' verdict, on which missing
or rejected fields its code throws before its `try`, whether other fields reach code there
that may throw on what validators accept (`exposed`), where it reads the configuration, and
what becomes of a rejection. A field is `"absent"`, `"bad"` (its validators reject it),
`"good"`, or `"odd"`: accepted, and perhaps not what the code can work with. On an odd field
an exposed handler may or may not throw; the table does not claim to know which do. The
actions are the middlewares, the patched router and the error handlers of
`app.js`. `available` says whether `getConfig()` has something to return; `Reload` is
the most that the requests who reload may do to it.

### Service

A step of the service is a step of a request (`Requests`), which leaves the
configuration alone, or one of the code of `Settings` (`Configures`), after which
`available` is whether `config` is there, and the process has ended if
`process.exit(0)` was called. A process that ended for another reason, such as a
rejection nobody handles, reloads no more.

## What the runs check

| Run | Instance | Shows |
|---|---|---|
| `send_tx` | 3 requests of the locking kinds; or 3 of which one does not lock: simple, push and the kinds without a lock; 2 UTXOs, 2 timers | `MutualExclusion`, `NoDoubleSelection`, `LockTakenOnlyForWork`, `ProposalStaysReserved` |
| `funds` | 4 UTXOs of HTR and another token worth up to 3, up to 2 outputs worth up to 3 or data, of either token or none, the default being the other token | `InputsFillOutputs`, `FewestInputs`, `RefusedOnlyWhenShort` |
| `hsm_sessions` | 2 sessions, 2 root keys | `TypeOK`, `OwnConnection`, `StartedWithKeys`, `HsmLockRecovers` |
| `life` | 2 ids, 2 starts that await a signer, 1 stop, 2 reloads | `TypeOK`, `NoOrphan`, `CurrentConfig`, `OneReloadAtATime`, `ConfigComesBack` |
| `uses` | 1 id, 2 starts, 1 stop, 2 uses, 1 reload | `HsmFlagIsRight`, `NewWalletHasFreshLock`, `ListsOwnProposals` |
| `fireblocks` | 2 requests (simple sends and unmark), 2 UTXOs at addresses 0 and 1, 2 hashes (one without a caller, one with a caller at 1), 2 polls, 2 timers | `OneTimerPerAcquisition`, `SignedAsNeeded`, `SigningEnds`, `SendsAreImplemented` (refinement) |
| `swap` | 3 requests, all of them about the service or all of them locking, 1 id with 2 Locks, 1 proposal of up to 2 versions, a right and a wrong password | `TypeOK`, `ListenedPasswordIsRight`, `OneInside`, `RegisterImplemented` (refinement), `ForgottenForReason`, `CallsAreAnswered` |
| `notifications` | 2 transaction events and 2 states, 3 plugins (one of each way to listen), 1 websocket client | `HeardOnceInOrder`, `StatesInOrder`, `EndTogether`, `RaisedIsHeard` |
| `settings` | 1 wallet id, 2 keys, 15 contents of `config.js`: the boot configuration and one for each option or pair of options that meet | `WalletsMatchConfig`, `LibMatchesConfig`, `AppMatchesConfig`, `HealthIsTold` |
| `service` | every route, one request after another, its body good or with one field absent, bad or odd, an API key and a confirmed first address; 2 contents of `config.js`, one that is installed at once and one that ends the process | `InvalidInputCausesNoFailure`, `EveryRequestIsAnswered`, `RequestsAreServed` (refinement) |

Bounds. A hazard of the locks, the sends and the registry is between two requests, or between two requests and
a third that inherits what they left (a lock, a mark, a registry entry), which is
why three requests or two of each sort are enough for it to happen; the theorems
below carry the safety properties to any number. Two UTXOs let inputs overlap,
differ, and be marked one at a time. Four UTXOs let one token need one, several
or all of three or more UTXOs and leave the other with at least one. `MaxAmount` and
`MaxOutput` of 3 give exact, short and exceeding sums. No run has a state
constraint. The behaviours of `SendTx`, `TxFunds`, `HsmSession` and `Wallets` end;
those of the other modules go on, with the bounds in the guards: `MaxPolls` (600
in the code), `MaxVersion` (the updates of one proposal), `Deviations` (the fields
of a body that are not good; the run tries each field alone, and the theorem is about
any number). An event is raised once and a websocket client stays for one connection.
`Http`, which is run as part of `Service`, has one request at a time next to the
reloads, because requests share nothing of what it models but the configuration; they
share that with nothing of a wallet either, so `Service` runs without wallet ids. Its
two contents of `config.js` make a reload give back a configuration, fail, and end the
process, which is all of a reload that a request can notice. A lease is of a marked
UTXO in every state of `SendTx`: its `TypeOK` is proved and has no place in the run.

Requests are symmetric, as are UTXOs, timers, ids and sessions; runs with a
liveness property use no symmetry.

Fairness. `Lock` and `HsmSession`: an armed timer fires in the end (Node runs
due timers). `HsmSession`: every call to the HSM settles one way or the other.
`Wallets`: every promise a request awaits settles, once the request has begun;
nothing obliges a request to come. `Fireblocks`: the posts and polls settle;
Fireblocks itself owes no decision, it is the loop's limit that ends a signing.
`SwapProposals`: a handler that is due runs, and axios reports a call the service
does not serve; the service need not serve any. `Notifications`: balances are
computed, the channel delivers, the end of a process is noticed; plugins need not
start nor brokers connect. `Http`: Node reads the sockets and settles promises; a
callback of the wallet-lib may never come, and two handlers that end in one are
excepted; `Service` asks the same of its requests and nothing of reloads. No action is assumed strongly fair, and no outcome (success or failure)
is assumed fair on its own. `Settings` states safety only.

Refinements. `Fireblocks` implements `SendTx` with the identity on its variables:
posting and polling change nothing of a send, a failed signing is a send whose
`prepareTx` failed, and hence whatever holds of `SendTx` holds with Fireblocks.
`SwapProposals` implements `VersionedProposals`: `asked` is read off the request's
password, proposal and version, `outcome` off its answer. The register promises
that an update answered with success took effect, once, on the version its author
named; of an update answered with a failure it promises nothing, and the run shows
that the code can promise no more. `Service` implements `Http`, with `available` read off
`_config`: that a reload ends the process only after it took the configuration away
is not in `Http` a consequence of anything, it is what `Http` reckons with, and
`Settings` bears it out.

## Where the code does not do what it says

| Run | The code says | What it does |
|---|---|---|
| `overlap` | "it won't start a new one because it must first stop the old wallet and then start the new" (`index.controller.js:71`) | The check and the registration are separated by awaits. Two starts of an id both come up, and the first wallet can no longer be reached or stopped. |
| `exit` | "should return 503 on unavailable config" (`config-error.test.js:34`) | `walletMiddleware` and `loggerMiddleware` are asynchronous and mounted by `use()`, which `patch.js` does not wrap: their rejection is unhandled and Node ends the process. |

Met while modelling, visible in the models or in the provisos of their properties,
and given no run:

* "The unlock method should be always called" (`wallet.controller.js:508`): send-tx
  awaits `prepareTxFunds` between taking the lock and its `try`. When
  `wallet.getUtxos` rejects, the wallet is busy until the timer fires
  (`FundsThrow`).
* "Ensures that only one connection will be open at any given moment"
  (`hsm.service.js:277`): the signing method has no `try`. A signature that fails
  leaves the connection open and the lock taken; after the timer the next session
  opens a second one (`SignFails`, `leaked`).
* The configuration is unavailable because "it is currently on reload"
  (`errors.js:32`): a reload whose import fails leaves it null for good; later
  reloads fail on the null old configuration (`ReloadFails`). So does a new
  configuration without `seeds` when the old one had some: `_analizeConfig` reads
  `newConfig.seeds[seedKey]` (`SeedsThrow`).
* `_analizeConfig` compares multisig data only under the keys of seeds, so a wallet
  started with a `multisigKey` that is no seed's key keeps data the configuration
  has replaced (`watched` in `WalletsMatchConfig`).
* "If not present we will use the default" (`settings.js:47-48`): a `txMiningUrl` or
  `txMiningApiKey` that a reload takes out of the file stays what it was in the library.
  Proviso of `LibMatchesConfig`.
* Server and network "will be set when starting the wallet" (`wallet.helper.js:55-58`):
  a start that a reload overtakes sets, when it comes to `wallet.start()`
  (`wallets.service.js:140`), those of the configuration it was given, and the library
  works with the old node until the next start or reload. `putBack` in
  `LibMatchesConfig`.
* `_analizeConfig` lists the options whose change it does not support
  (`settings.js:158-163`). `logging` and `plugin_config` are read only at boot and not
  among them, nor is `allowPassphrase` compared: a reload that changes the former is
  installed and nothing comes of it. `AppMatchesConfig` is about the options compared.
* A health check whose service answers with a body that has no status says "Fullnode is
  healthy" (`healthcheck.service.js:105-115`, and so for tx-mining at 145) and passes an
  undefined status on, as it does of a rejection (120, 160). `HealthIsTold` promises
  nothing of these.
* "The data output requires that the user burns 0.01 HTR" (`tx.helper.js:163`): the code
  charges the unit to the token the output names or inherits (150-170). `schemas.js:284`
  forbids a data output a token, the schema of send-tx does not, and a send-tx with
  a token gives it to every output without one. `InputsFillOutputs` asks for HTR inputs
  only where all data outputs are HTR's.
* A body that is not JSON fails before `loggerMiddleware` ran; the last error
  handler uses `req.logger` and throws in its turn, and express answers 500
  (`Malformed`).
* Validators let through what handlers throw on outside of any `try`, so that a client's
  mistake is answered with 500: the swap proposal measures `send.tokens` and
  `receive.tokens`, which the schema leaves optional (`tx-proposal.controller.js:51`);
  `add-signatures` parses hex that is no transaction and indexes its inputs
  (`tx-proposal.controller.js:76-79`); `input-data` derives the key of an index of 2^31 or
  more (123); send-tx adds up values, of which `bigIntSanitizer` (`schemas.js:565-573`)
  makes one it cannot parse, as `[5]`, undefined (`tx.helper.js:170`);
  `/multisig-pubkey` finds a `seedKey` such as `toString` in `config.seeds`
  (`index.controller.js:258`). These are the odd fields of
  `InvalidInputCausesNoFailure`. `/fireblocks/start` and the swap's `/register` declare
  validators whose verdict the handlers never ask for; the first throws on what they
  reject.
* `createNanoContract` and `executeNanoContractMethod` call their helper without
  `await`; a rejection before its `try` would end the process. The zod schema
  guarantees what that stretch reads, so it cannot happen:
  `InvalidInputCausesNoFailure` with `awaited = FALSE`.
* `getConfigurationString` and `getTxConfirmationBlocks` answer in a callback of
  the wallet-lib, with no timeout of their own: proviso of `EveryRequestIsAnswered`.
* With `confirmFirstAddress`, an address that cannot be read rejects in
  `walletMiddleware`, which ends the process.
* `start` tests `'precalculatedAddresses' in req.body` and reads
  `req.body.preCalculatedAddresses` (`index.controller.js:220`). Flags validated by
  `isBoolean` without `toBoolean` keep the text `"false"`, which is truthy.
  `isKeyValidXpriv` (`hsm.service.js:336`) tests membership of an array with `in`.
  These are decisions on data the models abstract.
* `docs/plugins.md` names events `wallet:state-changed` and `node:state-changed`;
  the code emits `wallet:state-change` and `node:state-change`. Events published
  before a plugin has registered are not kept for it (`since`).
* The lock's timer frees it under a holder still at work (`lock.js:64`), although
  `lock.js:11-13` speaks of sends being kept apart without exception. Hence
  `overrun = {}` in the properties of `SendTx`.
* `unlockInputs` answers "Cannot run this method while a transaction is being
  sent" only until the lock is released, which is before the transaction is
  mined: it may clear the marks of one being mined. Hence `freed`.
* A swap proposal chooses its UTXOs and marks them in separate awaits, without
  the lock, so a send can take one in between: `ProposalStaysReserved` begins
  when the proposal has been answered, and does not say who else uses the UTXOs.
* `stopAllWallets` leaves `hsmWalletIds` and the locks alone: after a reload a plain
  wallet may be taken for the HSM wallet that had its id, and a send of the old wallet
  may hold the lock of the new one. `cleared` in `HsmFlagIsRight` and
  `NewWalletHasFreshLock`, which say that it takes such a wallet, two overlapping starts
  or a stop that outlived a reload.
* A stop that awaits `wallet.stop()` while a reload clears the id deletes, when it
  resolves, whatever was registered under the id since. Hence `outlived` in
  `NoOrphan` and `ListsOwnProposals`.
* `registerProposal` adds its entry whatever became of the wallet while it
  awaited the service. Hence `late` in `ListsOwnProposals`.

## What is proved

| Theorem | States, for every value of the constants |
|---|---|
| `LockProofs!TimersAreExact` | `LockSpec => []OneTimerPerAcquisition` |
| `SendTxProofs!TypeCorrect` | `Spec => []TypeOK` |
| `SendTxProofs!SendsAreExclusive` | `Spec => []MutualExclusion` |
| `SendTxProofs!LockIsForWork` | `Spec => []LockTakenOnlyForWork` |
| `SendTxProofs!ProposalsStayReserved` | `Spec => []ProposalStaysReserved` |
| `SendTxProofs!SendsDoNotShareInputs` | `Spec => []NoDoubleSelection` |
| `TxFundsProofs!ChosenInputsFill` | `Spec => []InputsFillOutputs` |
| `TxFundsProofs!FewestAreChosen` | `Spec => []FewestInputs` |
| `TxFundsProofs!RefusalsAreJust` | `Spec => []RefusedOnlyWhenShort` |
| `HsmSessionProofs!HsmTypeCorrect` | `Spec => []TypeOK` |
| `HsmSessionProofs!ConnectionIsOwn` | `Spec => []OwnConnection` |
| `HsmSessionProofs!StartsLeaveKeys` | `Spec => []StartedWithKeys` |
| `WalletsProofs!WalletsTypeCorrect` | `Spec => []TypeOK` |
| `WalletsProofs!ReloadsDoNotOverlap` | `Spec => []OneReloadAtATime` |
| `WalletsProofs!NoWalletIsOrphaned` | `Spec => []NoOrphan` |
| `WalletsProofs!WalletsHaveCurrentConfig` | `Spec => []CurrentConfig` |
| `WalletsProofs!HsmFlagsAreRight` | `Spec => []HsmFlagIsRight` |
| `WalletsProofs!ListedProposalsAreOwn` | `Spec => []ListsOwnProposals` |
| `WalletsProofs!NewWalletsHaveFreshLocks` | `Spec => []NewWalletHasFreshLock` |
| `SendTxProofs!SentIsSigned` | `FbSpec => []SignedAsNeeded` |
| `SendTxProofs!SigningImplementsSends` | `FbSpec => Spec` of `SendTx` |
| `SendTxProofs!FireblocksRefinesSends` | `FbSpec => SendsAreImplemented` |
| `NotificationsProofs!EventsAreHeardInOrder` | `Spec => []HeardOnceInOrder` |
| `NotificationsProofs!StatesArePublishedInOrder` | `Spec => []StatesInOrder` |
| `ServiceProofs!WalletsAlwaysMatch` | `Spec => []WalletsMatchConfig` |
| `ServiceProofs!LibAlwaysMatches` | `Spec => []LibMatchesConfig` |
| `ServiceProofs!AppAlwaysMatches` | `Spec => []AppMatchesConfig` |
| `ServiceProofs!HealthIsAlwaysTold` | `Spec => []HealthIsTold` |
| `ServiceProofs!InvalidInputsCauseNoFailure` | `HttpSpec => []InvalidInputCausesNoFailure` |
| `ServiceProofs!RequestsServed` | `ServiceSpec => HttpInit /\ [][HttpNext]_httpVars` |
| `ServiceProofs!ServiceReloads` | `ServiceSpec => Spec` of `Settings` |
| `ServiceProofs!ServiceInvalidInputsCauseNoFailure` | `ServiceSpec => []InvalidInputCausesNoFailure` |
| `SwapProofs!SwapTypeCorrect` | `Spec => []TypeOK` |
| `SwapProofs!ListenedPasswordsAreRight` | `Spec => []ListenedPasswordIsRight` |
| `SwapProofs!OneInsideAtATime` | `Spec => []OneInside` |
| `SwapProofs!ProposalsAreForgottenForReason` | `Spec => ForgottenForReason` |
| `SwapProofs!SwapImplementsRegister` | `Spec => RegisterImplemented` |

Assumptions on the constants: `TimersAssumption`, `SendTxAssumption`,
`TxFundsAssumption`, `HsmAssumption`, `WalletsAssumption`, `FireblocksAssumption`,
`SwapAssumption`, `SettingsAssumption`, `HttpAssumption`, `NotificationsAssumption`. They are about
the names of things (disjointness, membership, no wallet-id being the name of the
HSM's Lock, a Lock for every wallet), about a wallet having finitely many utxos and
their amounts being positive, and, in `Settings`, about what `config.js` contains:
present options have a value, and multisig data has the three fields of its schema.
TLC evaluates them on every run.

The arguments:

* **Lock**. `OneTimerPerAcquisition` with the types is inductive: the operations
  preserve it slot by slot (lemmas on `UnlockWith`, `LockTaken`, `TimerFires`), and
  the modules that extend `Lock` cite the same lemmas.
* **SendTx**. `ControlInv` ties `kind`, `pc`, `answer` and `released` together: a
  request that released never is in its section, and one in its section never
  released. `SectionInv` adds that while no request overran, whoever is in the
  section holds the lock, and there is one. A second `unlock()` of a failed send
  finds `released` set, so it cannot free somebody else's acquisition: this is
  why the closure needs its flag and why the invariant must mention it.
  `MarksInv` says where the marks a request relies on are: marked, spent, freed,
  or still in its `todo`. `ChoiceInv` says that inputs the wallet chose were
  available to it and that nobody else in flight has them, by exclusion before
  they are marked and by the marks after.
* **TxFunds**. The amounts are sums over finite sets, which the community modules
  define as folds. `TxFundsProofs` first derives what is needed of such sums: that
  they exist (`SumsExist`, by induction over the size of the set), that it does not
  matter which element is taken out (`SumTakesOut`), that they grow with the set
  (`SumGrows`). Induction is on the set of those that have the property
  (`SmallerSets`, from the least-element principle), as no theorem with an operator
  for its parameter can be used. `LargestFirstSums` is the heart of the greedy
  choice: no k utxos are worth more than the first k of the sorted list; so if the
  first m are the first to be enough, fewer than m never are. `Chooses` puts the two
  branches of `getUtxosToFillTx` together. `FundsInv` says that each token which left
  the map has been given such a choice (`Best`), that the inputs chosen so far are of
  those tokens only, hence that the next token's inputs are new, and why a request
  was refused. `NeededCounts` relates what the code adds up (a data output's value
  set to 1) to the values sent and the units burnt, which `SentCounts` bounds.
* **HsmSession**. `ConnectionInv`: undisturbed, at most one session is at work, it
  holds the lock, and the current connection is its own from `validate` on.
  `KeysInv`: what each step of a start has left on the HSM.
* **Wallets**. `RegistryInv`: a registered wallet came up under the id. `ReloadInv`:
  while a reload with an old configuration is under way, `config` is null, so the
  next one finds nothing to act on. `OrphanInv` strengthens `NoOrphan` by what
  starts in flight, stops awaiting `wallet.stop()`, and reloads that have copied
  the keys may assume: a reload deletes only keys whose wallets its loop closed,
  because a wallet registered meanwhile is visited before the loop ends.
  `ConfigInv` says what the wallets in flight and the registered ones were built
  with: the configuration, or what a reload that still decides may restore; while
  a reload clears keys, every wallet left is one it will clear or straddles it.
  `FlagInv`, `ListedInv` and `FreshInv` keep the other maps in step with the
  registry. They lean on `OrphanInv`: a start that registers finds no other
  wallet, and a request that works on a running wallet works on the registered
  one.
* **Fireblocks**. `FbInv` adds to `SendTx`'s types that a request the signer works
  on is a send at `mark`, that the raw transaction it asked for hashes its inputs,
  that a signed one stays COMPLETED, and that the signatures returned cover what
  `IndicesToSign` asked, among the indices the raw transaction was created with.
  The post of a retry changes nothing, so the record is the first attempt's and the
  check of the answer is what keeps `SignedAsNeeded`. For the refinement each
  action of the signer is shown to be a step of `SendTx` or to leave its variables
  alone.
* **Settings**. While a reload is under way nobody can read a configuration, and the
  library and the wallets still fit the old one (`ReloadInv`). The lemmas
  `AppStaysFit`, `LibStaysFit` and `StartStaysFit` say that what `_analizeConfig`
  finds no difference in fits the new configuration too; where it finds one, the
  library is set again and the wallets are gone. `StartStaysFit` needs that
  multisig data is nothing but the three fields that are compared. A start that was not
  overtaken sets the node that the library has already, so only an overtaken one can make
  the library unfit, which `putBack` records.
* **Http**. A row of the table of handlers is `Sound` if its handler throws on no body
  (`Harmless`); or asks for the validators' verdict and throws, odd fields aside, only on
  bodies they reject (`Guarded`); or its path has no validators, so that what it throws on
  was accepted (`Free`); or it is `/fireblocks/start`. `SchemasRelied` looks up
  what the routes files declare for the handlers that rely on it; from there each
  table is gone through (`HandlersSound`), and each path is shown to have a row
  (`RootHandled` and the like), so that the handler of a request is a sound one
  (`EveryPathIsSound`). The theorem is about bodies with any number of fields that
  are not good, where the run has one. `HttpInv` adds that a request under way has a
  path that exists and that only a confirmed first address is asked for. A handler
  that is not awaited ends the process if it throws: `Guarded` requires it to catch
  what its work rejects with.
* **Service**. `Coupled`: `getConfig()` has a configuration exactly when `Settings` has
  one, and a process that runs did not exit. With `ReloadInv`, a reload that gives
  the process up does so while nobody can read a configuration
  (`ExitIsUnreadable`), hence each step of `Settings` is a `Reload` of `Http` or
  leaves a request alone (`StepOfHttp`). The fairness of `HttpSpec` is left to TLC.
* **SwapProposals**. Only the first version of a proposal sets its password
  (`ServiceInv`), so an accepted password stays right. `SectionInv` ties each
  request under the lock to the Lock it captured. `UpdateInv` says where each
  update stands: a success that is on its way back has its version in the history
  (`HistoryGrows` keeps it there). `FetchInv` adds that a fetched proposal was there
  when the call left, so "missing" means dropped. The refinement maps each step to
  `Ask`, `TakeEffect`, `Settle`, a write of the outsider, or a stutter.

* **Notifications**. `PublishInv` relates the three stages of publication: what was
  raised is computing or emitted, each event in one place; states do not wait, so
  they keep the order of `raised`. `ListenInv` says that a plugin registers once, in
  the order of `Enabled` or when its broker called back. `HearInv` says that what a plugin got is what was published since it
  registered, less what is still in the channel, which is the end of `emitted`
  (`Ends`); and that a client's inbox is the end of what its plugin got.

The larger of these invariants (`OrphanInv`, `ReloadInv`, `ConfigInv`, `FundsInv`,
the one of `Notifications`) were checked by TLC before they were proved.

Only model-checked: the liveness properties (`HsmLockRecovers`, `ConfigComesBack`,
`SigningEnds`, `CallsAreAnswered`, `EndTogether`, `RaisedIsHeard`,
`EveryRequestIsAnswered`) and the fairness in `RequestsAreServed`, since TLAPS does not
reason about fairness here; and the two violations. Every safety property of a passing
run is proved, of the refinements every step.

## What is not modelled

The wallet-lib, the HSM, Fireblocks, the swap service, the brokers, healthcheck-lib
and Express are modelled by how `src/` uses them.

* `api-docs.js` (a third of the lines) is the text of the API's documentation;
  `logger.js`, `logger.service.js` and `version.js` format what is logged. They hold
  no behaviour but `getLogger`'s reading of the configuration, which is in `Http`
  and `Wallets`.
* `scripts/` are tools for developers, sequential and apart from the service.
* What an answer contains, and which text each validator accepts, are data the
  properties do not tell apart: an answer is its status, a field is absent, good or
  bad. DER signatures, JWTs and derivation paths' text likewise.
* `walletLoggers` is written and deleted together with `initializedWallets` and
  follows it. A wallet's verdict in `/health` is `isReady()` and no more.
* Events are not told apart by wallet in `Notifications`. A wallet that another
  replaced publishes under the same id; when that can be is `NoOrphan` of `Wallets`.
  What a wallet whose start failed still raises is decided in the wallet-lib.
* Modules that share only a Lock are composed through the abstraction they extend:
  `Lock` under the modules that lock, `SendTx` under `Fireblocks`. What a reload
  decides is a free choice in `Wallets` and decided in `Settings`. The constants
  `HttpApiKey` and `ConfirmFirstAddress` of `Http` are options of `config.js` too. The
  first cannot change (`static` of `Settings`); a reload may change the second, and the
  runs have it set, with which a request has every answer it has without.

## Plan

Done, in this order: `Lock`, `SendTx`, `HsmSession`, `Wallets`, `TxFunds` and the
proofs of the first four; `Fireblocks` with its refinement, `SwapProposals` with
its own, `Settings`, `Notifications`, `Http`; the proofs of `Settings`,
`SwapProposals`, `Notifications` and `TxFunds`; `Service` with its refinement, and the
proofs of `Http` and `Service`.

Next: `_analizeConfig` of `Settings` in place of the free choice in `Wallets`, with
a refinement between the two.
