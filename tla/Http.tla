-------------------------------- MODULE Http --------------------------------
(***************************************************************************)
(* One HTTP request from its arrival to its answer: the middlewares of     *)
(* app.js, the validators the routes declare, the handlers' use of what    *)
(* was validated, and the error handlers behind the patched router         *)
(* (patch.js).                                                             *)
(*                                                                         *)
(* A body is known by its top-level fields.  A field is "absent", "bad"    *)
(* (rejected by its validators or those of its elements; an empty list     *)
(* where notEmpty is asked), "good", or "odd": the validators accept it    *)
(* and the code may not, as hex that is no transaction, an index beyond    *)
(* the inputs, a value the sanitizer makes undefined, an object without    *)
(* the list its schema leaves optional.                                    *)
(* An answer is known by its status, so that success and { success: false }*)
(* are alike.  What the handlers do to wallets and locks is in SendTx,     *)
(* SwapProposals, Wallets and Settings.                                    *)
(***************************************************************************)
EXTENDS Naturals, FiniteSets, FiniteSetsExt

CONSTANTS
  HttpApiKey,          \* config.http_api_key is set
  ConfirmFirstAddress, \* config.confirmFirstAddress is set
  Deviations           \* how many fields of a body may be other than good

ASSUME HttpAssumption ==
  HttpApiKey \in BOOLEAN /\ ConfirmFirstAddress \in BOOLEAN /\ Deviations \in Nat

VARIABLES
  stage,     \* "idle", or where the request awaits
  route,     \* its path
  body,      \* its fields, from the query or the body
  err,       \* the error thrown last: "none", "parse", "config", "input", "work", "readonly"
  status,    \* the status answered, or 0
  available, \* getConfig() has a configuration to return
  ended      \* what ended the process, or "no"

httpVars == <<stage, route, body, err, status, available, ended>>

-----------------------------------------------------------------------------
(* schemas.js: what a schema requires and allows; more than one alternative
   under oneOf. *)
Schema(required, optional) == {[required |-> required, optional |-> optional]}
Both(a, b) == {[required |-> x.required \cup y.required,
                optional |-> x.optional \cup y.optional] : x \in a, y \in b}

NoSchema == Schema({}, {})
txHexSchema == Schema({"txHex"}, {})
partialTxSchema == Schema({"partial_tx"}, {})
proposalRegisterSchema == Schema({"password"}, {})
txHexSignatureSchema == Both(txHexSchema, Schema({"signatures"}, {}))
partialTxSignatureSchema == Both(partialTxSchema, Schema({}, {"signatures"}))
partialTxSignatureSchemaWithService == Both(partialTxSignatureSchema, Schema({}, {"service"}))
atomicSwapCreateSchema ==
  Schema({}, {"send", "receive", "partial_tx", "lock", "change_address", "service"})
txBuildSchema == Schema({"outputs"}, {"inputs", "change_address"})
txInputSchema == Schema({}, {"inputs"})
queryInputSchema == Schema({"inputs"}, {})
txHexInputDataSchema == Both(txHexSchema, Schema({"signatures"}, {}))
p2pkhSignature == Schema({"index", "signature"}, {})
p2shSignature == Schema({"index", "signatures"}, {})

TokenAddresses == {"address", "change_address"}
Authorities ==
  {"create_mint", "mint_authority_address", "allow_external_mint_authority_address",
   "create_melt", "melt_authority_address", "allow_external_melt_authority_address"}
createTokenOptions ==
  Schema({"name", "symbol", "amount"},
         TokenAddresses \cup Authorities \cup {"data", "version"})
nanoContractData ==
  Schema({"address", "data"}, {"create_token_options", "max_fee", "contract_pays_fees"})
nanoContractCreateData == Both(nanoContractData, Schema({"blueprint_id"}, {}))
nanoContractExecuteData == Both(nanoContractData, Schema({"nc_id", "method"}, {}))

-----------------------------------------------------------------------------
(* The routes files: rows of a path and an alternative of its schema. *)
RootRoutes ==
  ({"/", "/docs", "/start", "/multisig-pubkey", "/hsm/start"} \X NoSchema)
  \cup ({"/push-tx"} \X txHexSchema)
  \cup ({"/configuration-string"} \X Schema({"token"}, {}))
  \cup ({"/fireblocks/start"} \X Schema({"wallet-id", "xpub"}, {}))
  \cup ({"/health"} \X Schema({}, {"wallet_ids", "include_fullnode", "include_tx_mining"}))

ReadRoutes ==
  ({"/wallet/status", "/wallet/addresses"} \X NoSchema)
  \cup ({"/wallet/balance"} \X Schema({}, {"token"}))
  \cup ({"/wallet/address"} \X Schema({}, {"index", "mark_as_used"}))
  \cup ({"/wallet/address-index"} \X Schema({"address"}, {}))
  \cup ({"/wallet/address-info"} \X Schema({"address"}, {"token"}))
  \cup ({"/wallet/tx-history"} \X Schema({}, {"limit"}))
  \cup ({"/wallet/transaction", "/wallet/tx-confirmation-blocks"} \X Schema({"id"}, {}))

SimpleSendRoutes ==
  ({"/wallet/simple-send-tx"} \X Schema({"address", "value"}, {"change_address", "token"}))
  \cup ({"/wallet/decode"} \X (txHexSchema \cup partialTxSchema))

SendTxRoute ==
  {"/wallet/send-tx"}
    \X Schema({"outputs"}, {"inputs", "token", "change_address", "debug"})

TokenRoutes ==
  ({"/wallet/create-token"} \X createTokenOptions)
  \cup ({"/wallet/mint-tokens"}
          \X Schema({"token", "amount"},
                    TokenAddresses \cup {"mint_authority_address",
                      "allow_external_mint_authority_address", "unshift_data", "data"}))
  \cup ({"/wallet/melt-tokens"}
          \X Schema({"token", "amount"},
                    {"change_address", "deposit_address", "melt_authority_address",
                     "allow_external_melt_authority_address", "unshift_data", "data"}))

UtxoFilters ==
  {"max_utxos", "token", "filter_address", "amount_smaller_than", "amount_bigger_than",
   "maximum_amount"}
UtxoRoutes ==
  ({"/wallet/utxo-filter"} \X Schema({}, UtxoFilters \cup {"only_available_utxos"}))
  \cup ({"/wallet/utxo-consolidation"} \X Schema({"destination_address"}, UtxoFilters))
  \cup ({"/wallet/create-nft"}
          \X Schema({"name", "symbol", "amount", "data"}, TokenAddresses \cup Authorities))
  \cup ({"/wallet/stop"} \X NoSchema)
  \cup ({"/wallet/utxos-selected-as-input"} \X Schema({"txHex"}, {"mark_as_used", "ttl"}))

ConfigRoutes ==
  ({"/wallet/config/last-loaded-address-index"} \X NoSchema)
  \cup ({"/wallet/config/index-limit/load-more-addresses"} \X Schema({"count"}, {}))
  \cup ({"/wallet/config/index-limit/last-index"} \X Schema({"index"}, {}))

Swap == "/wallet/atomic-swap/tx-proposal"
SwapRoutes ==
  ({Swap} \X atomicSwapCreateSchema)
  \cup ({"/wallet/atomic-swap/tx-proposal/unlock",
         "/wallet/atomic-swap/tx-proposal/get-my-signatures"} \X partialTxSchema)
  \cup ({"/wallet/atomic-swap/tx-proposal/sign"} \X partialTxSignatureSchemaWithService)
  \cup ({"/wallet/atomic-swap/tx-proposal/sign-and-push"} \X partialTxSignatureSchema)
  \cup ({"/wallet/atomic-swap/tx-proposal/get-input-data"} \X txHexSchema)
  \cup ({"/wallet/atomic-swap/tx-proposal/register/:proposalId"} \X proposalRegisterSchema)
  \cup ({"/wallet/atomic-swap/tx-proposal/get-locked-utxos",
         "/wallet/atomic-swap/tx-proposal/fetch/:proposalId",
         "/wallet/atomic-swap/tx-proposal/list",
         "/wallet/atomic-swap/tx-proposal/delete/:proposalId"} \X NoSchema)

ProposalRoutes ==
  ({"/wallet/tx-proposal"} \X Both(txBuildSchema, queryInputSchema \cup txInputSchema))
  \cup ({"/wallet/tx-proposal/add-signatures"} \X txHexInputDataSchema)
  \cup ({"/wallet/tx-proposal/get-wallet-inputs"} \X txHexSchema)
  \cup ({"/wallet/tx-proposal/input-data"} \X (p2pkhSignature \cup p2shSignature))

Multisig == "/wallet/p2sh/tx-proposal"
MintFields == {"create_mint", "mint_authority_address", "allow_external_mint_authority_address"}
MeltFields == {"create_melt", "melt_authority_address", "allow_external_melt_authority_address"}
MultisigRoutes ==
  ({Multisig}
     \X Schema({"outputs"}, {"inputs", "change_address", "mark_inputs_as_used"}))
  \cup ({"/wallet/p2sh/tx-proposal/create-token"}
          \X Schema({"name", "symbol", "amount"},
                    TokenAddresses \cup MintFields \cup MeltFields \cup {"mark_inputs_as_used"}))
  \cup ({"/wallet/p2sh/tx-proposal/mint-tokens"}
          \X Schema({"token", "amount"},
                    TokenAddresses \cup MintFields \cup {"mark_inputs_as_used"}))
  \cup ({"/wallet/p2sh/tx-proposal/melt-tokens"}
          \X Schema({"token", "amount"},
                    {"deposit_address", "change_address", "mark_inputs_as_used"} \cup MeltFields))
MultisigSignRoutes ==
  ({"/wallet/p2sh/tx-proposal/get-my-signatures"} \X txHexSchema)
  \cup ({"/wallet/p2sh/tx-proposal/sign", "/wallet/p2sh/tx-proposal/sign-and-push"}
          \X txHexSignatureSchema)

NanoRoutes ==
  ({"/wallet/nano-contracts/state"}
     \X Schema({"id"}, {"fields", "balances", "calls", "block_hash", "block_height"}))
  \cup ({"/wallet/nano-contracts/oracle-data"} \X Schema({"oracle"}, {}))
  \cup ({"/wallet/nano-contracts/oracle-signed-result"}
          \X Schema({"oracle_data", "contract_id", "type"}, {}))
  \cup ({"/wallet/nano-contracts/history"} \X Schema({"id"}, {"count", "after", "before"}))
  \cup ({"/wallet/nano-contracts/create"} \X nanoContractCreateData)
  \cup ({"/wallet/nano-contracts/execute"} \X nanoContractExecuteData)
  \cup ({"/wallet/nano-contracts/create-on-chain-blueprint"} \X Schema({"code", "address"}, {}))

TemplateRoutes ==
  ({"/wallet/tx-template/run"} \X Schema({"template"}, {"debug"}))
  \cup ({"/wallet/tx-template/build"} \X Schema({"template"}, {"debug", "sign"}))

WalletRoutes ==
  ReadRoutes \cup SimpleSendRoutes \cup SendTxRoute \cup TokenRoutes \cup UtxoRoutes
    \cup ConfigRoutes \cup SwapRoutes \cup ProposalRoutes \cup MultisigRoutes
    \cup MultisigSignRoutes \cup NanoRoutes \cup TemplateRoutes
Routes == RootRoutes \cup WalletRoutes

Paths(rows) == {r[1] : r \in rows}
WalletPaths == Paths(WalletRoutes)
SchemaOf(p) == {r[2] : r \in {s \in Routes : s[1] = p}}

(* What handlers of routes without a schema read; no validator looks at it. *)
Unvalidated ==
  ({"/start"} \X {"wallet-id", "multisigKey", "seedKey", "seed", "passphrase", "xpubkey"})
  \cup ({"/multisig-pubkey"} \X {"seedKey", "passphrase"})
  \cup ({"/hsm/start"} \X {"wallet-id", "hsm-key"})
UnvalidatedOf(p) == {u[2] : u \in {v \in Unvalidated : v[1] = p}}

FieldsOf(p) == UNION {a.required \cup a.optional : a \in SchemaOf(p)} \cup UnvalidatedOf(p)

(* Slip: what is required is only looked at when it is there. *)
AcceptsMissing(p, b) ==
  \E a \in SchemaOf(p) : \A f \in a.required \cup a.optional : b[f] # "bad"

(* parametersValidation and validateZodSchema: some alternative has no error. *)
Accepts(p, b) ==
  \E a \in SchemaOf(p) :
    /\ \A f \in a.required : b[f] \notin {"absent", "bad"}
    /\ \A f \in a.optional : b[f] # "bad"

-----------------------------------------------------------------------------
(* The controllers: whether the handler asks for the validators' verdict,
   the bodies with missing or bad fields on which its code throws outside of
   a try, whether code there uses what else the body holds and so may throw
   on odd fields, where it reads the configuration, and what a rejection of
   the work it awaits becomes: caught and answered, answered with 500, or
   passed to the router.  A handler that calls back ends in a callback of the
   wallet-lib. *)
Checked(fails) ==
  [checks |-> TRUE, breaks |-> {}, exposed |-> fails = "passed", reads |-> "never",
   fails |-> fails, awaited |-> TRUE, callsBack |-> FALSE]
Unchecked(fails) == [Checked(fails) EXCEPT !.checks = FALSE, !.exposed = FALSE]
Missing(f) == {[x \in {f} |-> v] : v \in {"absent", "bad"}}

(* seedKey is looked up in config.seeds, and the seed's words are derived. *)
StartOrPubkey == [Unchecked("passed") EXCEPT !.exposed = TRUE, !.reads = "first"]

RootHandlers ==
  ({"/", "/docs"} \X {Unchecked("passed")})
  \cup ({"/start", "/multisig-pubkey"} \X {StartOrPubkey})
  \cup ({"/push-tx"} \X {[Checked("caught") EXCEPT !.reads = "first"]})
  \cup ({"/configuration-string"} \X {[Checked("passed") EXCEPT !.callsBack = TRUE]})

(* A bad xpub is only noticed when it is derived, in a try that answers 500. *)
FireblocksStart ==
  [Unchecked("answered") EXCEPT !.exposed = TRUE, !.reads = "first",
                                !.breaks = {[xpub |-> "bad"]}]
HsmStart == [Unchecked("answered") EXCEPT !.exposed = TRUE, !.reads = "last"]
Health == [Checked("passed") EXCEPT !.breaks = {[wallet_ids |-> "bad"]}]

UncheckedReads == {"/wallet/status", "/wallet/addresses"}
ReadHandlers ==
  (UncheckedReads \X {Unchecked("passed")})
  \cup ((Paths(ReadRoutes) \ (UncheckedReads \cup {"/wallet/tx-confirmation-blocks"}))
          \X {Checked("passed")})
ConfirmationBlocks == [Checked("passed") EXCEPT !.callsBack = TRUE]
Decode == Checked("caught")

(* prepareTxFunds walks outputs and inputs before the try, and adds up the
   values the sanitizers left. *)
FundsBreak == Missing("outputs") \cup {[inputs |-> "bad"]}
SendTx == [Checked("passed") EXCEPT !.breaks = FundsBreak]
SendingHandlers ==
  ({"/wallet/simple-send-tx"} \cup Paths(TokenRoutes) \cup (Paths(UtxoRoutes) \ {"/wallet/stop"}))
    \X {Checked("caught")}
StopWallet == Unchecked("passed")

UncheckedConfig == {"/wallet/config/last-loaded-address-index"}
ConfigHandlers ==
  (UncheckedConfig \X {Unchecked("passed")})
  \cup ((Paths(ConfigRoutes) \ UncheckedConfig) \X {Checked("passed")})

(* send.tokens and receive.tokens are measured before the first try. *)
SwapBuild == [Checked("caught") EXCEPT !.exposed = TRUE]
SwapPassed ==
  {"/wallet/atomic-swap/tx-proposal/list", "/wallet/atomic-swap/tx-proposal/fetch/:proposalId",
   "/wallet/atomic-swap/tx-proposal/register/:proposalId"}
SwapCaught ==
  {"/wallet/atomic-swap/tx-proposal/get-locked-utxos",
   "/wallet/atomic-swap/tx-proposal/delete/:proposalId"}
SwapHandlers ==
  {<<Swap, SwapBuild>>}
  \cup (SwapPassed \X {Unchecked("passed")}) \cup (SwapCaught \X {Unchecked("caught")})
  \cup ((Paths(SwapRoutes) \ ({Swap} \cup SwapPassed \cup SwapCaught)) \X {Checked("caught")})

(* Nothing of these two is in a try: parsing txHex, looking up its inputs,
   deriving the key of an index. *)
AddSignatures ==
  [Checked("passed") EXCEPT !.breaks = Missing("txHex") \cup Missing("signatures")]
InputData ==
  [Checked("passed") EXCEPT !.breaks = [{"signature", "signatures"} -> {"absent", "bad"}]]
ProposalHandlers ==
  { <<"/wallet/tx-proposal", [Checked("passed") EXCEPT !.breaks = FundsBreak]>>,
    <<"/wallet/tx-proposal/add-signatures", AddSignatures>>,
    <<"/wallet/tx-proposal/input-data", InputData>>,
    <<"/wallet/tx-proposal/get-wallet-inputs", Checked("caught")>> }

MultisigHandlers ==
  {<<Multisig, [Checked("passed") EXCEPT !.breaks = Missing("outputs")]>>}
  \cup ((Paths(MultisigRoutes \cup MultisigSignRoutes) \ {Multisig}) \X {Checked("caught")})

(* /create and /execute call the helper without awaiting it; outside its try
   it only takes apart what validateZodSchema parsed. *)
NanoExecute == [Checked("caught") EXCEPT !.breaks = Missing("data"), !.awaited = FALSE]
NotAwaited == {"/wallet/nano-contracts/create", "/wallet/nano-contracts/execute"}
NanoHandlers ==
  (NotAwaited \X {NanoExecute})
  \cup ((Paths(NanoRoutes) \ NotAwaited) \X {Checked("caught")})

TemplateHandlers == Paths(TemplateRoutes) \X {Checked("caught")}

Handlers ==
  { <<"/fireblocks/start", FireblocksStart>>, <<"/hsm/start", HsmStart>>, <<"/health", Health>>,
    <<"/wallet/tx-confirmation-blocks", ConfirmationBlocks>>, <<"/wallet/decode", Decode>>,
    <<"/wallet/send-tx", SendTx>>, <<"/wallet/stop", StopWallet>> }
  \cup RootHandlers \cup ReadHandlers \cup SendingHandlers \cup ConfigHandlers
  \cup SwapHandlers \cup ProposalHandlers \cup MultisigHandlers \cup NanoHandlers
  \cup TemplateHandlers
HandlerOf == [p \in Paths(Routes) |-> (CHOOSE r \in Handlers : r[1] = p)[2]]
Handler == HandlerOf[route]

Breaks == \E p \in Handler.breaks : \A f \in DOMAIN p : body[f] = p[f]

IsOdd(b) == \E f \in DOMAIN b : b[f] = "odd"
MayBreak == Handler.exposed /\ IsOdd(body)

-----------------------------------------------------------------------------
Bodies(p) ==
  LET F == FieldsOf(p)
      Deviating(D) == {d \in [D -> {"absent", "bad", "odd"}] :
                         \A f \in D : d[f] = "bad" => f \notin UnvalidatedOf(p)}
  IN UNION { {[f \in F |-> IF f \in D THEN d[f] ELSE "good"] : d \in Deviating(D)} :
             D \in UNION {kSubset(n, F) : n \in 0..Deviations} }

NoBody == [f \in {} |-> "absent"]

HttpInit ==
  /\ stage = "idle" /\ route = "/" /\ body = NoBody
  /\ err = "none" /\ status = 0 /\ available = TRUE /\ ended = "no"

Goto(s, t) == stage = s /\ stage' = t

Answers(code) == stage' = "answered" /\ status' = code

(* A promise rejected with no handler for it: node ends the process. *)
Unhandled(e) ==
  /\ ended' = e
  /\ UNCHANGED <<stage, route, body, err, status, available>>

(* The request arrives; its body is read from the socket. *)
Arrives ==
  /\ Goto("idle", "reading")
  /\ \E p \in Paths(Routes) : route' = p /\ body' \in Bodies(p)
  /\ err' = "none" /\ status' = 0
  /\ UNCHANGED <<available, ended>>

(* express.json() rejects the body.  No middleware has set req.logger yet, so
   the last error handler throws in its turn, and express answers 500. *)
Malformed ==
  /\ stage = "reading"
  /\ err' = "parse" /\ Answers(500)
  /\ UNCHANGED <<route, body, available, ended>>

(* loggerMiddleware builds a logger with the configuration, unless the request
   names a wallet that has one; walletMiddleware reads the configuration of
   every request.  Both are asynchronous and mounted with use(), which
   patchExpressRouter leaves as it is. *)
MiddlewareThrows ==
  /\ stage = "reading" /\ ~available
  /\ Unhandled("config")

(* The key is missing or wrong; the wallet is not named, not known, not ready. *)
Refused ==
  /\ stage = "reading"
  /\ \/ HttpApiKey /\ Answers(401)
     \/ route \in WalletPaths /\ available /\ Answers(200)
  /\ UNCHANGED <<route, body, err, available, ended>>

PassesMiddlewares ==
  /\ route \in WalletPaths => available
  /\ Goto("reading", IF ConfirmFirstAddress /\ route \in WalletPaths
                     THEN "confirming" ELSE "validating")
  /\ UNCHANGED <<route, body, err, status, available, ended>>

(* wallet.getAddressAtIndex(0): the header gave this address, another one, or
   the promise is rejected inside walletMiddleware. *)
AddressTold ==
  /\ stage = "confirming"
  /\ \/ stage' = "validating" /\ UNCHANGED <<route, body, err, status, available, ended>>
     \/ Answers(200) /\ UNCHANGED <<route, body, err, available, ended>>
     \/ Unhandled("work")

-----------------------------------------------------------------------------
(* The patched router passes a rejection of the handler on to the error
   handlers. *)
Rejects(e) ==
  IF Handler.awaited
  THEN stage' = "failing" /\ err' = e /\ UNCHANGED <<route, body, status, available, ended>>
  ELSE Unhandled(e)

ConfigThrows ==
  /\ \/ stage = "validating" /\ Handler.reads = "first"
     \/ stage = "working" /\ Handler.reads = "last"
  /\ ~available
  /\ Rejects("config")

HandlerRuns == stage = "validating" /\ (Handler.reads = "first" => available)
PassesCheck == Handler.checks => Accepts(route, body)

BadRequest ==
  /\ HandlerRuns /\ ~PassesCheck
  /\ Answers(400)
  /\ UNCHANGED <<route, body, err, available, ended>>

(* The handler's own code throws on what the body holds. *)
Trips ==
  /\ HandlerRuns /\ PassesCheck /\ (Breaks \/ MayBreak)
  /\ \/ /\ Handler.fails = "answered" /\ err' = "input" /\ Answers(500)
        /\ UNCHANGED <<route, body, available, ended>>
     \/ (Handler.fails = "answered" => MayBreak) /\ Rejects("input")

Works ==
  /\ HandlerRuns /\ PassesCheck /\ ~Breaks
  /\ stage' = "working"
  /\ UNCHANGED <<route, body, err, status, available, ended>>

(* It answers success, or what it made of a refusal or of an error it caught. *)
WorkEnds ==
  /\ stage = "working" /\ ~Handler.callsBack
  /\ Handler.reads = "last" => available
  /\ Answers(200)
  /\ UNCHANGED <<route, body, err, available, ended>>

(* The wallet-lib calls back, which it need not do. *)
CalledBack ==
  /\ stage = "working" /\ Handler.callsBack
  /\ Answers(200)
  /\ UNCHANGED <<route, body, err, available, ended>>

WorkFails ==
  /\ stage = "working"
  /\ \/ /\ Handler.fails = "answered" /\ err' = "work" /\ Answers(500)
        /\ UNCHANGED <<route, body, available, ended>>
     \/ Handler.fails = "passed" /\ \E e \in {"work", "readonly"} : Rejects(e)

(* Slip: an unavailable configuration is taken for handled and not answered. *)
ConfigErrorHandlerSilent ==
  /\ err = "config" /\ Goto("failing", "lost")
  /\ UNCHANGED <<route, body, err, status, available, ended>>

ConfigErrorHandler ==
  /\ stage = "failing" /\ err = "config" /\ Answers(503)
  /\ UNCHANGED <<route, body, err, available, ended>>

ReadonlyErrorHandler ==
  /\ stage = "failing" /\ err = "readonly" /\ Answers(403)
  /\ UNCHANGED <<route, body, err, available, ended>>

LastErrorHandler ==
  /\ stage = "failing" /\ err \notin {"config", "readonly"} /\ Answers(500)
  /\ UNCHANGED <<route, body, err, available, ended>>

(* The client is done; it may come back with another request. *)
Leaves ==
  /\ Goto("answered", "idle")
  /\ route' = "/" /\ body' = NoBody /\ err' = "none" /\ status' = 0
  /\ UNCHANGED <<available, ended>>

(* Another request reloads the configuration (Settings). *)
Reload ==
  /\ \/ available' = ~available /\ UNCHANGED ended
     \/ ~available /\ ended' = "reload" /\ UNCHANGED available
  /\ UNCHANGED <<stage, route, body, err, status>>

Serve ==
  \/ Malformed \/ MiddlewareThrows \/ Refused \/ PassesMiddlewares \/ AddressTold
  \/ ConfigThrows \/ BadRequest \/ Trips \/ Works \/ WorkEnds \/ WorkFails
  \/ ConfigErrorHandler \/ ReadonlyErrorHandler \/ LastErrorHandler

HttpNext == ended = "no" /\ (Arrives \/ Serve \/ CalledBack \/ Leaves \/ Reload)

(* Node reads the sockets, runs the chain of handlers and settles the promises
   of the wallet-lib; its callbacks may never be called. *)
HttpSpec ==
  HttpInit /\ [][HttpNext]_httpVars /\ WF_httpVars(ended = "no" /\ Serve)

-----------------------------------------------------------------------------
(***************************************************************************)
(* No handler works on what the validators reject: they reject every body  *)
(* whose missing or bad fields would make the code outside a handler's try *)
(* throw, and the handler asks for their verdict, but for /fireblocks/     *)
(* start, which never does.  A handler that throws on its input throws on  *)
(* one that was accepted, and is odd.  And no body at all, odd or not,     *)
(* ends the process, though some handlers are not awaited: only a reload   *)
(* does, the requests that meet one in the middlewares, and an address     *)
(* that cannot be read there.  (routes/, controllers/, patch.js:10-63)     *)
(***************************************************************************)
InvalidInputCausesNoFailure ==
  /\ err = "input" => route = "/fireblocks/start" \/ (Accepts(route, body) /\ IsOdd(body))
  /\ ended \in {"no", "reload", "config"} \/ (ended = "work" /\ ConfirmFirstAddress)

(* Every request is answered, whatever fails on its way, unless the process
   ends or the wallet-lib never calls the handler back. *)
EveryRequestIsAnswered ==
  stage = "reading" ~>
    \/ stage = "answered" \/ ended # "no"
    \/ stage = "working" /\ Handler.callsBack
=============================================================================
