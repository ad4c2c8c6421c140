# TLA+ specifications of the XRPL x402 stack

The stack lets HTTP clients pay for requests with signed XRPL payments. A *payer*
signs a payment and attaches it to a request, a *resource server* (the merchant's
middleware) has it verified and settled by a *facilitator*, and the facilitator
submits it to the XRP Ledger. Money moves once, irrevocably, through four parties
that crash, retry and race. These modules say what each party promises under
those conditions, check it with TLC, and prove the safety properties of every one
of them with TLAPS. `PROJECT.json` maps every definition to the lines it models.

## 1. Inventory

| component | state | operations | talks to |
|---|---|---|---|
| settlement (`facilitator/xrpl_service.py`, `replay_store.py`) | one Redis record per transaction hash: pending, failed or validated, with the fingerprint of the request | settle: get, verify, reserve, submit, wait, reconcile, update | Redis, the ledger by JSON-RPC |
| payload verification (`xrpl_service.py`, `core/`) | none | envelope, signature, structure, ledger window, sequence or ticket, simulation | the ledger |
| facilitator HTTP API (`factory.py`, `idempotency.py`) | one Redis hash per payment identifier: fingerprint and cached response | /settle, /verify, /supported, discovery | settlement, catalog |
| gateway authentication (`gateway_auth.py`) | Redis hash of tokens (read) | authenticate | API |
| Bazaar catalog (`catalog.py`) | Redis keys and a sorted set | index, list, search | API |
| resource server (`middleware/middleware.py`, `response_store.py`) | one Redis record per payment identifier: bound, or the handler's response | dispatch, verification hooks, bind, get, put | facilitator, the application |
| paid MCP tools (`middleware/mcp.py`) | the same store | the same hooks around tool calls | facilitator |
| facilitator client, adapters | none | HTTP calls | facilitator |
| payer journal and pay (`payer/journal.py`, `payer.py`) | attempt index (JSON), receipt history (JSONL), under one `flock` | claim, persist, record_outcome, release, prune | resource server |
| payer MCP client (`payer/mcp.py`) | the same journal | call_tool, call_tool_with_payment | paid MCP tools |
| payer proxy, CLI | none | | pay |
| signer and spend limits (`client/signer.py`, `client/spend.py`) | tickets, spent totals | sign, choose or create tickets | the ledger |
| RLUSD funding command (`devtools/rlusd_fund.py`) | state file: pending transaction, completed hashes, last faucet attempt | run: reconcile, ask the faucet, set a trust line, buy | the ledger, the XRP faucet |
| top-up commands (`devtools/live_testnet_support.py`) | wallet cache, claim state file: seeds and statuses of disposable wallets | run: recover tracked wallets, claim, sweep, delete | the ledger, faucets |
| core models, configuration, other developer tools | none over time | | |

How they interact. The payer's request meets the middleware, which calls /verify,
runs the handler, calls /settle and releases the buffered response only after a
successful settlement. /settle binds the payment identifier, looks for a cached
response and runs `settle` in a thread. `settle` is a dialogue with Redis and the
ledger; any number of facilitator processes share the Redis. The payer keeps the
signed payload on disk before it sends it, and re-sends it until it learns a
terminal outcome.

What is hard:

* *Check, then act over several requests.* `settle` reads the record, makes four
  or more RPC requests and reserves afterwards; `bind` of the identifier cache is
  three Redis commands; `put` of the response store is a GET and a SET.
* *Crashes between two writes*: reservation and submission; handler and stored
  response; receipt and attempt index.
* *Indeterminate answers*: a submission that raises may have been relayed; a
  `txnNotFound` may come from a server with a partial history; a response to the
  payer may be lost.
* *Things that expire*: terminal records, identifiers, stored responses, claims
  and the signed transaction itself, each on its own clock.
* *Commands that are killed and rerun*: the developer tools move money in several
  transactions and know of them only what their state files say.
* *Things that must not expire*: a pending record has no TTL and must nevertheless
  be resolved.

Each hazard is listed at its line in `PROJECT.json`, with the properties that
would catch it.

What makes the components correct, in one sentence each:

* settlement: every verdict is true for good, is about one request, and costs one
  submission; a record reserved in time does not stay pending for ever;
* API: a cached verdict is as good as a fresh one, and another request's only after
  one race inside `bind`;
* resource server: protected bytes only for a delivered payment, an unsafe
  handler or tool once, one payment for one resource and one unsafe invocation;
* journal: until the first terminal outcome the payload that was sent stays
  recoverable and no second one competes with it; every later payment has an outcome
  of its own before it; nobody waits for ever for a dead process;
* catalog: what is stored and indexed is found, what is stored is indexed but for two
  races, the pages of a search over an unchanged catalog are complete, and stale keys
  do not stay;
* funding command: however often it is killed, it buys no more than the target unless
  an error is read as an empty wallet, its journal says what the ledger says, and it
  gets past every pending transaction;
* top-up commands: no money in a wallet that no later run empties, but for wallets
  forgotten through an error answer or a torn file.

## 2. Modules

| module | models |
|---|---|
| `XrplLedger` | the ledger as the requests observe it: index, used sequence numbers and tickets, outcomes, relayed transactions (external) |
| `SettlementStore` | one record and the atomic operations on it |
| `Settlement` | `settle`, one worker per call, over the two above |
| `SettlementContract` | the abstract promise of a facilitator: bindings, verdicts, payments |
| `XrplLedgerProofs`, `SettlementProofs` | lemmas about the ledger, theorems about `Settlement` |
| `FacilitatorApi` | /settle and /verify with the identifier cache, composed with `Settlement` |
| `ResourceServer` | routes and paid MCP tools: hooks and response store over `XrplLedger`, the facilitator as its contract |
| `PaidSale` | the abstract promise of a merchant: payments, runs of unsafe handlers, sales |
| `PayerJournal` | the journal with `XRPLPayer.pay` and `XRPLMCPClient`, for one request fingerprint |
| `BazaarCatalog` | index and list as Redis command sequences, and the paging of discovery/search |
| `RlusdFunding` | the funding command, its state file and the ledger as it sees it |
| `ClaimWallets` | the top-up commands, their files, disposable wallets and faucets |
| `FacilitatorApiProofs`, `ResourceServerProofs`, `PayerJournalProofs`, `BazaarCatalogProofs`, `RlusdFundingProofs`, `ClaimWalletsProofs` | theorems about each of them |

`MC*` modules hold the values of the constants for TLC.

### Settlement

A worker is one `settle` call. Its program counter stops at every Redis command
and every JSON-RPC request; code between two of them is one step. `Get` is the
first look at the store, `VerifyWindow`, `VerifyAccount` and `VerifySimulation`
the three requests of verification, `ReadFirstLedger` the request for
`first_ledger_sequence`, `Reserve` the `SET NX` (followed by `Reget` when it
loses), `Submit` the `SubmitOnly`, `Poll` a round of `_wait_for_validation`,
`Query` and `CheckExpiry` the two requests of `_reconcile`, `Update` the Lua
script. `Abort` is a crash or an exception that reaches the caller, at any step.
`Expire` is Redis dropping a terminal record.

The checks that depend on nothing but the payload (envelope, signature, structure;
a blob that does not decode) are the constant set `Acceptable`. Balances are not
modelled, so simulation may succeed or fail. `bound`, `submitted` and `told` are
history variables. `first` is `first_ledger_sequence`, in a worker and in its record.

`first` is where the range of every Tx request about the record begins; the range
ends at `LastLedgerSequence`. If the ledger moved past that between the window check
and `ReadFirstLedger`, the range is invalid (`ValidRange`) and the answer always an
error (`TxAnswers`): finding 1. That a range is too long (more than 1000 ledgers)
does not happen with the timeouts in use and is not modelled.

The ledger is external. It uses a slot (sequence number or ticket) at most once
and includes no transaction after its `LastLedgerSequence`. `Broadcast` stands for
everybody else who holds the blob: the payer, another facilitator, a delayed
submission. Two assumptions are made about JSON-RPC: `txnNotFound` with
`searched_all` comes only from a server that holds the whole requested range,
hence not before `LastLedgerSequence` is validated; and a validated transaction is
reported with its final outcome. `"short"` stands for every `delivered_amount`
other than the required one, a missing or unavailable one included.

`Fp` is the fingerprint of payload and requirements. In the code it covers the
signed blob and so determines the transaction; the model lets a fingerprint go
with several transactions, which only adds behaviours.

`SlowWorkers = FALSE` is a timing assumption: a terminal record lives at least 300
seconds (a week by default), and a worker gets from its first look at the store to
its reservation in that time. With `TRUE` a stalled worker can reserve a hash a
second time; `SuccessIsDelivered`, `FailureIsFinal` and `ReservationHeld` are proved
for that case too (section 5).

### FacilitatorApi

Extends `Settlement`; a request and the worker it starts share a name. `HSetNx`,
`HGetFingerprint` and `ExpireBinding` are `bind`; `Lookup` the read of the cached
response; `CallSettle` and `SettleReturned` the thread; `Index` the catalog, which
may fail (`Fail`); `Put` and `Touch` the HSET and EXPIRE of `put`. `Verified` is
/verify, which shares `bind`. `Lapse` is a hash running out. One that an earlier request
bound may do so between any two commands of a retry's `bind`; one whose TTL a request
renewed at the end of `bind` outlives that request unless `SlowWorkers`. A hash that
lapses between the comparison and EXPIRE does mix two requests up: EXPIRE does nothing
to a hash that is gone, the request goes on as if it were bound, and `put` writes into
a hash that another request may have bound. The history variable `crossed` names the
identifiers this has happened to, and `CachedForItsRequest` is claimed of the others.
`AnswersAgree` and `EndpointsKeepContract` hold of all: a cached response says which
transaction and request it is about, and it is true.

### ResourceServer

One request, for a route or a tool, walks through verify, (recover,) get, bind,
handler, put, settle, answer. `Verify`, `Get`, `Handle` and `SettleAnswered` are the
hooks around an HTTP route; `VerifyTool`, `LoadCached`, `RunTool` and `ToolAnswered`
their counterparts around a tool call, where a stored result is returned by the
wrapped tool itself (`recoverable`) and a settlement that is still pending keeps its
receipt in the error. What travels between the hooks (`request.state`, the
`ContextVar`s) belongs to the request: `inv` and `cached`. `Authoritative` is the
comparison of the resource the payload names with the one the route or tool protects;
the facilitator is not told the latter. The upstream x402 package calls the hooks and repeats a pending settlement
once; it is external. /settle answers whatever
`SettlementContract` allows (`SettleAnswers`), which `SettlementProofs` and
`FacilitatorApiProofs` show of the real one.
An invocation stands for payload, method, URL and body, or payload, tool and
arguments; the store's fingerprint covers all of it, the facilitator's (`FpOf`)
neither body nor arguments. Every unsafe invocation carries a payment identifier, as
the routes and wrappers require. A tool declared idempotent is a safe invocation. A record outlives the
transaction in it, because `_ttl` is `max(600, timeout + 60)` seconds and the
facilitator accepts no `LastLedgerSequence` further ahead than the timeout: `Window`
is that timeout in ledgers, and `Until`, the ledger at which a record may go, lies
`Window` ahead of the SET that wrote it. This assumes that ledgers close on schedule.
Each SET renews the whole TTL, so `put` keeps a record that `bind` made. Several
transactions may share an identifier, one after the other. `SlowRequests = FALSE`
assumes that a verified request binds its identifier before such a record runs out.

### PayerJournal

Everything is keyed by the request fingerprint, so one fingerprint is modelled. A
journal call runs under an exclusive lock and is one step; `CrashAfterAppend` is
the crash between the two files that `record_outcome` writes. The owner token is
the caller's name. `Sign` may also fail (spend limits, tickets, autofill).
`client` says whether the fingerprint is that of an HTTP request or of a tool call:
the two never share one. `Validate` may raise because the challenge changed
(`Mismatch`): `pay` then records a pending outcome for a payload it did not send,
while `call_tool` only releases its claim. `Supply` and `ClaimSupplied` are
`call_tool_with_payment` with a payload of the application's own, new or offered
before. The merchant
answers as the contract allows; a response without `PAYMENT-RESPONSE` counts as
pending. `Crash` includes a `PAYMENT-RESPONSE` that does not decode, which raises
past the journal. `HashlessFailures` lets failures come without a hash, as this
repository's facilitator sends them for every verification failure (`"refused"`), and
`LateAnswers` lets a call outlast the 300 seconds of a paid entry; both are `TRUE` in
the run. `receipts` holds the terminal receipts. `concluded` counts the terminal
outcomes applied to an entry.

What the journal does not do, in the model as in the code. An outcome is applied to
whatever entry the fingerprint has by then, so once a first outcome is on file an
entry may be deleted, or marked paid, by an answer about another payload; a claim
without a payload may be marked paid in the same way. Hence `AttemptOutlivesPayload`
speaks of the time before the first terminal receipt, and `PaymentsConcluded` bounds
the payments after it by the outcomes applied. That a paid entry is not regressed is
false (finding 4), and so is that a second payload goes out only when the receipts say
how the first one ended: the receipt of a refusal names no transaction. A failure that
counts as late leaves its payload in the index, to be handed to later calls: after a
crash in `record_outcome` between the failed receipt and the index, when an
application supplies a failed payload again, and when a second refusal without a hash
follows a first one, which have the same receipt key.

### BazaarCatalog

`SetEntry` and `AddToIndex` are the SET and the ZADD of `index`, `IndexerDies` a crash
between them. `Begin` is a request and its ZRANGE, `GetEntry` one GET, `Return` the
ZREM of what was found stale, the sort, the slice, and the cursor that
`discovery_search` computes. Identities are finitely many numbers in the order of the sort; `Sorted` says
where each one stands. An entry has one accepted requirement. `steady`, `quiet` and
`raced` are history variables: the entries that were stored and indexed throughout a
call; whether the catalog stayed the same since a search's first page; and the
identities whose latest index call died before ZADD, or set the entry while a list
call held the old one for expired. `PagesCover` is about a catalog that does not
change: a client that pages by offset while members come and go may miss or repeat
some, and nothing promises otherwise.

### RlusdFunding

The lock file is held for a whole run, so there is one run at a time and `pc` says
where it is. `Query` and `CheckExpiry` are the two requests of
`reconcile_pending_transaction`, `Submit` and `Wait` are `submit_and_wait`, of which
everything may happen: relayed or not, answered or not. `Prepare`, `Simulate` and
`Journal` are `submit_journaled_transaction`, up to the atomic write of the signed
blob; `EnsureXrp`, `RequestXrp` and `AwaitXrp` the faucet; `EnsureTrustline`,
`ReadNeed` and `Quote` the rest of `fund_rlusd_wallet`. `Stop` ends a run at any step:
an exception, a refused quote or fee, a kill. `CloseLedger` may include one relayed
transaction of the wallet, or let somebody else use its sequence number. The balance
only grows by the command's own purchases. `get_validated_trustline_balance` returns
zero for an error answer (`Readings`), and so `ReadNeed` may buy the whole target
again, although the README of the repository promises "exactly enough"; `blind` marks such
a draft and `excess` counts what it bought (history). The same error makes
`EnsureTrustline` set the line again. The assumptions about `txnNotFound` are
those of `XrplLedger`. Creating a wallet file happens before the first run.

### ClaimWallets

One of the two commands is run again and again, one run at a time. `RefreshCache` and
`Load` read the two files; `NextWallet` is the loop over tracked wallets; `Inspect`,
`Sweep`, `InspectLine`, `ResetTrustline`, `InspectAge` and `DeleteAccount` are
`_recover_claim_wallet` and its USDC twin, which differ in `KeepWaiting`;
`DecideRlusd` to `AwaitClaim` are the claim; `Bridge` passes the merchant's balance on
to the buyer. `Raise` is what an exception does: `claim_rlusd_topup` catches those of
its own claim and recovers the wallet again; every other one ends the run and loses
what was not written. `Killed` loses it at any step. `Deliver` lets the faucet's
payment arrive whenever it likes, and fail if the trust line is gone by then.

Two things make the commands forget wallets that hold money, and both are modelled.
An answer without `account_data`, also one that is an error of the server, counts as
an account that is gone: a claim wallet is marked deleted (`RootUnread`), and a merchant
or buyer is replaced, with the merchant its state file disowned (`RefreshCache`). A
file is overwritten in place, and one that was cut short counts as empty (`TornWrite`,
`TornCache`). What is forgotten in this way is in `lost` (history); `LinesUnread`, an
error in place of the trust lines, loses nothing. `MaxFaults` bounds such events for
TLC. Still assumed: one command runs at a time, as there is no lock.

## 3. Model-checking runs

| run | instance | shows |
|---|---|---|
| `settlement` | 2 workers, 2 transactions for one slot, 2 requests, 3 ledgers | verdicts are true (`SuccessIsDelivered`, `FailureIsFinal`), also when a pending transaction is overtaken by another with the same ticket or sequence number; a hash is submitted once and for one request, the reservation holds, records move forward, and `SettlementContract` is refined (`KeepsContract`) |
| `settlement_live` | 2 workers, 1 transaction, fairness | `PendingResolves` |
| `settlement_stuck` | 2 workers, 1 transaction, fairness | finding 1 |
| `api` | 2 requests at a time, 1 identifier shared by two fingerprints, a third without | `AnswersAgree`, `CachedForItsRequest`; the HTTP responses refine `SettlementContract` (`EndpointsKeepContract`) |
| `api_overwrite` | 2 identical requests | finding 2 |
| `resource` | 2 requests at a time; 1 transaction in two payloads for 2 unsafe requests, a tool call, a safe request and a misdirected one | `ReleasedIsPaid`, `HandlerOnce`, `OnePaymentOneResource`, `OneResourcePerPayment`; the whole refines `PaidSale` (`KeepsPromise`) |
| `resource_resume` | 2 requests, 1 invocation | finding 3 |
| `journal` | 2 callers of either kind, 2 payloads, crashes, hashless and late answers, fairness | `AttemptOutlivesPayload`, `PaymentsConcluded`, `WaitersProceed` |
| `journal_hashless` | 2 callers sharing a payload | finding 4 |
| `funding` | target 2, 3 signed transactions, 4 ledgers, fairness | `NeverOverfunded`, `OpenIsJournaled`, `CompletedIsExact`, `FaucetAskedOnce`, `PendingCleared` |
| `claims` | 5 wallets, 2 faucet payments, 1 error answer or torn write, either command, fairness | `NothingStranded`, `OneAwaited`, `Drained` |
| `bazaar` | 3 identities, 2 items, pages of 2, one client and one indexer, fairness | `SteadyIsFound`, `PagesCover`, `HiddenOnlyByRace`, `StaleGone` |

**Bounds.** Two workers are enough for every race on one record, since all of them
are between two calls (one that looked, one that wrote); workers return and call
again, so sequences of calls are unbounded, and the theorems cover any number of
workers. There is a ledger after `LastLedgerSequence` of one transaction, so that it can
be reserved in time, at it and too late; one request's
`Window` is too short at first. Two callers let a claim be taken over while its owner
still signs, and callers return and call again; two payloads let one be ended while
another is open. The history counter `ran` stops at 2, as `HandlerOnce` speaks of the
first repetition. Several transactions under one identifier are left to the theorems.
In `funding` three transactions are a trust line, a conversion and its successor after
an expiry; the last one has to fit before the last ledger. In
`claims` five wallets are merchant, buyer and three disposable ones, or a new merchant
and buyer after a reset, a torn cache or an error answer; two payments may go to one
wallet or to two, and two disposable wallets are tracked at a time. In `bazaar`
three entries fill a page and begin another. Symmetry is used over workers and over
requests, and only without liveness.

**Fairness.** In `settlement_live`: ledgers keep closing; a running worker takes its
steps (WF), and gets through to the store and back if it can do so again and again (SF
on `Get`, `Update`: crashes do not hit every attempt). That settle is called for the
record again and again is a premise of the property (`Asked`), not an assumption: the
payer keeps the payload and repeats it, but after `LastLedgerSequence` the middleware's
/verify answers `expired` and /settle is not reached (finding 3). A
request that keeps being made is answered conclusively at some time (SF on the
conclusive outcomes of `Query` and `CheckExpiry`). Nothing is assumed about
submissions arriving or ledgers including them. In `journal`: leases run out
and living processes take their steps (WF), and a caller that polls every 10 ms
finds the entry free if it is free again and again (SF on the claim). In `funding`:
ledgers close, a run's calls return or raise and the command is rerun (WF); some Tx
request is answered by a server that holds the whole range, and not every run is
killed just before it clears the journal (SF on `ConclusiveQuery` and on
`CheckExpiry`). In `claims`: the command is rerun and its calls return or raise (WF),
and kills, failed requests and Testnet resets end at last (`calm`), while faucet
requests may go on failing and payments arriving late. In `bazaar`: commands are
answered and the client lists again (WF); nothing is assumed about indexing or about
expiry, as every SET renews the TTL.

## 4. Findings

1. `settlement_stuck`: a call that verified in time reads the ledger again after
   `LastLedgerSequence` has passed and reserves the hash with a range that ends before
   it begins. No request about it is ever conclusive, and the record, which has no TTL,
   stays pending for ever; the documentation says that the reservation is retained
   until `LastLedgerSequence` has passed.
2. `api_overwrite`: `settle` verifies after its only look at the store, so of two
   identical concurrent calls the slower one may fail verification although the record
   says validated. The failure is cached over the success of the faster call, and
   returned to every matching retry until the TTL runs out.
3. `resource_resume`: a retry after `LastLedgerSequence` is answered `expired`, which
   is not among the recovered reasons, so that a response that was paid for and
   stored is not served.
4. `journal_hashless`: a verification failure has no hash, so a late one is not
   recognised as late and deletes the paid entry; the next call pays again.

## 5. Theorems

The theorems hold for any sets of processes, transactions, requests, keys and
wallets, any windows and last ledgers, and any number of ledgers. Each module's
named assumptions say only that the constants have their types, but for two:
`FingerprintAssumption` of `ResourceServer` (a facilitator fingerprint covers the
signed blob, the identifier and the resource the payload names, so it determines them) and the
finiteness of `Id` in `CatalogAssumption`. Timing and protocol assumptions are
hypotheses of the theorems that need them and are named below; every one is a
constant of the model, and the other value is explained in section 2. Each inductive
invariant was checked by TLC before it was proved.

**Settlement** (`SettlementProofs`)

* `TypeCorrect`: `TypeOK`.
* `SuccessTheorem`, `FailureTheorem`: `SuccessIsDelivered`, `FailureIsFinal`. The
  inductive invariant `TruthInv` adds three things to the properties: a worker on
  its way to the store carries a true verdict, a worker between the two requests of
  `_reconcile` is right that its transaction is absent for good (`WorkersSound`),
  and a validated transaction's slot is used (`SlotsSpent`), without which a closing
  ledger could include it again. The central lemma, `SettledStable`, is that no step
  of anybody changes a settled outcome.
* `ReservationTheorem`: `ReservationHeld`, inductive together with `TruthInv`.
* `NoRebroadcastTheorem`, `OneRequestTheorem`, `LifecycleTheorem`: under
  `~ SlowWorkers`. `BindInv` says that a hash has one binding, that records, owners,
  verdicts and submissions agree with it, and, the part that takes the argument,
  that once a hash is bound and its record is gone, no worker can still pass
  verification for it (`NoneMayRebind`): its slot is spent or its last ledger has
  passed, and whoever looked before that is no longer on the way.
* `ContractTheorem`: under `~ SlowWorkers`, `Settlement` implements
  `SettlementContract` with `bound`, `told` and the delivered transactions as the
  refinement mapping.

**Facilitator API** (`FacilitatorApiProofs`)

* `ApiTypeCorrect`: `ApiTypeOK`. Two facts about the control flow are needed: a
  request past `settle` holds a final response (`HoldsOutcome`), and one that works on
  a hash carries an identifier (`HasIdentifier`).
* `ApiImplementsSettlement`: `ApiSpec => Spec`. A step of the API is a step of
  `Settlement` or leaves its variables alone, so all theorems above hold of the
  composed system.
* `CachedTheorem`: under `~ SlowWorkers`, `CachedForItsRequest`.
  `CacheInv` says that whoever is past `bind` finds its own fingerprint in the hash
  (`BoundToRequest`) and that a cached response carries the fingerprint the hash is
  bound to (`ResponseOfBinding`), both of identifiers that are not `crossed`. A hash
  that lapses before the comparison is bound again or found by another request, and
  the comparison tells; only after the comparison nothing does.
* `AnswersTheorem`: under the same hypothesis, `AnswersAgree`. `AnswerInv` follows a
  verdict from the thread through the cache to the caller: it was told by settlement
  about the same transaction and request at every stop (`DoneIsTold`,
  `OutcomeIsTold`, `CacheIsTold`, `AnsweredIsTold`). Truth and agreement then come
  from `TruthInv` and `BindInv`.
* `EndpointsTheorem`: under the same hypothesis, `EndpointsKeepContract`: the HTTP
  responses implement `SettlementContract`, with what was answered, not what `settle`
  said, as the verdict. A later answer about the same transaction is a stutter, because
  it is the same answer (`AnswersAgree`); a payment cannot become delivered after an
  answer, because what was answered is settled.

**Resource server** (`ResourceServerProofs`)

* `TypeCorrect`: `TypeOK`.
* `PaidTheorem`: `ReleasedIsPaid`, and `OneResourceTheorem`: `OneResourcePerPayment`,
  both for any timing. `PaidInv` carries the payment from the facilitator's answer to
  the release; `ResourceInv` says that the facilitator's binding of a transaction
  fixes the resource its payload names, which `Authoritative` compares with the one
  that is released.
* `HandlerOnceTheorem` and `OnePaymentTheorem`: `HandlerOnce`, `OnePaymentOneResource`,
  under `~ SlowRequests`. `OnceInv` says that one request at most holds the right to
  run an invocation, and that once it is taken nobody can bind for the same payment
  again (`Guarded`): a record stands in the way for as long as the payment can be
  verified, or the payment has expired and nobody verified in time is on the way. The first attempt at this
  proof failed because the model let a record go at a time that did not depend on
  when it was written; `Until` and `Window` are the correction.
* `PromiseTheorem`: under `~ SlowRequests`, `KeepsPromise`: the routes and tools
  implement `PaidSale`, with the delivered transactions, `ran` and `released` as the
  refinement mapping. Beyond the invariants above the proof needs that a response on
  its way to the buyer, or in the store, is the output of a run that took place
  (`RanInv`).

**Payer** (`PayerJournalProofs`)

* `TypeCorrect`: `TypeOK`.
* `AttemptTheorem`: `AttemptOutlivesPayload`, and `ConcludedTheorem`:
  `PaymentsConcluded`, without hypotheses. `BoundInv` counts the payloads that left a
  process, are about to leave one, or are the entry's: there are at most as many as
  outcomes were applied, and one more while the entry is open; and what was applied is
  on file. A claim makes no payload, `persist_attempt_payload` adds one to an entry that
  had none, and an outcome closes one entry at most, whichever payload it is about.
* `PaidTheorem`: the action property `PaidNotRegressed`, under `~ HashlessFailures`,
  without which finding 4 refutes it, and `~ LateAnswers`: what the comment in the code
  claims holds once failures name their transaction. `JournalInv` says that the entry
  holds the only open payload, that every caller past its claim holds that one or one
  known to have failed (`HoldersKnown`), that recorded answers are in the receipts with
  their hash, and that a paid entry runs out only when nobody uses it.

**Bazaar catalog** (`BazaarCatalogProofs`)

* `TypeCorrect`: `TypeOK`. `SteadyTheorem`: `SteadyIsFound`, which is inductive with
  the types of the history variables (`CatalogTypes`).
* `HiddenTheorem`: `HiddenOnlyByRace`. `RaceInv` adds that a list call which holds a
  stored entry for expired looked before the entry was set again.
* `PagesTheorem`: `PagesCover`. `PagesInv` says of a search over a quiet catalog that
  what a call has found are the matching ones among the keys it has looked at
  (`FoundSoFar`) and that the pages so far are the sorted matches up to the cursor
  (`GivenSoFar`). The lemmas `SortedSorts` and `SliceProperties` say that `Sorted` is
  the ascending sequence of all elements and that a slice continues a prefix.

**Funding command** (`RlusdFundingProofs`), without hypotheses

* `TypeCorrect`, `NeverOverfundedTheorem`, `JournaledTheorem`, `CompletedTheorem`,
  from one invariant, `FundingInv`: a new transaction is only made when none is
  pending (`PendingPlace`); what took effect used a sequence number (`OutcomeUsed`),
  so that of two transactions with one number only one counts; the pending
  transaction and the draft fit what is missing, unless they are blind
  (`PendingFits`, `DraftFits`); a
  reported absence is final (`AbsentIsFinal`).
* `FaucetTheorem`: `FaucetAskedOnce`; no request without an attempt on file.

**Top-up commands** (`ClaimWalletsProofs`), for any number of faults, one command at a
time

* `NothingStrandedTheorem`: `NothingStranded`. `StrandInv` bounds where money can be
  by where it can arrive: a balance needs a trust line (`Lined`), a line that the file
  knows of, or that a payment is on its way to, is a tracked one (`FileLined`,
  `MintingTracked`), the run's copy knows everything the file tracks (`MemKeeps`), so
  overwriting the file with it loses nothing, and a wallet is marked deleted only
  without a line (`DeletedUnlined`). The cached wallets vanish only together with
  all others (`CachedAlive`): this is why a new merchant may disown the state file.
  Each part excepts the wallets in `lost`.
* `OneAwaitedTheorem`: `OneAwaited`, from `AwaitInv`.
* `ConservedInvariant`: no money is created. `Conserved` says that there is a function
  of partial sums over the numbered wallets whose last value, with the payments on
  their way, is at most what was claimed. The witness for the next state is written
  down for each kind of step (`Deposited`, `Withdrawn`, `MovedSums`), which takes the
  place of an induction over the wallets. A bridged payment keeps the sum because
  merchant and buyer are two wallets (`CachedDistinct`).
* `TypeCorrect`: `TypeOK`, whose bound on each balance follows from `Conserved`, as a
  balance is one of the terms of a sum.

**How the results fit together.** `SettlementContract` stands between facilitator and
merchant. `ContractTheorem` shows that `settle` keeps it in any number of processes,
`EndpointsTheorem` that it still holds of what the HTTP endpoint answers once the
cache lies in between. `ResourceServer` takes the contract for its facilitator
(`SettleAnswers`), and `PromiseTheorem` shows that buyers then get the sale of
`PaidSale`. The
payer's side assumes of the merchant's answers what the contract says of verdicts, one
for each payload and for good (`Answers`), and that any payload may be refused without
its hash. The two hypotheses `~ SlowWorkers` and `~ SlowRequests` are about time only;
`~ HashlessFailures` and `~ LateAnswers` are those of `PaidTheorem` alone. The last step,
one module in which payer, merchant and facilitator run together, is not taken.

**Only model-checked.** The liveness properties (`PendingResolves`, `WaitersProceed`,
`PendingCleared`, `Drained`, `StaleGone`), since the prover has no rules
for fairness and `ENABLED`; and that the code violates the four properties of section
4. Every invariant, every action property and every refinement that a passing run checks is
stated by a theorem.

## 6. Not modelled

Configuration and start-up, the facilitator client, the adapters, the CLI and the
proxy have no state that changes over time beyond what they call. Signatures, blob
decoding and JSON shapes are the constant `Acceptable`; amounts, fees and transfer
rates are decimal arithmetic on strings, which small numbers would not stand for
faithfully. Rate and body limits and the token store are single counters and reads.
The signer answers one call at a time from memory; its effect, a new signed payload or
an exception, is the action `Sign`. `demo_rebalance` and the other demonstrations keep
nothing between runs.

## 7. What could follow

`PaymentSystem`: the journal's merchant replaced by `ResourceServer`, and its
facilitator by `SettlementContract`, so that a payer pays at most once per purchase. It
needs the refinements above and one more: that the steps of `ResourceServer` keep what
`PayerJournal` assumes of the merchant's answers.
