# MachinePal in TLA+

MachinePal is a payment gateway: an HTTP server that answers a request for a
priced resource with `402 Payment Required`, takes the signed payment of the
second try, has a facilitator settle it, fetches the resource from the backend
behind it and delivers it with a receipt. It can also *be* the facilitator: the
EasyNet facilitator it hosts moves test tokens in a ledger of its own.

This directory specifies the program: the payment path, the ledger, the
composition of both in one process, the HTTP exchange, purchases from the buyer
to the backend with clocks and worker threads, the process from `machinepal init`
to its exit status with everything its configuration means, and the in-memory
exchange VibeSwap. Line references are to the repository (`src/...` is the
repository's own `src/` directory).

## 1. Inventory

| component | state it keeps | operations | interacts with |
|---|---|---|---|
| `PaymentManager` | `currentlySettlingPayments_` (a set under a mutex) | decode, pre-validate, lock, check, settle, record, unlock | called by `X402Processor`; calls the payments table and the facilitator client |
| payments table (`MachinePalDb`) | one row per settled payment, unique index over payer, chain, asset and nonce | `paymentExists`, `writePayment` | SQLite in WAL mode, a pool of eight sessions |
| facilitator clients | none (the list of facilitators) | `settle`, `verify`, self test | HTTPS with connect and total timeout, to an outside facilitator or to the same process |
| `EasyNetFacilitator` | `mutex_` (shared) | `processSettleRequest`, `processVerifyRequest` | called by `FacilitatorProcessor`; calls `EasyNetDb` |
| ledger (`EasyNetDb`) | tables `state` (balances) and `transactions`; `stateMutex_` | `getBalance`, fund a new wallet, transfer | same SQLite file as the payments table |
| `X402Handler` | response sender, processor, `internalErrorSent_`, its own lifetime | proxygen callbacks | owned by proxygen's event loop |
| `X402Processor` | `state_`, body buffer, request line | validate, 402, settle, fetch, pass through, error replies | calls `PaymentManager` and `HttpEndpointConnection` |
| `FacilitatorProcessor` | the same | the facilitator's HTTP endpoints | calls `EasyNetFacilitator` |
| server and worker threads | 256 event loops, connections pinned to them | accept, dispatch | a settle call to the own process needs a second worker |
| `MachinePalApp` | server thread, exit flag and code, last signal | start, poll, self test, stop, join | owns everything above |
| configuration | latest config and its hash under a shared mutex | load, reload, read | read by every request |
| payment data structures | immutable values | parse, validate signature, amount, recipient, validity window | used by gateway and facilitator |
| URL handling | none | decode and normalise a path | used by both processors |
| VibeSwap | pools, balances, shares | liquidity, swaps along a path | only the tests call it |
| `X402Client`, `machinepal client` | none | request, sign, request again | the other end of the protocol |
| project generation, certificates | the files of a project and their permissions | `machinepal init` | what the configuration loader reads |
| `main()` | overrides, exit status | parse, check the clock, load, run | configuration, `MachinePalApp` |
| logging | the registered loggers | configured twice, at start and when the configuration is known | `main()` and the configuration |
| VibeMarket messages, browser wallet, cryptography | messages; stored balance; none | parse; click handler; hashes and signatures | |

What is hard about it, and what makes each part correct:

* **One payment, many requests.** Every request runs on the thread of its own
  connection. Two of them may carry the same payment, and the answer to "was it
  spent?" is used only after an HTTP round trip of seconds. Correct means: one
  payment buys one resource, in every interleaving and across crashes.
* **A call that times out may have happened.** The gateway cannot tell a settle
  call that was not executed from one whose answer was lost. Correct means: it
  never grants what did not move, and a payment reaches the facilitator twice
  only after a failure that the client was told of.
* **Read, compute, write on the ledger.** Balances are absolute values computed
  from earlier SELECTs, in a table without a unique index, below two mutexes.
  Correct means: no lost update, one row per wallet, the two tables agree after
  any crash, the answer tells the truth about the ledger.
* **One exchange, one response.** Four reply paths, two exception handlers and
  an internal-error path may each answer, and the body goes on arriving after an
  answer. Correct means: at most one response, no charge after one, and an end
  to every exchange.
* **Waiting.** A worker thread that waits for the facilitator, which may be
  served by another thread of the same pool; a payment that stays locked
  meanwhile. Correct means: every wait ends.
* **Life cycle.** Start, failure to start, signals and self test race on an exit
  flag. Correct means: the process ends, with the code of what ended it.
* **Clocks and delays.** The buyer's clock limits the authorization, the gateway's
  judges it twice, and the settle call may wait between the two. Correct means:
  a punctual buyer is let in, and answer and charge agree as far as the buyer can
  tell.
* **Files that are made one by one.** `init` makes folders and files that depend on each
  other, sets permissions after the fact, and may fail or die anywhere; template,
  schema, reader and override table were written apart. Correct means: what looks
  like a project is one, and it starts.
* **Rounding and wrapping.** VibeSwap divides in every call, multiplies modulo
  2^256 and rolls nothing back. Correct means: tokens are conserved, no sequence of
  calls lets a share lose value, and what cannot be done changes nothing.

PROJECT.json lists these as hazards, each at its line and with the properties
that catch it.

## 2. The modules

| module | models | lines of code it stands for |
|---|---|---|
| `PaymentOnce` | the promise of the payment path, abstractly | the contract stated at `PaymentManager::checkPaymentIsNewAndSettleIt` |
| `PaymentManager` | `payment/PaymentManager.cpp`, the two statements on the payments table, the settle call | `PaymentManager.cpp` 23-225, `MachinePalDb.cpp` 160-328, `FacilitatorClient.cpp` 44-229 |
| `EasyNetFacilitator` | `facilitators/EasyNetFacilitator.cpp` on `db/EasyNetDb.cpp` | `EasyNetFacilitator.cpp` 15-153, `EasyNetDb.cpp` 8-344 |
| `EasyNetGateway` | both in one process, as `MachinePalConfig` wires them | `MachinePalConfig.cpp` 84-103 |
| `X402Server` | handler, processors and response sender of an exchange, and the backend connection | `X402Handler.cpp`, `X402Processor.cpp`, `FacilitatorProcessor.cpp`, `ProxygenResponseSender.cpp`, `HttpEndpointConnection.cpp` |
| `Purchase` | buyer, gateway, hosted facilitator and backend with their clocks and threads | `X402Client.cpp`, `ClientCli.cpp`, `Authorization.cpp`, `FacilitatorClient.cpp`, the pool of `MachinePalApp.cpp` |
| `MachinePalApp` | `MachinePalApp::runUntilExit`, its server thread and its signals | `MachinePalApp.cpp` 34-157 |
| `Configuration` | what a configuration file means: conversion, overrides, every check of every section, what the process uses | `config/ConfigLoader.cpp`, `config/MachinePalConfig.cpp`, `config/subconfigs/` |
| `ProjectGenerator` | `machinepal init`, operation by operation on the disk | `init/`, `admin/` |
| `MachinePalProcess` | `main()`: composes the last three | `main.cpp`, `init/Init.cpp`, `ConfigManager.cpp` |
| `VibeSwap` | the exchange, with u256 that wraps | `vibemarket/VibeSwap.cpp` |
| `PaymentManagerProofs`, `EasyNetFacilitatorProofs`, `EasyNetGatewayProofs`, `X402ServerProofs`, `PurchaseProofs`, `MachinePalProcessProofs`, `VibeSwapProofs` | the theorems of section 5 | |
| `FiniteSums` | lemmas about sums over finite sets, for the ledger and the exchange | |
| `MC*` | the instances TLC checks | |

**PaymentManager.** `pc[r]` is the program point of request `r` between two
accesses to shared state; `currentlySettlingPayments` is the C++ set,
`settledPayments` the table, `outcome` the `variant<SettlementResponse,
HttpError>` being returned. One action is one access: `LockPaymentAsBeingSettled`
the insertion under the mutex, `CheckIsNew` the SELECT, `RecordSuccessfulSettlement`
the INSERT, `Unlock` the scope guard's destructor. `call[r]` is the settle call
as the facilitator sees it: it moves the money (`FacilitatorMoves`) and reports
that in a step of its own, correctly or not (`FacilitatorReports`), or refuses or
fails without moving it (`FacilitatorDeclines`); all of it may come after the gateway
has given up (`SettleCallThrows`). A payment stands for `uniquePaymentKey`: domain
separator, payer and nonce; the gateway serves one network, so the index of the
table identifies the same thing. `Crash` empties everything but the table and
the facilitator. A request that has not arrived yet may arrive after the crash.

**EasyNetFacilitator.** `exclusive` and `shared` are the two modes of `mutex_`,
`stateMutex` the exclusive mode of the ledger's; its shared mode lasts for one
SELECT and is the conjunct `stateMutex = NoCall` of the reads. `rows` and
`balance` describe the `state` table (how many rows a wallet has, what a SELECT
returns), `seen` are the locals between SELECT and UPDATE. The funding INSERT is
committed on its own, the three writes of a transfer together (`Commit`); the
answer `success = true` is given later (`Confirm`).  `Throw` is every exception
and every negative result below the verification. It may come between the two:
the catch clause then answers `success = false` to a transfer that is in the
ledger. `answer` tells that clause's `unexpected_settle_error` ("error") from a
refusal with a reason ("no").
`kind` distinguishes settle from verify.

**EasyNetGateway.** `FacilitatorMoves` of the payment manager is `Commit` of the
ledger; a request's settle call arrives with `SendSettle`, is answered when the
facilitator has replied, and is not recalled by a timeout. A crash takes both
halves.

**X402Server.** One handler per exchange. A callback that blocks in the payment
manager, the facilitator or the backend is a `pc` of its own ("paying",
"facilitating", "fetching", "forwarding"), so that exchanges interleave there and
a client may hang up meanwhile; what the callback does between two such points
is one action. Host, path and header checks are reduced to the request's `route`,
`wellFormed` and `method`. The payment manager appears as `PaymentOnce`
(`settled`): it grants a payment at most once. The replies are operators named like
the methods that send them (`reply402PaymentRequired`, `replyX402ResourceSuccess`,
`replyPassThroughError`, ...); `executeCurlRequest` and `Backend` give the answers a
backend request can have. Statuses are classes: "2xx", "402", "error" of the
gateway's own, "backend" for what is passed on. Every reply may be lost in an
exception of the sender that the processor swallows (`SendOrThrow`). The idle
timeout ends only requests that are still arriving: a complete one waits for its
handler without a limit. `terminated` is the end of the whole process by an
exception that leaves a `noexcept` callback.

**Purchase.** `step[b]` is where buyer `b` is in `buyAndRetrieveX402Resource`, or in
`machinepal client` (`runClientCommand`), which sends a payload from a file, signed
at any earlier moment, without asking first, or an unpaid request without a file.
`skew` is how far its clock is ahead; the window of the authorization starts at
its own "now" (`ValidAfter`, `ValidBefore`), and `validate` judges it on the
gateway's clock, once in `HandlePayment` and again in `FacilitatorExecutes`.
Proxygen pins a connection to one thread of the pool: `thread` is the request's,
`facThread` that of the settle call, which is a connection to the same pool.
`Blocked` threads are those inside a curl call. `SettleCallThrows` is the timeout
or any earlier failure; a request that still waits for its thread may be read
later or not. `Restart` ends all connections and may bring another price. Nonces
are fresh, so the lock and the table of `PaymentManager` have nothing to refuse;
its own module covers shared payments.

**MachinePalApp.** Three threads and the signal handler on four flags: `main` is
the place in `runUntilExit`, `server` that of the server thread in
`HTTPServer::start`, `owner` that of another thread that calls `stopServer` (the
test fixture does). What proxygen does is external: `start` reports a failed bind
to `onError` and returns, `stop` ends the loop of a server that has entered
`start`. The main thread's counter matters up to the self test only.

**Configuration.** Pure operators. A document is a function from key paths to
leaves; a leaf is a record of its text and of what the text can be read as, so that
formats (URL, address, host name, port) are given instead of being parsed.
`yamlToJson` chooses types as the loader does, `applyEnvOverrides` writes the
overrides that are found, the `...IsValid` operators are the checks of one class
each, `createFromJson` their conjunction, `Loaded` what the process uses.
`kYamlTemplate` is the template that `init` writes.

**ProjectGenerator.** `Order` lists what `generateProject` makes; each item is
checked, created, written and secured in steps of its own (`phase`), and each may
fail, with the clean-up of its own catch clause, or be the last before a crash.
`content` holds, per file, which command wrote it. A full disk is noticed late or
never (`shortfall`). Two commands may overlap (`overlapped`).

**MachinePalProcess.** `process` is the place in `main()`; from "running" on, every
step is one of `MachinePalApp`, guarded by what the settings allow (certificates
that fit, ports that differ). `flawless` remembers that the project was completed,
left as it was and started with harmless overrides, and that nothing of the
machine failed: then a failed start is the code's own. The exit status is 0
whatever `runUntilExit` returned, as in `main.cpp` 161.

**VibeSwap.** One action per call; `Reject` is a call that throws before it has
moved anything, `AfterHops` walks a path hop by hop (`Hop`) and keeps what earlier hops moved when a
later one throws. All arithmetic is modulo 2^`Bits`. `hung` records a deposit whose
square root never returns.

Each property is paired with a *faulty variant* of an operation (a definition
with a comment "Faulty variant"), a plausible slip in the code that the property
is known to catch. They are no part of the specifications.

## 3. What the runs show

| run | instance | shows |
|---|---|---|
| `payment` | 3 requests, 2 payments, 1 crash | lock discipline, one grant per payment, the check is still valid when used, refinement of `PaymentOnce`; every request ends, every lock is released |
| `payment_refused` | the same | **violated**: a refused settlement is granted |
| `ledger` | 3 calls, 2 wallets that pay each other, 1 crash | one row per wallet, no lost update, tables agree, answers tell the truth; no call waits for a mutex for good |
| `ledger_self` | a wallet that pays itself | **violated**: tokens appear from nothing |
| `gateway` | 2 requests, 2 payments, 1 crash | a settled request is in the ledger, a refused one is not unless the facilitator answered "unexpected error", and a rejected one is not; a second charge presupposes a failure |
| `gateway_charged_twice` | the same, no crash | **violated**: a payment is charged twice |
| `purchase` | 2 buyers, 2 threads, clocks from -1 to 1 around the gateway's, window 1, 3 moments, 2 prices, 1 restart | what buyers are told agrees with what the ledger took; a punctual buyer is not turned away; if a request is never answered, a backend holds a thread for ever |
| `server` | 2 exchanges, 6 kinds of request | one response, no charge after a response, one resource per payment; every exchange ends, but for a complete request that is never answered and whose client stays, and that one ends when the client goes |
| `server_paid` | 2 paid exchanges | **violated**: a settled payment ends without the resource |
| `app` | 2 `init` commands, 8 edits of the template, 5 environments, 3 command lines, self test at the second tick | a configuration on the disk means a complete project; secrets are never exposed; an initialised project starts; the command line wins; proxygen is stopped once; the server thread is joined before `runUntilExit` returns; a stop or signal that comes while the server runs ends the process |
| `app_failure` | `MachinePalApp` alone | **violated**: a failed start ends with code 0 |
| `vibeswap` | 2 users, 3 tokens and pools, 7 calls, words of 10 bits | only `mintToken` makes tokens and only calls that throw lose any, these fail half way for two causes only, a share keeps its value where nothing wraps and no path comes back, shares add up, the first deposit mints the root, only huge deposits hang |

Bounds. Two requests are what a race on one payment needs; the third may come
after the first two have failed or after the crash, and may carry the other
payment. The crash may come before, during and after any request. The ledger's
amounts are scaled down (funding 3, largest integer 7) so that a second payment
exceeds what is left; the two wallets pay each other, so that one may receive
before it is ever funded. `MaxBodySize` 1 with up to two chunks puts the limit
between two chunks.

In `purchase` two threads are as many as it takes for all of them to wait for each
other (each request on one, its settle call queued on the other or on the same);
with a window of 1 and moments 0 to 2, a request can be handled before, in and
after its window, whichever way the clocks differ, and expire between the two
validations. In `app` the edits touch every section of the template, with at least
one that is accepted and one that is refused by the rules of host, log, wallet,
certificates, organizations and network; environments and command lines hold an
override that works, one that is ignored because its key is prefixed twice, and
values that are refused. `MCCut` is what a full disk may leave of the template.
Nobody launches while a command runs, or after two commands have overlapped. In
`vibeswap` seven calls are enough to fund a user, make the pools of a path and
swap round it, or deposit, swap and withdraw. A wallet is funded with 105, a word
has 10 bits and the fee is a tenth, so that all that can wrap does: the product of
the deposit of 32 by 40, and, in a pool that has 100 of a token, the denominator of
a price (`VibeSwap.cpp` 235), which reaches 1024 with 3 more. The swap then asks for more
than the pool holds, and throws (425-427) after the trader was debited (413): a
straight path of one hop is enough.
`TokensAreConserved` and `FailedCallsMoveNothing` hold of all calls and say what
such a call may lose: some of one token, no share, and only if the price wrapped or
the path came back to a pool. `ShareKeepsItsValue` makes no claim about a pool whose
products may have wrapped in the step, nor about one that the step's path came back
to, whether anything wrapped or not: what such a path does to that pool is covered by
`TokensAreConserved` and `SharesAddUp` only. There `MaxCalls` ends every behaviour, so
deadlock is not checked.

The other bounds are `MaxCrashes`, `MaxChunks`, `MaxTime`, `MaxRestarts` and the
finite sets of requests, calls, exchanges and buyers; `Quiescent` (`AllDone`,
`Terminated`) lets a population that is used up stay so, and every other deadlock
is an error. `vibeswap` takes the users as interchangeable; no other run
uses symmetry, since liveness properties would not allow it.

Fairness. `PaymentManager` and `EasyNetFacilitator` assume weak fairness of each
thread: nothing in their path waits except for the settle call, which curl's
total timeout ends (`FacilitatorClient.cpp` 170), and for mutexes. Neither
clients nor facilitators nor crashes are fair. `X402Server` assumes that the
event loop runs, that a request that stays incomplete is timed out
(`ServerFactory.cpp` 57), and that a backend answers or drops the connection: this
last is an assumption about the outside, since `HttpEndpointConnection` sets no
timeout. Nothing ends a complete request without an answer but its client. `Purchase` does not assume it: worker threads that are free handle what
waits for them, and curl's timeout comes, but a backend may never answer, and
`OnlyBackendsHoldThreads` says that this is the only thing that can go on for ever.
`MachinePalApp` and `MachinePalProcess` assume that each thread runs (the self
test has curl's timeouts); signals and the owner's stop need never come, and
nobody need initialise, edit or launch.

## 4. Disagreements found

1. `PaymentManager.cpp:134` never reads `success()` of a settlement response. A
   facilitator that answers 2xx with `success=false` has its refusal recorded as
   a settlement, the resource is served and the nonce is spent. The table of
   `X402Processor.cpp:33` promises 402 for a failed settlement.
2. `EasyNetDb::transferValueUnsafe` reads both balances before it writes either.
   For a transfer of a wallet to itself the second UPDATE overwrites the first,
   and the wallet gains the amount.
3. A settle call that times out after the ledger's commit leaves no record on the
   gateway, and the facilitator keeps no record of nonces: the retry the client
   is invited to make is charged again, against `EIP712Domain.h:31`.
4. When the backend fails after the settlement the client gets the backend's
   error, without the receipt, and the payment stays spent.
5. `onError` sets exit code 1, `start` then returns normally, and
   `MachinePalApp.cpp:89` overwrites it with 0 before the main thread reads it:
   a port in use ends `runUntilExit` with success.
   This rests on `start` returning after it has called `onError`; proxygen is not
   part of the repository.

More behaviours are in the models, without a run of their own.

* When the response sender cannot be created, for whatever reason, `onError` later calls
  `responseSender()`, whose `CHECK_STATE` throws out of a `noexcept` function
  (`terminated` in `X402Server`). An exception while the first 402 is being written
  is swallowed, and nothing is answered (`LeftWaiting`).
* `stopServer` latches `serverStopCalled_` before it calls proxygen: a signal
  handled before the server thread has entered `start` finds no event loop to end,
  every later one returns early, and the process stays (`ProxygenStop` with
  `server = "starting"`).
* `main.cpp:161` drops the result of `runUntilExit`: the status is 0 even where the
  result was not (`MainReturns`).
* `main.cpp:149` says that overrides replace configuration values. Those for ports,
  `BIND_IP` and `HOSTNAME` do not: `ConfigLoader` prefixes their keys a second time,
  so only a variable with the doubled prefix is found (`OverrideTable`).
* Template, schema and tests say `enable` for http and https, the reader looks for
  `enabled`: the option has no effect (`Enabled`). Both protocols default to port
  8080, so a document without ports loads and cannot be bound (`PortAt`,
  `PortsDiffer`). What the schema finds is only logged; its log types are default
  and json, the reader's text and json.
* Network and facilitator of the configuration are checked and not used: the
  process always settles with the facilitator it hosts itself (`Loaded`).
* A disk that is full when a stream is closed is not noticed: `init` ends with
  "Project initialized successfully." and short files (`shortfall`).
* Two `init` commands in one directory may overwrite each other's wallet, with
  the payment address of one and the key of the other (`overlapped`).
* `machinepal client` never signs a payment of its own, though the README's example
  says "The Client automatically paid"; a POST through it always fails, because it
  gives no body (`runClientCommand`).
* A swap along a path that comes back to a pool may throw half way, with the
  trader's money gone, or trade against reserves that it has changed itself; a first
  deposit whose product is 2^254 or more never returns (`hung`).
* The same happens on a straight path when the denominator of a price wraps: with
  reserves of 2^256 / 1000 and 100 a sale of 1 is priced at 1634, and throws after the
  trader was debited (`PriceWrapped`).
* A User-Agent that is not valid UTF-8 makes the constructor of the response sender
  throw (`ProxygenResponseSender.cpp` 50, `OnRequestThrows`): the handler then has none
  when the client hangs up.
* What is thrown after the ledger's COMMIT is answered `success = false`
  (`EasyNetFacilitator.cpp` 63), like a transfer that failed (`Throw`).

## 5. What is proved

`PaymentManagerProofs` proves, for every set of requests and payments and any
number of crashes, from the two assumptions of `PaymentManager`:

* `TypeCorrect`: `Spec => []TypeOK`;
* `LockDiscipline`, `CheckThenActIsSafe`, `SingleGrant` and
  `RepeatedCallsFollowFailures`: the safety properties of the run `payment`
  (`SingleGrant` also proves `GrantIsDurable`, which no run checks);
* `Refinement`: `Spec => ImplementsPaymentOnce`.

The inductive invariant `IInv` is the conjunction of the type invariant, the
safety properties and `ProgramPoints`, which ties the locals to the program
point: an outcome exists only at "unlock" and "done", a settle call only from
"await" on, and a request that made one and is past the guard was granted or
told of an internal error. None of the properties is inductive alone.
`GrantedAtMostOnce` needs `CheckStaysValid` (the request about to INSERT finds
no row) together with `GrantIsDurable` (whoever was granted before has one);
`CheckStaysValid` needs `LockHeldByOne`, because only the holder of the same lock
could insert the row; `SecondCallNeedsAFailure` needs all of them at the moment
the second call is made. Across a crash the lock is lost and the row is what
carries the argument on.

`EasyNetFacilitatorProofs` proves, for any calls, wallets, authorizations, amounts
and crashes, from `FundingAssumption` (the initial funding fits twice into a
u256) and `AuthorizationAssumption`:

* `LedgerTypes`: every balance stays in `0..MaxUint`, so no transfer wraps;
* `OneRow`, `VerificationStands`, `NoUpdateLost` and `TruthfulAnswers`: the
  properties of the run `ledger` that speak of a row, a read or an answer;
* `TablesAgree`: `Spec => []StateMatchesTransactions`, the balance of every wallet
  is its funding with what the transactions brought and took, if nobody pays itself
  (`NobodyPaysItself`);
* `OnlySelfPaymentsMint`: `Spec => []NothingIsMinted`, under the same hypothesis and
  with a finite set of wallets. The run `ledger_self` violates this very property with
  a wallet that pays itself, so that the two together say that nothing else makes
  money. The code does not refuse such a payment: the hypothesis is a restriction, not
  something the code ensures.

Its invariant adds to them who holds `mutex_` in which mode (`Locks`), that what a
settle call has read and concluded is true of the tables as they are
(`ReadsHold`), and which calls can have an answer (`Results`). The lemma `Alone`
is the heart of it: a settle call inside `mutex_` is alone inside, so nobody
changes the tables under its feet (`Frame`). `stateMutex_` is never used: what the
code protects twice would be safe with `mutex_` only, as long as nothing but the
facilitator calls the ledger. For the two theorems about sums the invariant is
extended by `Books` (a wallet without a row has neither balance nor funding, the
transactions are finite in number) and `Account` (all balances add up to the fundings).

`PurchaseProofs` proves, for any buyers, threads, prices, clock skews, window and
number of restarts, from the four assumptions of `Purchase` (prices are positive,
skews are integers, there is a thread):

* `TypeCorrect`: `Spec => []TypeOK`, so the ledger takes only configured prices;
* `AnswersAgree`: `Spec => []ChargesMatchAnswers`;
* `PunctualityPays`: `Spec => PunctualBuyersAreAccepted`, the action property.

The invariant adds two facts. `Fates` ties the buyer's step, the request and the
settle call together: a call exists only from the moment pre-validation let the
buyer in, so a buyer who was refused has none that could be executed later.
`Clocks` says that a signature is never from the future of the gateway's clock and
that while a call waits its price is the one in force and its window has begun: so
the second validation can only find that the window has ended. A restart cuts the
waiting calls, which is what keeps the price part of it inductive.

`EasyNetGatewayProofs` proves, for any requests, payments, wallets, amounts and
crashes, from the assumptions of `PaymentManager` and `AuthorizationOfPayment`
(an authorization belongs to a payment):

* `GatewayIsPaymentManager`: `GatewaySpec => Spec`, and `GatewayIsFacilitator`:
  `GatewaySpec => F!Spec`. Each half runs in the composition as it runs alone, so the
  theorems of both halves hold of it; for the promise of `PaymentOnce` this is
  spelled out (`GatewayPaysOnce`);
* `OutcomesAreTruthful` and `SecondChargeFollowsFailure`: the properties of the run
  `gateway`.

The link between the halves is `CallsAgree`: what the payment manager thinks of a
call is what the facilitator has done with it ("moved" only when the row is
committed, "confirmed" only with the answer `success = true`, open as long as the
facilitator is at work, and not called without a call). `Receipts` adds what the
request was left with to it. With both `OutcomeTellsTheLedger` is inductive: a settled
outcome needs a confirmed call, a refused one an answer that was no confirmation, an
HTTP 400 that there never was a call; and a row is never taken back, neither by a
timeout nor by a crash. A refused settlement is granted all the same (section 4); the
theorem says what the ledger has of it.

`X402ServerProofs` proves `ServerTypes`, `OneResponse`, `AnsweredIsNotCharged` and
`OnePurchase`, the safety properties of the run `server`, for any exchanges, any
requests they carry, any body limit and number of chunks. `AtMostOneResponse` is
not inductive: `state_` does not tell whether there was an answer, because
`sendInternalError` leaves it alone and remembers itself in `internalErrorSent_`.
`Silence` says where an answer can have been given: at every point from which one
is still to come (before the request, or inside a blocking call) there is none,
and while a body arrives an answer implies one of the two flags. A body beyond
the limit has been answered, which is what keeps `onEOM` from paying for it.
`Grants` is the rest of `OnePurchase`: only a paid exchange fetches or hands out.

`MachinePalProcessProofs` proves, for any number of `init` commands, any edits,
environments and command lines, every safety property of the run `app`:

* `OrderlyEnd`, about `MachinePalApp` alone: types and the two safety properties of the
  life cycle, for any tick of the self test. `StopIsClaimed` is the argument: whoever wins
  the exchange of `serverStopCalled_` is the only one inside the call, once;
* `ProcessTypes`, `EveryLaunchEndsOrderly` (the same invariant holds of
  every launch, because `main()` starts each one in the initial state of
  `MachinePalApp`) and `LevelIsAsGiven`, the precedence of command line, environment
  and file;
* `CompleteProject`: by `Progress`, a command that is alone has written what comes
  before its place in `Order` and nothing after it. `OneCommand` and `PhaseFits` (which
  operations an item goes through) are what makes it inductive: a crash leaves
  a prefix, and a directory that is not empty is refused, so that the next command
  starts from nothing;
* `SecretsAreClosed`: a secret file is created with default permissions, so that
  the property rests on `SecretsFolderFirst`: the folder of the secrets is closed before
  any file is created, and is not opened while a secret is in it. This holds for commands
  that overlap, too;
* `ProjectStarts`: a project that `init` completed starts, whatever harmless overrides
  are given. `TemplateLoads` is its core: the configuration accepts the template for
  each of them. The template is taken apart (`TemplateEntry`), each leaf is what the
  checks want at its path (`Agreeable`), the overrides can only replace or add level and
  type of the log (`OverriddenTemplate`), and a lemma for each section follows. Then
  `StartInv`: from the launch of such a project on, the certificate that is read is the
  one that was made with the key, which `ConfigurationComesLast` grants, and the two ports
  differ, so that neither the creation of the server nor the bind can fail for a reason
  of the project.

It assumes that no command is called "absent" or "short" (`CommandAssumption`, the
other values of `content`) and that the paths of documents are sequences of keys
(`DocumentAssumption`). `GeneratorInv` was checked by TLC on the instance of the run
`app` before it was proved.

`VibeSwapProofs` proves, from `SwapAssumption`, first the arithmetic, for any fee and
any amounts whose products fit into a word (where they do not, the run's property
makes no claim either):

* `RootIsTheRoot`: the bisection of `integerSqrt` ends with the integer root, for every
  value; its interval shrinks and keeps `low^2 <= value < high^2`;
* `SellingFavoursThePool` and `BuyingFavoursThePool`: the product of the two reserves of a
  hop does not fall with what `getAmountOut` pays, and grows with what `getAmountIn`
  asks for; a sale never takes the whole reserve;
* `WithdrawalFavoursThePool`, `DepositFavoursThePool`: no step of `removeLiquidity`, or of
  `addLiquidity` on a pool that has shares, lowers the value of a share
  (`ValueKept`). Rounded down, a withdrawal takes at most its part of each reserve;
  of the two tokens of a deposit each pays for at least the shares it mints, since the
  smaller quotient counts, and what is taken is never more than was offered
  (`TakenIsOffered`).

Then the exchange as a whole, for any users, tokens, paths and number of calls:

* `OnlyHugeOnesHang`: `Spec => []OnlyHugeDepositsHang`, without further hypotheses. The
  powers of two below the word are few enough for the loop to find its end
  (`PowerOfTwice`, `LoopEnds`);
* `AmountsFit`, `PoolsAreBacked`, `SharesStayCovered`, `NothingIsLost`,
  `NoCallFailsHalfWay`, `SharesKeepTheirValue` and `FirstSharesAreTheRoot`: every other
  property of the run `vibeswap`, and `SharesAreCovered`, under two hypotheses.
  `AmountsFit` says more than types: the supply of a token, over wallets and pools
  together, and the shares of a pool stay within `MaxSupply` (`AmountsAreSmall`), so
  that no sum ever wrapped.
  `NoOverflow`: no product of two supplies and the denominator of the fee reaches the
  word; with 256 bits and a fee in thousandths this allows supplies up to 2^122.
  `StraightPaths`: no swap comes back to a pool. The code enforces neither: what
  happens where they fail is what the run `vibeswap` shows, with narrow words and a
  path that goes round. Under them `SharesKeepTheirValue` and `NoCallFailsHalfWay` are
  without exception, so that a call that throws loses nothing either.

The invariant `SwapInv` says that each token has at most `MaxSupply` (so that nothing
wraps), that the shares of a pool are exactly those of the wallets and the locked
ones, and `SharesBacked`: the square of the supply of shares is at most the product of
the reserves, and a pool without shares is empty. Only with the last does it become
inductive: what a withdrawal divides by is then positive, a pool with shares has
reserves of both tokens, and the number of shares is bounded by the tokens there are.
It is kept for the same reason as the value of a share, and established by the first
deposit because the root is rounded down. A swap is walked with `HopsDone`: what has come
into the pools less what the next hop has still to take over, with the pools ahead
as they were priced, so that no hop fails. TLC checked `SwapInv`, and `ValueKept` of
every step, before they were proved, on the instance of `vibeswap` with words of 14 bits
and the round path replaced by one that uses each pool once, which satisfies both
hypotheses.

`FiniteSums` is what makes sums provable: the library's induction theorems take an
operator as a parameter, but induction over the *set* of the numbers (or subsets) for
which something holds needs none (`NumberInduction`, `SetInduction`). From it follow that
a sum over a finite set does not depend on the order in which elements are chosen, and
how it changes when a value or the set does. The recursive functions of `VibeSwap` are
unfolded in the same way.

Only model-checked, and why:

* all liveness (`EveryRequestEnds`, `EveryLockIsReleased`, `EveryCallEnds`,
  `EveryExchangeEnds`, `ShutdownEnds`, `OnlyBackendsHoldThreads`): temporal properties
  under fairness and ENABLED are beyond the prover;
* what the exchange does with swaps that come back to a pool and with supplies beyond
  `NoOverflow`.

Every safety property of a passing run is a theorem.

The proofs changed the models in a few places. Two CASE expressions of
`ProjectGenerator` had arms that overlap, which TLC reads in order and TLA+ does not
determine; and the precedence of `CommandLineWins` was written the same way. Both
are disjoint now. The entries of `kYamlTemplate` were given a name, `TemplateEntries`.
`EasyNetFacilitator` and `VibeSwap` add up with `SumFunction`; powers of two are `pow2`,
since `^` means nothing to the provers; a round of the bisection (`Halve`) and a hop
(`Hop`) are operators, and the hops of a path a recursive function instead of a fold.
`SwapAssumption` says that the users are finite in number, and the bounds natural
numbers.

## 6. Not modelled, and why

* Signatures and hashes are ideal: a payment validates or does not. Their
  arithmetic is out of TLC's reach. This includes how OpenSSL makes a certificate
  and `CertManager`'s signature buffer of 256 bytes, which is too small for an
  imported RSA key of more than 2048 bits.
* The SQLite pool and schema: sessions are interchangeable. Durability is that
  of a process crash; with `synchronous = NORMAL` a power loss may drop the last
  commits.
* `processVibeBuyRequest` changes nothing yet, and the VibeMarket messages are
  data structures that nothing processes.
* The zero address as a provider of liquidity (`VibeSwap.cpp` 61-189 accept it): its
  shares would be one with the locked ones, and it could withdraw them. `SwapAssumption`
  says that nobody calls with it.
* A second exception while `sendInternalError` reports a first one.
* The browser wallet: a page of JavaScript that keeps a balance of its own.
* The parsing of URLs, addresses, host names and HTTP: a text comes with the
  formats it has, a request with the verdict on it.
* Logging texts, statistics, the wording of errors, header copying.
* Reloading of the configuration: `reloadConfig` remembers the hash of a file before
  it has loaded it, but nothing calls it a second time. Renewal of certificates
  while the process runs: nothing reads them again.

## 7. Plan

Done, in this order: `PaymentOnce`, `PaymentManager`, `EasyNetFacilitator`,
`EasyNetGateway`, `X402Server`, `MachinePalApp`; then `VibeSwap`, `Configuration`,
`ProjectGenerator`, `MachinePalProcess` and `Purchase`.

Then the proofs: `PaymentManager`, `EasyNetFacilitator` and `Purchase`, followed by
`X402Server`, `MachinePalApp`, `EasyNetGateway`, `MachinePalProcess` with `ProjectGenerator`
and `Configuration`, the arithmetic of `VibeSwap`, and at last, with `FiniteSums`, the sums
of the ledger and the calls of `VibeSwap`.

Next:

1. `X402Server` as an implementation of the promise it makes to a client: an abstract
   exchange of one request and at most one response.
2. `VibeSwap` without `StraightPaths`: tokens are conserved on round paths, too, as long
   as no hop throws.

Then, where modelling can still add something: `UniquePayment`, the two identities
of a payment (lock key and index of the table) as operators, and when they
distinguish the same payments; decoding and normalising a path, idempotence,
against a reference; the balance the wallet stores.
