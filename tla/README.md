# A TLA+ development of dapplink-wallet-api

`dapplink-wallet-api` is a gRPC gateway between a wallet back end and five
chains.  This directory holds TLA+ modules that model its behaviour, TLC
configurations that check them on small instances, and theorems about them
that the TLA+ proof system checks for every instance.

Contents: [the system](#the-system), [what is modelled](#what-is-modelled),
[runs](#runs), [what the runs show](#what-the-runs-show), [proofs](#proofs),
[what is not modelled](#what-is-not-modelled), [plan](#plan),
[how to run](#how-to-run).

## The system

One process: a command line that starts a gRPC service, a dispatcher that
checks the caller's token and picks an adaptor by chain, and one adaptor for
each chain.  The adaptors keep almost no state of their own; what changes is at
the nodes they talk to, between two of their calls.  That is where the hard
behaviour is: an answer that was right when it was read and is not when it is
used, an answer that is lost, a request that arrives twice or late.

| Component | State | Operations | Hard because | Correct if |
|---|---|---|---|---|
| Sponsored transfer, `chain/bnbchain/bnb_aa.go`, `chain/evmbase/{gas,send_retry}.go`, `chain/evmbase/aa` | `sponsorSendMu`; the sponsor's and users' nonces at the node | `BuildSponsoredTransfer`, `SendSponsoredTransfer` | concurrent calls share one nonce; retries spend money; answers get lost | calls never take each other's nonce, nothing is paid for twice, no hole in the queue, every call is answered |
| EVM node client, `chain/evmbase/ethclient.go` | connection | one RPC each with a timeout; range and batch queries | partial failure of a batch; the chain moves between two queries | a range is contiguous and an answer names what was really covered |
| Build, sign, send for BNB and Ethereum | none | `BuildUnSignTransaction`, `BuildSignedTransaction`, `SendTransaction` | nonce and fees are read a second time between building and signing | a signature is attached to the transaction it signs |
| BNB block indexing, `bnb.go`, `bnb_receipt.go` | none | `GetBatchBlock` and the parsers below it | one movement of funds appears as outer call, log and inner operation | each transfer is reported exactly once |
| Lifecycle, `common/cliapp`, `common/opio`, `services/grpc` | contexts, signal channels, the service goroutine | start, wait, stop | two signals, three goroutines, failures while starting | it ends on a signal and what was started is stopped |
| Dispatcher, `chaindispatcher/dispatcher.go` | registry built at start | interceptor, one handler for each method | a panic in a handler; configuration and registry disagree | every call is answered, unsupported chains are refused |
| Retry and dialing, `common/retry`, `DialEthClient` | attempt counter | `Do` | a context shorter than the back-off | it stops, and tells success from failure |
| Tron, `chain/tron` | none | broadcast, energy rental, resource queries | the HTTP client below repeats requests | a transaction that was taken is reported as taken |
| Solana, `chain/solana` | none | build, sign, send, block and history queries | several signers merged by envelope | each request gets its own answer |
| Bitcoin, `chain/bitcoin` | none | send, block queries | a check after the broadcast | as for Tron |
| HTTP server helper, Redis lock | | | | nothing in the repository calls them |

Interactions.  The dispatcher calls an adaptor inside its interceptor, which
turns a panic into an error; gRPC runs every call in a goroutine of its own, so
the calls of one adaptor interleave freely.  An adaptor calls its node client,
which uses a fresh context with a timeout of ten seconds and ignores the
caller's context: a client that goes away does not stop what it started.  The
only lock of the running program is `sponsorSendMu`, a field of the BNB adaptor.

The hazards found on the way are listed with their lines in `PROJECT.json`.

## What is modelled

| Module | Models | Run module |
|---|---|---|
| `GasFees` | the fee arithmetic of `gas.go` and `send_retry.go` as operators | (extended by two modules below) |
| `SponsorQueue` | abstract specification: what the sponsored endpoint promises | |
| `SponsoredSend` | the sponsored endpoint; instantiates `SponsorQueue` | `MCSponsoredSend` |
| `EvmTransfer` | build, sign and send on BNB and Ethereum, for several wallets | `MCEvmTransfer` |
| `BnbBlocks` | the BNB block and transaction queries and the range calls of `ethclient.go` | `MCBnbBlocks` |
| `ReadHandlers` | what each remaining query handler of the five adaptors makes of its node's answers | |
| `Gateway` | the process: commands, signals, start, dialing, dispatcher, calls; extends `ReadHandlers` | `MCGateway` |
| `Tron` | the Tron adaptor: build, sign, broadcast, JustLend rentals, ranges, two queries | `MCTron` |
| `Solana` | the Solana adaptor: ranges with their parallel fetch, parsing, transfers with several signers | `MCSolana` |
| `GasFeesProofs` | lemmas about the fees, for the next three modules | |
| `SponsoredSendProofs`, `SponsoredQueueProofs` | theorems about `SponsoredSend` | |
| `EvmTransferProofs`, `BnbBlocksProofs`, `GatewayProofs`, `TronProofs`, `SolanaProofs` | theorems about the module in their name | |

All models cut a handler where it makes a call of a node, takes a lock or
starts or joins a goroutine, since that is where others can step in; between
two such points the code is local and is one action.  The nodes, the chains and
the wallets' owners are external and modelled from how the code uses them.
Operators whose comment begins with "A slip" are variants of the operator after
them, with a bug the code might have had; `PROJECT.json` lists which property
each one breaks.

### SponsoredSend

A request is one call of the endpoint, from the client's build to the answer of
the send.  State and code correspond like this:

| Variable | Code |
|---|---|
| `pc` | the place in `SendSponsoredTransfer`: `idle` (not built), `signed` (built and signed by the user), `lock` (before `Lock`), `auth` (before the authorization check), `fees`, `nonce` (head of the loop), `send` (before `SendRawTransaction`), `done` |
| `op` | the user operation; only the account and `AuthNonce` matter |
| `attempt`, `fee`, `nonce` | the locals `attempt`, `gasTipCap`/`gasFeeCap`, `sponsorNonceBig` |
| `reply` | the code of the response |
| `holder` | who holds `sponsorSendMu` |
| `ledger`, `mined` | the node's view of the sponsor's account: transactions by nonce, how many of them are in blocks |
| `gapped` | transactions a node parks because a nonce before theirs is missing |
| `wire` | transactions that will reach the node after the program gave up waiting |
| `userNonce` | account nonces of the users |
| `turn` | history: `mined` at the moment a call got the mutex; no action reads it |

Each step of a call is one action, cut where the code makes a call of the node
or takes the mutex, since that is where others can step in.  Between two such
points the code is local and is one action.  Every return under the mutex runs
the deferred `Unlock`, which is `Reply`.  A panic of one of the calls below also
unlocks and is answered with an error by the interceptor; it is covered by
`CallFails` and `SendRefused`.

The node, the users' wallets, the chain and other holders of the sponsor key
are external; they are modelled from how the code uses them.  The node is one
account's view of a geth pool: the next nonce is appended, an earlier one is
replaced for ten per cent more of tip and cap, a later one is parked, and the
three errors `IsRetryableSendError` looks for are what it answers otherwise.
`Faults` chooses what else may happen:

| Fault | Meaning |
|---|---|
| `stale_view` | the node answers a pending nonce that lags (several nodes behind one address) |
| `dup_delivery` | a gateway delivers a send twice and the second answer comes back |
| `late_delivery` | the node sees a transaction after the program's timeout |
| `shared_key` | another process sends with the sponsor key (a second replica) |

A lost answer is not a fault: it is always possible.  Ordinary transactions of
a user count as included at once, so the user's pending nonce and account nonce
agree; a sponsored transaction moves the user's nonce only when it is mined and
its authorization is the current one, as EIP-7702 has it.

Abstractions: parsing and `PreflightSponsoredSend` end in a free choice of pass
or error; signing succeeds or fails freely (`CallFails`); call data, hashes and
the entry-point nonce are represented by the request an operation was built
for; fees are amounts in a unit the configuration fixes by the defaults (units
of 0.1 gwei in the runs: 10 and 30 are the code's 1 and 3 gwei).

Properties, beside the type invariant:

| Property | Says |
|---|---|
| `LockDiscipline` | the mutex is held exactly between `Lock` and the answer; ended and answered are the same |
| `NonceFresh` | the nonce a call is about to use is still the next one |
| `SuccessStays` | a call told "success" keeps its place at the node for good |
| `NoResendAfterMined` | once a transaction with an authorization is in a block, no call that gets the mutex later pays for another |
| `NoNonceGap` | nothing is ever parked behind a missing nonce |
| `PaidOncePerAttempt` | the transactions of one call carry different loop counters: three at most |
| `ResubmissionOutbids` | every retry pays what a node asks of a replacement |
| `EveryCallAnswered` | every call that was made ends |
| `ImplementsQueue` | refinement of `SponsorQueue` |
| `RetryHasNothingAccepted`, `BumpIncreases` | what two comments claim; violated, see below |

`NoResendAfterMined` is deliberately no stronger.  Two transactions that
are both pending may carry the same authorization: the check reads the user's
own pending nonce, which a pending transaction of the sponsor does not move.
TLC shows this at once when the condition `i > turn[...]` is replaced by
`FALSE`.

### EvmTransfer

The server keeps nothing between its three calls, so `EvmTransfer` has the
wallet's state instead: where it is (`step`), what each call gave it (`built`,
`signed`, `told`), what its owner signed, and the node's account (`pool`,
`mined`, the fee `quote`).  `BuildUnSignTransaction` and
`BuildSignedTransaction` handle one payload of a batch per action, because
nonce and fees are read from the node for every payload of every call.  A
payload that does not decode makes both read through a nil pointer; that is
`Panic`, which the interceptor answers.  A wallet whose call failed starts over,
unless it had sent something malformed.  BNB asks for fees, Ethereum uses
constants: `BnbDynamicFeeTx` and `EthDynamicFeeTx`.

| Property | Says |
|---|---|
| `AnswersWhatWasSigned` | although it builds each transaction a second time, the server never answers with one other than the owner signed |
| `ReportedStays` | a transfer reported as sent is at the node, or gave way to one paying a tenth more of both fees |
| `EthReportedStays` | on Ethereum it stays for good, because the fees are constants |
| `EthOnlyNonceGoesStale` | on Ethereum a batch in order is turned down only for a moved nonce or a silent node |
| `BatchGetsSent` | a batch in order gets through (liveness) |

The bounds on quotes, outside transactions and failures are what makes
`BatchGetsSent` true: while nonce or fees keep moving between signature and
second build, a wallet may go round for ever.

### BnbBlocks

`chain` and `head` are the node's; the block at the head may be replaced once
(`Reorganise`), after which `stale` blocks can still be had by their hash.  A
request begins with a list of blocks (`GetBlock`, `GetBatchBlock`) and
`BuildBlock` describes one of them, reading its receipts in a second call; an
answer may be missing in whole or part.  `BlocksByRange` and
`BlockHeadersByRange` are sets of possible answers of a node that fails in
parts, and `AddInner` is the loop that adds what the receipts say and was not
said by the calls.  Addresses are kept with their spelling (`Lower`, `Mixed`),
since deduplication depends on normalising it.

A list of entries is a function of places instead of a sequence: `<<0, i>>` is
the call of the `i`-th transaction, `<<r, l>>` the `l`-th log of the `r`-th
receipt, and `Before` is the order in which the code visits them.  A log that
is skipped leaves its place out.  So the loop has a closed form: a log is listed
unless a call, or a log before it, has its key, which is what the set
`outerKeys` of the code comes to once the loop has ended.  Duplicates can still
be told, since they are entries in different places.

| Property | Says |
|---|---|
| `EachMovementOnce` | a movement of funds that shows as call and as log is named once |
| `EveryMovementNamed` | with whole receipts of this block, no movement of a tracked token is left out |
| `NoMovementInvented` | an inner transfer is one a transaction of this very block made, unless a reorganisation came between the two calls |
| `RangeInPlace` | a batch begins where asked and has no hole, however the node failed |
| `ByHashIsInBlock` | what `GetTransactionByHash` reports as a token transfer is in the description of its block |

### Gateway and ReadHandlers

`main` walks through `lifecycleCmd`; `waiter[1]` and `waiter[2]` are the
goroutines of `BlockOnInterruptsContext` with their one-place channels, between
whose creation, `Notify` and `select` a signal may fall.  `server` is the
goroutine of `GrpcService.Start`, which dials the EVM nodes with `retry.Do`
(`dial` counts attempts and seconds), makes the registry and serves.  Each call
passes interceptor, token check, `preHandler` and handler.

`ReadHandlers` gives every handler its outcomes as a function of how each kind
of call to the node was answered (found, answered without a result, error) and
of the shape of the request: success, success with nothing, a reply whose code
is ERROR, an error of gRPC, a panic.  List methods are answered item by item.

| Property | Says |
|---|---|
| `PanicStaysInCall` | a panic in a handler costs one call |
| `RefusedIffUnsupported` | a chain is refused exactly when it is not configured or has no factory |
| `SuccessIsOfTheNode` | no failed call of a node becomes a success with data; no Bitcoin transaction is reported sent unless the node confirmed its hash.  The exceptions are listed in `Unfounded` |
| `OneAnswerPerItem` | lists are answered in place, a bad item spoils no other |
| `DialEndsInTime` | a dial makes at most three of the five attempts and ends in less than 14 seconds; its five-second deadline is looked at between attempts only, so it may be outlived |
| `SignalEndsProgram` | a signal that finds the first channel registered ends the process (liveness) |

### Tron

A caller has one piece of work: a batch of payloads it builds, signs and
broadcasts, a range of blocks, or a query.  `rentals`, `active`, `price` and
`blocks` are the chain's.  `SendTransaction` is one post of a request; the HTTP
client repeats a request without an answer three times, although the node may
have taken the transaction the first time.  `Tx` keeps the version of the
rental and the price it was computed from, so that properties can tell whether
they moved.

`energyToDelegatedSunWithStakePrice` is a set of amounts, because the code
computes in `float64` and converts with `int64()`.  Five roundings (the energy,
the price, the division and two products) are each off by one part in 2^53 at
most, so all together by less than one in 2^50, which is `Precision`:
`Ceilings` has every amount that `math.Ceil` can make of such a product.  A
product past `MaxInt64` becomes what the processor makes of it, and Go leaves
that open: the least int64 on amd64, which the floor turns into one TRX, or the
greatest on arm64.  Below 2^50 ten-thousandths of a sun (about 112 thousand TRX)
nothing is lost.  A price is taken to be a whole number of sun.

| Property | Says |
|---|---|
| `ReportsTheNode` | "sent" means taken; "failed" means not taken unless an answer was lost |
| `RentIsEnough` | a rental whose amount fits an int64 covers the energy asked for at the price of the moment, but for what `float64` loses of it; every rental, one that overflowed too, is of one TRX at least and pays the liquidation fee |
| `ReturnIsWhole` | a return made of an answered query leaves nothing of the rental, whatever the price does |
| `RangeIsWhole` | an answered range has every height in place with all its transfers |
| `EveryCallEnds` | lost answers do not keep a call for ever (liveness) |

### Solana

`fetch` is one `GetTransactionRange`: a goroutine for each signature is new,
in its place of the semaphore, or out, with its own count of retries; results
and errors are collected in whatever order they come, and the deadline may run
out at any moment.  Balances and instructions of a transaction are small
records; `parseSPLFromTokenBalances` is a set, because the code visits a Go map.
For transfers, a caller may send any sequence of up to `MaxEntries` entries: for
each of its envelopes, under the right key, another key, no key or a text that
is none, a signature by any of the signers over any of the envelopes, or a short
one; and garbled envelopes.  The code verifies none of them: any 64 bytes count
(`assembleSignedTransaction`), the node alone looks (`Verifies`).  The history
field `labelled` of a signed transaction says whether the caller labelled all
that it sent for this envelope truly.  The blockhash is that of a confirmed slot,
which may be ahead of the last finalized one, and is good for `Life` slots.

| Property | Says |
|---|---|
| `BlocksAreWhole` | slots in order; a listed block has each transaction once, all parsed or all bare; a slot left out is empty or failed |
| `ReceiptsHappened` | what is listed as received was gained, or is what an instruction says, in every order of the map (for owners with one account of a mint) |
| `SignedByItsSigners` | a transaction reported assembled has each signer's own signature of that very message in its place, if what was sent for it was labelled truly, whatever was sent for others; "sent" means that it verified at the node and was taken |
| `EveryCallEnds` | no goroutine waits for ever for a place or a channel (liveness) |

## Runs

Each run answers one question.

| Run | Question | Instance | Result |
|---|---|---|---|
| `sponsored_consistent` | Does the mutex make the endpoint a queue? | 3 calls, 2 accounts, 2 quotes, no faults, one ordinary transaction for each user | holds, a million states |
| `sponsored_faults` | What is left when node and network misbehave, and is everybody answered? | 2 calls for one account, all four faults, one foreign transaction | holds, 1.3 million states |
| `already_known` | Is "already known" a conflict, as the comment says? | 2 calls, doubled deliveries | violated |
| `low_tip` | Does a bump increase the fees, as the comment says? | 2 calls, a quote with a tip of one unit | violated |
| `evm_transfer` | Is what is built twice and sent once what was signed? | 2 wallets, one account, a batch of two and a single payload of every form, one move of the quote, one transaction from elsewhere, one failure | holds |
| `evm_blocks` | Can an indexer rely on what it is told of a chain that moves? | 3 heights, 7 transactions, 4 bodies, one reorganisation | holds, 155 thousand states |
| `native_type` | Is a plain transfer of type 1, as the comment says? | as above | violated |
| `gateway` | What do starting, stopping and serving promise? | 5 adaptors and an unknown chain, 2 signals, one client that asks for anything and one whose handler may panic | holds, 170 thousand states |
| `graceful_stop` | Does a stop let running calls finish, as the interface says? | as above | violated |
| `tron` | Are rentals, broadcasts and ranges what they are said to be? | 2 callers with 10 pairs of work, one account, 2 prices, 2 blocks | holds, 547 thousand states |
| `rental_lost` | Does a rental of zero mean that there is none, as the comment says? | as above | violated |
| `solana` | Are fetched blocks whole and transfers signed by their signers? | 3 slots, up to 3 transactions behind a semaphore of 2, 2 keys, 3 entries, blockhashes good for one slot | holds, 126 thousand states |

Bounds.

* Sponsored: three calls are the smallest number at which one holds the mutex,
  one waits and one has just ended; two of them share an account so that
  authorizations compete.  With faults, two calls suffice for every pair of
  events, and the loop is not cut: `MaxSendAttempts` is the code's three.
  `MaxUserNonce` is the nonce at which users stop sending ordinary transactions;
  `MaxForeign` bounds the queue length up to which the foreign holder of the key
  sends.  `Markets` holds quotes on both sides of what matters: a failed quote
  (the defaults apply), a chain without a tip and a price below ten units, and a
  market above the defaults.
* Transfers: two wallets of one account make every conflict of nonces there is;
  a batch of two makes the one inside a batch.  The two quotes differ by more
  than a tenth in tip and cap, so that a replacement is possible.
* Blocks: three heights give ranges with a first, a middle and a last element;
  the transactions are one of each kind the parser tells apart, and two equal
  ones.
* Gateway: the second signal is the one that can meet the second handler; a
  third meets nobody.  Seconds and attempts of a dial are the code's.
* Tron: amounts are in tenths of a TRX and the energies are those around the
  code's thresholds (1, 65001, 131001, and the lowest prepayment); one price
  makes every division uneven.  `MaxInt64` lies between the costs of 131001 and
  200001 energy, so that the last overflows, and `Precision` is such that the
  roundings show in the amount for 131001 and not in that for 65001.  Two blocks are enough for a rental and its
  return.  The limit of three repetitions is the code's.
* Solana: the semaphore has two places instead of twenty, for blocks of three;
  `maxRetries` is the code's three.  Three entries suffice for a signer's
  signature to be sent, repeated and overwritten while another's is there, or
  while a wrong one is sent for the other of two envelopes.  Any 64 bytes that
  are not the signature wanted are alike to the code, so the signatures of the
  signers over the wrong envelope or under the wrong key stand for all of them.

The states have no symmetry reduction, since liveness and the refinement are
checked on the same models.  Deadlock is checked where a system goes on for
ever (in the sponsored models, where `AllAnswered` is the one state in which
nothing need happen); the other configurations turn the check off, because
clients have a fixed amount of work and the process may end.

Fairness.  All of it is weak fairness of steps of this program.  In
`SponsoredSend`, `Serve(r)` for each call: every RPC of the node has a timeout
of ten seconds (`ethclient.go:26`), so a call that is not waiting for the mutex
always goes on, and Go hands a free mutex to a waiter; there are finitely many
calls and each holder ends.  In `EvmTransfer`, `Tron` and `Solana`, a handler
that has begun goes on, by the same timeouts and those of the HTTP clients, and
a wallet goes on with its batch.  In `Gateway`, goroutines that can run do.
Nothing is assumed of clients, owners, miners, chains, deadlines, signals or
late packets.

## What the runs show

Five runs find a line of the repository that says otherwise than the code
does; `PROJECT.json` quotes them in full.

* `send_retry.go:8` calls the three errors "nonce/gas conflicts that can be
  retried with fresh nonce or higher fees".  "already known" is not one: the
  node has this very transaction.  The retry reads a pending nonce that counts
  it and submits a second transaction for the same operation.
* `send_retry.go:19` says that `BumpEip1559GasFees` "increases tip and max fee".
  The division truncates: a tip of 1 wei stays 1 wei at 140 and at 160 per
  cent.  `OutbidSafety` proves where this ends: from three units on, every bump
  is enough.
* `bnb.go:510` reserves type 1 for native transfers, in a branch that compares
  the answer of `EthGetCode` ("eoa" or "contract") with "0x".  It is never
  taken.
* `lifecycle.go:19` says that "Stop stops a service gracefully".  The service's
  Stop sets a flag that nothing reads, and calls in progress end with the
  process.
* `justlend.go:191` promises "active delegated TRX (sun) for a rental order, or
  0 if none".  An error status or an empty answer is also zero, without an
  error.

Other behaviour of the code that the models have, and that a reader may not
expect (no line claims otherwise, so no run is about it):

* Sponsored transfers: two pending transactions may carry one authorization.
* Process: the `api` command panics, its lifecycle being nil; a goroutine that
  cannot listen leaves an idle process that a signal ends; `GetSupportChains`
  answers from the configuration, so it may list a chain that every other method
  refuses, having no factory.
* EVM: `GetAccountBalance` answers a found balance with the code ERROR on both
  chains; Ethereum's `GetTransactionByHash` panics on a plain transfer and on a
  creation, its `GetBlock` on a block that is not there; address checks panic on
  addresses that are too short.
* BNB: a header that failed in a batch is an empty one; a block that was not
  found fails a whole batch; equal token movements of one transaction between
  the same accounts are named once; transactions and receipts of a block come
  from two calls, and a reorganisation between them joins those of two blocks.
* Bitcoin: `GetBlock` drops the error of `getblock`, `ValidAddresses` answers
  an empty list, a broadcast whose answer has another hash counts as failed.
* Tron: an answer without contents is read as a block, account or transaction
  of zeros, so a height past the head is block zero inside a success; a refused
  delegation is an empty transaction that gets signed; a return falls back to an
  estimate when its query has no answer; the default prepayment for more than
  131000 energy (28 TRX) is lower than the one below (30 TRX); an energy of more
  than about 8.8e13 at the default price does not fit an int64 of sun, and is
  rented with a stake of one TRX on amd64, without an error.
* Solana: a slot whose query failed for any reason is left out of a range like
  an empty one; a slot past the head is a block with nothing in it; one
  signature of 87 characters, which base58 permits, makes its block one of bare
  hashes; equal payments of a batch become one envelope; a blockhash of the
  caller's that does not decode is a panic; an owner with two accounts of one
  mint may be listed with a receipt that is none; of several senders any one may
  be named, also one that lost another mint; a signature under the wrong key or
  of another envelope is reported as a success and fails at the node; signed
  transactions come one for each envelope, not one for each entry, so that they
  cannot be matched with the request by position; HTTP errors are not repeated,
  and a payment built anew after a lost answer may be made twice.

## Proofs

TLC's instances are small; the theorems hold for every set of requests,
wallets, accounts, callers, calls and quotes, for batches, lists and ranges of
every length and for ledgers and chains that grow without limit.  They rest on
the assumptions that the modules state about their constants, and every run
evaluates those of its module:

* `DefaultFeesAssumption` (`GasFees`): the fallback fees are positive and the
  cap covers the tip, as in `gas.go`.
* `ConstantsAssumption`, one for each module.  `SponsoredSend`: the types of
  the constants; `NoRequest` is no request.  `EvmTransfer`: batches are
  sequences of payloads, whose senders are accounts or the stranger, who is
  none.  `Gateway`: the configuration is a sequence of chains, the adaptors
  dialed are among the supported ones, and a request has a shape for each of
  its items.  `Tron`: the work of a caller is a batch, a range or a query with
  amounts that are integers; the price of energy is positive; `Precision` and
  `MaxInt64` are natural numbers, the first positive.  `Solana`: the
  work of a caller is a range of slots or a sequence of payloads; a chain is a
  sequence of blocks whose signatures differ and whose balances are not
  negative; a text that is no key is none.  `BnbBlocks`: a block has a
  transaction once; a transaction that failed has no logs; a contract creation
  has no recipient, so that "nobody" is not the recipient of a call's data or
  of a log; no token has the address 0xEeee... that stands for the native coin.

| Theorem | Assumes besides | Inductive invariant |
|---|---|---|
| `SponsoredSend` | | |
| `TypeCorrect` | | `TypeOK` itself: with the fees of a sending call in `FeePairs`, which needs the fee lemmas |
| `LockSafety` | | `LockDiscipline` itself |
| `GapSafety` | any faults | `GapInv`: no nonce in a call's hands or on the wire is beyond the next one |
| `PaidSafety` | any faults | `PaidInv`: what is in the ledger was an attempt its call has behind it; what is on the wire belongs to a call that has ended |
| `OutbidSafety` | quotes of three units and more | `FeeInv`: fees in the loop stay at three units or more |
| `NonceSafety`, `SuccessSafety` | `Faults = {}` | `ServedInv`: only answered calls are in the ledger, each once |
| `QueueRefinement` | `Faults = {}` | `ServedInv`, and one lemma for each kind of step |
| `ResendSafety` | `Faults = {}` | `AuthInv`: nobody is ahead of his account, what is mined is behind it, a call past its check is ahead of all that was mined when its turn began |
| `EvmTransfer` | | `IInv` of `EvmTransferProofs`, whose parts are |
| `EvmTypesHold` | | `BatchInv`, `Progress`: how far each list of a wallet is, from the call it is in |
| `AnswersAreSigned` | | `BuiltOf`, `SignedOf`: what is built is payload by payload the batch, what is answered is payload by payload the signature |
| `ReportedTransferStays`, `EthReportedTransferStays` | | `PoolInv`: a transaction lies under its own nonce; `ToldOf`: what is reported lies there or was outbid, which is transitive |
| `EthSignatureKeeps` | | the same, for each step |
| `BnbBlocks` | | `IInv` of `BnbBlocksProofs` |
| `TypeCorrect` | | `ChainOK`: what was replaced is older (`fork`) than what is there now; `RequestOK`: what is left to describe and what is described make up what is due |
| `NoneTwiceInABlock` | | `DescriptionsOK`, and `ListIs`: of two logs with one key, one is before the other and only the first is listed; calls differ in their transaction |
| `NothingLeftOut` | | the same: among the logs of one movement there is a first (`FirstPlaceExists`), and it is listed unless a call names the movement |
| `NothingMadeUp` | | the same: each place that is no call is that of a log of a successful transaction |
| `NoHole` | | `BatchInPlace`: what is still to be described goes on where the answer ends; `UpToFirstFailureIs`, `HeadersAre`: what a range call gives goes up from its first height |
| `TwoWaysAgree` | | `TxKnown`, and `ByHashIs`: the first transfer of a bundle is the first of its block's list, and a call of type 3 is read alike in both places |
| `Gateway` | | `IInv` of `GatewayProofs` |
| `GatewayTypesHold`, `PanicIsConfined` | | `OrderInv`: nothing is served before the registry is complete, and a command that panicked never starts |
| `DialIsBounded`: at most three attempts, less than 14 seconds | | `DialInv`: the seconds that each attempt can end with |
| `RefusalIsRight` | | `RegistryInv`: the registry is the supported part of what was dialed so far |
| `SuccessIsFounded`, `ListsAreAnswered` | | `CallsInv`: a reply is one that `Dispatch` makes of the request and the full registry; then a lemma for the handlers of each adaptor |
| `Tron` | | `IInv` of `TronProofs` |
| `TronTypesHold` | | `DataInv`, `ChainInv`, `Progress` |
| `ReportIsTheNodes` | | `KnownInv`: what the node took is of a batch being sent, in its place; `ToldInv`: what was reported, and what a repeated request may still find |
| `RentAlwaysCovers` | | `MadeInv`: a rental fits the price it was computed from; `DelegatedCovers`: so does every outcome of the conversion that does not overflow, and every one is above the floor; a lemma on the tiers of the prepayment |
| `ReturnGivesAllBack` | | `MadeInv` for returns: the amount is that of the rental as it was read |
| `RangeIsAnswered` | | `RangeInv`: the block read for a height is the chain's at that moment, and blocks do not change |
| `Solana` | | `IInv` of `SolanaProofs` |
| `SolanaTypesHold` | | `Counted`: the places held are the goroutines that are in, the results and errors those that are out |
| `BlocksAreListedWhole` | | `Collected`: without an error, the results are of just the goroutines that are out; `RangeInv`: the slots so far are listed or left out for a reason |
| `SignersSigned` | | `SignedInv`, and a lemma about what a truly labelled entry is kept under, for any set of entries |
| `ReceiptsAreReal` | | `RangeInv`: an entry of a list is parsed from its transaction; the sum over one account is that account's |

Why the strengthenings are needed: `NonceFresh` alone does not survive a send,
because nothing in it says that no second call is at `send`; `LockDiscipline`
does.  `PaidOncePerAttempt` alone does not survive a late delivery, because
nothing in it says that the late transaction's attempt is not in the ledger;
that follows from "a timeout is not retryable", which is where the proof uses
the code of `IsRetryableSendError`.  `AnswersWhatWasSigned` needs to know that a
wallet that is being answered signed the whole batch as built (`Progress`), or
a second build could run past the signature.  `ReportedStays` needs `PoolInv`,
or a replacement could land under another account's transaction.
`RefusedIffUnsupported` is about calls, and calls begin only after the last
dial; `OrderInv` says so.  `ReportsTheNode` needs the identity of transactions
(`KnownInv`): a node that has this transaction has it from this caller, whose
lost answer is in the count of attempts.  `RangeIsWhole` is about a moving
chain; what `RangeInv` adds is what was in a block when it was read.  In Solana,
`BlocksAreWhole` follows at the end of a fetch from two counts and a set: all
goroutines are out, there are as many results as goroutines that are out, and
the hashes are those of all transactions (`Collected`).  In `BnbBlocks`,
`RangeInPlace` needs to know of the blocks that no answer has yet: the chain
moves while they wait, but a block keeps its height when it is replaced, and one
that was not found has none and ends the call (`BatchInPlace`).  What is said of
the entries of a block holds when they are made and the descriptions do not
change, so there the work is in `ListIs`, about lists of any length.

The refinement maps the ledger to the sequence of requests in it and `reply` to
`answer`.  A send that is accepted is `Sponsor`, whatever its client learns;
every other answer is `Refuse`; all else stutters.

Only model-checked:

* All liveness (`EveryCallAnswered`, `BatchGetsSent`, `SignalEndsProgram`,
  `EveryCallEnds`): TLAPS cannot reason about fairness with the provers at hand.
* `NativeIsType1` and the other four properties of the runs that end in a
  violation: they are false, and a run shows a behaviour.

All invariants and action properties of the passing runs, and the refinement,
are proved.

`ReceiptsAreReal` is about a fold over a set (`Net`), but for holders with one
account of each mint, so the proof unfolds it for sets of one element; for more
it would need induction.

## What is not modelled

`components` in `PROJECT.json` has every part with its reason.

* Nothing in the repository calls the HTTP server helper and the Redis lock,
  so there is no use of them to model.
* Stateless encodings (ABI, RLP, base58, hashes, signatures, addresses) are out
  of a model checker's reach.  That one fails is a choice of the models, and
  that a signature belongs to exactly one content is built in.  A Solana
  envelope is one that `BuildUnSignTransaction` made or does not decode; one
  whose JSON a client rewrote is not in the model.
* Sponsored transfers: the paymaster's window of one hour and the entry-point
  nonce are read when an operation is built and never looked at again, so no
  step of this program depends on them; an operation that fails for them is
  mined and paid for in the model like any other.  A crash of the process frees
  the mutex and loses all calls while what was sent stays, a state that
  `SendAnswerLost` reaches as well.
* Explorer clients: a request is found, null or an error; the translation of
  its fields is left out, as are the fields of other answers that no property
  is about (timestamps, gas, status numbers).
* Client methods that no handler reaches: the EVM client's header by hash and
  transaction count; Solana's simulation, nonce account, fee and health calls;
  the fee estimates of the explorers.
* Generated protobuf code, but for the table of methods.

## Plan

The modules were written in the order of the table above: the sponsored
endpoint with its abstract specification first, since money is paid there by
somebody else; then the transfers of the other chains, the blocks and the
process around them.  All of them are written and checked, and each has its
theorems: the last was `BnbBlocksProofs`.

What a next step could take up:

1. The chain of `SponsoredSend` counts ordinary transactions of users as
   included at once; with a pool for each user, `NoResendAfterMined` could be
   asked while a user's own transactions are pending.
2. The answers' fields that no property is about (timestamps, gas), if an
   indexer comes to depend on them.
3. `ReceiptsAreReal` for owners with several accounts of one mint: it needs a
   sum over a set, hence induction.

## How to run

    tlc -config MCSponsoredSend.cfg MCSponsoredSend
    tlc -config MCSponsoredFaults.cfg MCSponsoredSend
    tlc -config MCEvmTransfer.cfg MCEvmTransfer
    tlc -config MCBnbBlocks.cfg MCBnbBlocks
    tlc -config MCGateway.cfg MCGateway
    tlc -config MCTron.cfg MCTron
    tlc -config MCSolana.cfg MCSolana
    tlapm GasFeesProofs.tla
    tlapm SponsoredSendProofs.tla
    tlapm SponsoredQueueProofs.tla
    tlapm EvmTransferProofs.tla
    tlapm BnbBlocksProofs.tla
    tlapm GatewayProofs.tla
    tlapm TronProofs.tla
    tlapm SolanaProofs.tla

The runs that end in a violation use `MCAlreadyKnown.cfg` and `MCLowTip.cfg`
(with `MCSponsoredSend`), `MCNativeType.cfg` (`MCBnbBlocks`),
`MCGracefulStop.cfg` (`MCGateway`) and `MCRental.cfg` (`MCTron`).
