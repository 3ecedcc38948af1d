-------------------------------- MODULE Tron --------------------------------
(***************************************************************************)
(* The Tron adaptor (chain/tron): transfers, activations, delegations and  *)
(* JustLend energy rentals built by the node, signed by the caller, and    *)
(* broadcast through an HTTP client that repeats a request whose answer    *)
(* did not come; the queries of an account; and the blocks of a range.     *)
(* A call of a client is one piece of work; the adaptor keeps nothing.     *)
(***************************************************************************)
EXTENDS Integers, Sequences, FiniteSetsExt

CONSTANTS
    Callers,     \* clients, each with one piece of work
    Work,        \* what they may have to do, each a Batch, Heights or Ask
    Accounts,    \* receivers
    Trx,         \* sun in a TRX (a million): the unit of every amount here
    Prices,      \* what may be staked for 10000 energy, in sun
    Deposits,    \* what getRentInfo may answer
    Rented,      \* rentals that may be active at the start
    MaxMoves,    \* bound: changes of the price
    MaxBlocks,   \* bound: blocks
    Precision,   \* float64 is off by one part in so many at most (2^50)
    MaxInt64,    \* the greatest int64
    Unknown      \* no number: what could not be read

Batch(payloads)      == [kind |-> "batch", payloads |-> payloads]
Heights(first, last)   == [kind |-> "range", first |-> first, last |-> last]
Ask(what, to)    == [kind |-> "balance", what |-> what, to |-> to]

TransferKinds == {"activate", "transfer", "trc20"}
PayloadKinds  == TransferKinds \cup {"delegate", "rent", "return"}
Forms == {"ok",         \* in order
          "malformed",  \* a signature that cannot be decoded
          "short",      \* a signature of 64 bytes
          "empty"}      \* a transaction without contents

Payload == [kind : PayloadKinds, to : Accounts, energy : Int, value : Int, form : Forms]

\* The pseudo-contracts of GetAccountBalance, of those that read state below.
Questions == {"__activated__", "__justlend_rental__"}

IsWork(w) ==
    \/ w.kind = "batch" /\ w.payloads \in Seq(Payload) \ {<<>>}
    \/ w.kind = "range" /\ {w.first, w.last} \subseteq Int
    \/ w.kind = "balance" /\ w.what \in Questions /\ w.to \in Accounts

ASSUME ConstantsAssumption ==
    /\ \A w \in Work : \A c \in Callers : IsWork(w[c])
    /\ Trx \in Nat \ {0}
    /\ Prices \subseteq Nat \ {0} /\ Deposits \subseteq Int /\ Rented \subseteq Nat
    /\ MaxMoves \in Nat /\ MaxBlocks \in Nat
    /\ Precision \in Nat \ {0} /\ MaxInt64 \in Nat
    /\ Unknown \notin Int

VARIABLES
    work,      \* what each caller does
    step,      \* the call it is in
    made,      \* the transactions made for its payloads
    told,      \* what SendTransaction reported of each
    attempt,   \* how often the present request was posted
    reply,     \* what a query answered so far
    active,    \* the activated accounts
    rentals,   \* what is delegated to each account, in sun
    version,   \* history: how often that changed
    price,     \* the stake price now
    moves,     \* how often it changed
    known,     \* the transactions the node has taken
    blocks,    \* the blocks of the chain: sequences of transactions
    cut,       \* history: the transactions an answer about which was lost
    seen       \* history: the height of the chain when a query began

callVars  == <<work, step, made, told, attempt, reply, seen>>
chainVars == <<active, rentals, version, price, moves, blocks>>
vars      == <<callVars, chainVars, known, cut>>

-----------------------------------------------------------------------------
\* Amounts

defaultStakeTrxPer10KEnergy  == 1045 * Trx
minJustLendDelegatedSun      == Trx
minJustLendLiquidationFeeSun == 20 * Trx
defaultActivationTransferSun == Trx \div 10
defaultDelegateBalanceSun    == 1000 * Trx

CeilDiv(a, b) == (a + b - 1) \div b
OrDefault(value, default) == IF value <= 0 THEN default ELSE value

\* Of a product in ten-thousandths of a sun, what float64 may make of it after
\* its five roundings, and what math.Ceil may make of that.
Least(product)  == product - product \div Precision
Most(product)   == product + CeilDiv(product, Precision)
Ceilings(product) == CeilDiv(Least(product), 10000)..CeilDiv(Most(product), 10000)

\* int64(): a number that does not fit becomes the least one on amd64 and the
\* greatest one on arm64.
ToInt64(sun) == IF sun <= MaxInt64 THEN {sun} ELSE {-MaxInt64 - 1, MaxInt64}

\* A slip: the amount is rounded to the nearest sun below.
DelegatedRoundedDown(energy, stakePrice) ==
    {Max({(energy * stakePrice) \div 10000, minJustLendDelegatedSun})}

energyToDelegatedSunWithStakePrice(energy, stakePrice) ==
    {Max({sun, minJustLendDelegatedSun}) : sun \in UNION {ToInt64(x) : x \in Ceilings(energy * stakePrice)}}

\* The price API may be silent.
StakePrices == {price, defaultStakeTrxPer10KEnergy}

defaultRentPrepaySun(energy) ==
    CASE energy <= 65000                    -> 25 * Trx
      [] energy > 65000 /\ energy <= 131000 -> 30 * Trx
      [] energy > 131000                    -> 28 * Trx

normalizeJustLendPrepaySun(energy, callValue) ==
    IF callValue >= minJustLendLiquidationFeeSun THEN callValue
    ELSE Max({defaultRentPrepaySun(energy), minJustLendLiquidationFeeSun})

\* The deposit of getRentInfo, or the default where there is none to be had.
EstimateRentPrepay(energy) ==
    {d \in Deposits : d > 0} \cup {defaultRentPrepaySun(energy)}

-----------------------------------------------------------------------------
\* The transactions buildUnsignedTransaction may make of a payload
\* [kind, to, energy, value, form]; amount is what moves, is delegated or is
\* given back, call what is paid with it.

Tx(c, p, amount, call, estimated) ==
    [id |-> <<c, Len(made[c]) + 1>>, kind |-> p.kind, to |-> p.to, form |-> p.form,
     energy |-> p.energy, amount |-> amount, call |-> call, estimated |-> estimated,
     version |-> version[p.to], price |-> price]

\* What the node refuses to build is a failure (validateUnsignedTransaction).
CreateTRXTransaction(c, p) ==
    {Tx(c, p, IF p.kind = "activate" THEN OrDefault(p.value, defaultActivationTransferSun)
              ELSE p.value, 0, FALSE)}

CreateTRC20Transaction(c, p) == {Tx(c, p, p.value, 0, FALSE)}

\* Here alone the refusal of the node is not noticed: it reads as a transaction
\* without contents, which is signed and broadcast.
CreateDelegateResourceTransaction(c, p) ==
    LET tx == Tx(c, p, OrDefault(p.value, defaultDelegateBalanceSun), 0, FALSE)
    IN  {tx, [tx EXCEPT !.form = "empty"]}

CreateJustLendRentTransaction(c, p) ==
    UNION {{Tx(c, p, sun, normalizeJustLendPrepaySun(p.energy, v), q # price) :
              sun \in energyToDelegatedSunWithStakePrice(p.energy, q),
              v \in IF p.value > 0 THEN {p.value} ELSE EstimateRentPrepay(p.energy)} :
           q \in {q \in StakePrices : p.energy > 0 /\ p.to \in active}}

\* What the query answers: the rental; nothing, which reads as zero, when the
\* status is one of an error; or the failure of a request without an answer.
QueryJustLendRentalDelegatedSun(to) == {rentals[to], 0, Unknown}

\* EnergyToDelegatedSun: what is staked for energy now.
EnergyToDelegatedSun(energy) ==
    UNION {energyToDelegatedSunWithStakePrice(energy, q) : q \in {q \in StakePrices : energy > 0}}

\* A slip: the amount is computed from the energy again.
ReturnByEstimate(c, p) ==
    {Tx(c, p, sun, 0, FALSE) : sun \in EnergyToDelegatedSun(p.energy)}

CreateJustLendReturnTransaction(c, p) ==
    LET answers == {d \in QueryJustLendRentalDelegatedSun(p.to) : p.energy > 0}
    IN  {Tx(c, p, d, 0, FALSE) : d \in answers \ {0, Unknown}}
        \cup IF Unknown \in answers
             THEN {Tx(c, p, sun, 0, TRUE) : sun \in EnergyToDelegatedSun(p.energy)} ELSE {}

buildUnsignedTransaction(c, p) ==
    CASE p.kind \in {"activate", "transfer"} -> CreateTRXTransaction(c, p)
      [] p.kind = "trc20"    -> CreateTRC20Transaction(c, p)
      [] p.kind = "delegate" -> CreateDelegateResourceTransaction(c, p)
      [] p.kind = "rent"     -> CreateJustLendRentTransaction(c, p)
      [] p.kind = "return"   -> CreateJustLendReturnTransaction(c, p)

-----------------------------------------------------------------------------
FirstCall(w) ==
    CASE w.kind = "batch" -> "build" [] w.kind = "range" -> "range" [] w.kind = "balance" -> "balance"

Init ==
    /\ work \in Work
    /\ step = [c \in Callers |-> FirstCall(work[c])]
    /\ made = [c \in Callers |-> <<>>]
    /\ told = [c \in Callers |-> <<>>]
    /\ attempt = [c \in Callers |-> 0]
    /\ reply = [c \in Callers |-> <<>>]
    /\ seen = [c \in Callers |-> 0]
    /\ rentals \in [Accounts -> Rented]
    /\ active \in {A \in SUBSET Accounts : \A a \in Accounts \ A : rentals[a] = 0}
    /\ version = [a \in Accounts |-> 0]
    /\ price \in Prices
    /\ moves = 0
    /\ known = {}
    /\ blocks = <<>>
    /\ cut = {}

-----------------------------------------------------------------------------
\* The chain

MovePrice ==
    /\ moves < MaxMoves
    /\ moves' = moves + 1
    /\ price' \in Prices \ {price}
    /\ UNCHANGED <<callVars, active, rentals, version, blocks, known, cut>>

Contents(block) == {block[i] : i \in DOMAIN block}
Mined           == UNION {Contents(blocks[h]) : h \in DOMAIN blocks}

Delegated(tx) ==
    CASE tx.kind = "rent"   -> rentals[tx.to] + tx.amount
      [] tx.kind = "return" -> Max({0, rentals[tx.to] - tx.amount})
      [] OTHER              -> rentals[tx.to]

\* A block with one transaction, or an empty one.
Block ==
    /\ Len(blocks) < MaxBlocks
    /\ \/ /\ blocks' = Append(blocks, <<>>)
          /\ UNCHANGED <<active, rentals, version>>
       \/ \E tx \in known \ Mined :
             /\ blocks' = Append(blocks, <<tx>>)
             /\ active' = IF tx.kind \in {"activate", "transfer"} THEN active \cup {tx.to} ELSE active
             /\ rentals' = [rentals EXCEPT ![tx.to] = Delegated(tx)]
             /\ version' = [version EXCEPT ![tx.to] =
                              @ + IF tx.kind \in {"rent", "return"} THEN 1 ELSE 0]
    /\ UNCHANGED <<callVars, price, moves, known, cut>>

-----------------------------------------------------------------------------
\* Calls

Payloads(c) == work[c].payloads

\* BuildUnSignTransaction, one payload: any failure is that of the whole call.
BuildUnSignTransaction(c) ==
    /\ step[c] = "build"
    /\ LET p == Payloads(c)[Len(made[c]) + 1]
       IN  \/ \E tx \in buildUnsignedTransaction(c, p) :
                 /\ made' = [made EXCEPT ![c] = Append(@, tx)]
                 /\ step' = IF Len(made'[c]) = Len(Payloads(c))
                            THEN [step EXCEPT ![c] = "sign"] ELSE step
           \/ /\ step' = [step EXCEPT ![c] = "error"]
              /\ made' = [made EXCEPT ![c] = <<>>]
    /\ UNCHANGED <<work, told, attempt, reply, seen, chainVars, known, cut>>

\* BuildSignedTransaction puts a signature to each transaction it can decode;
\* the caller broadcasts those, in order.
BuildSignedTransaction(c) ==
    /\ step[c] = "sign"
    /\ step' = [step EXCEPT ![c] = "send"]
    /\ UNCHANGED <<work, made, told, attempt, reply, seen, chainVars, known, cut>>

Signed(tx) == tx.form # "malformed"

\* The answers of the node to a broadcast: [code, result, txid]; it gives a code
\* where something is wrong, and seldom else.
NoCode == "none"
Answer(code, result, txid) == [code |-> code, result |-> result, txid |-> txid]

\* The node takes a transaction whose signature has its length, once.
Takes(tx) == tx.form = "ok" /\ tx \notin known

AnswersTo(tx) ==
    IF Takes(tx)
    THEN {Answer(NoCode, TRUE, TRUE), Answer("SUCCESS", FALSE, TRUE), Answer(NoCode, TRUE, FALSE)}
    ELSE {Answer(IF tx \in known THEN "DUP_TRANSACTION_ERROR" ELSE "SIGERROR", FALSE, TRUE)}

\* A slip: an answer counts only with its code.
AcceptedByCode(answer) == answer.code = "SUCCESS" /\ answer.txid

broadcastAccepted(answer) ==
    /\ answer.code \in {NoCode, "SUCCESS"}
    /\ answer.code = "SUCCESS" \/ answer.result
    /\ answer.txid

Retries == 3    \* defaultRetryCount

\* A slip: the client repeats for as long as no answer comes.
RetryForever(c) == TRUE

MayRepeat(c) == attempt[c] < Retries

Report(c, what) ==
    /\ told' = [told EXCEPT ![c] = Append(@, what)]
    /\ attempt' = [attempt EXCEPT ![c] = 0]
    /\ step' = [step EXCEPT ![c] = IF Len(told'[c]) = Len(made[c]) THEN "done" ELSE @]

\* A slip: the counter wraps before it reaches its limit.
SilenceWraps(c) ==
    attempt' = [attempt EXCEPT ![c] = (@ + 1) % Retries] /\ UNCHANGED <<told, step>>

\* No answer comes in time: the request is posted again, or given up.
Silence(c) ==
    IF MayRepeat(c)
    THEN attempt' = [attempt EXCEPT ![c] = @ + 1] /\ UNCHANGED <<told, step>>
    ELSE Report(c, "failed")

\* SendTransaction, one post of BroadcastTransaction for the next transaction.
SendTransaction(c) ==
    /\ step[c] = "send"
    /\ LET tx == made[c][Len(told[c]) + 1]
       IN  \/ ~Signed(tx) /\ Report(c, "failed") /\ UNCHANGED <<known, cut>>
           \/ /\ Signed(tx)                                   \* the request is lost
              /\ Silence(c) /\ UNCHANGED <<known, cut>>
           \/ /\ Signed(tx)                                   \* its answer is, or is an
              /\ known' = known \cup (IF Takes(tx) THEN {tx} ELSE {})    \* error of a proxy
              /\ cut' = cut \cup {tx}
              /\ Silence(c) \/ Report(c, "failed")
           \/ /\ Signed(tx)
              /\ known' = known \cup (IF Takes(tx) THEN {tx} ELSE {})
              /\ \E answer \in AnswersTo(tx) :
                    /\ Report(c, IF broadcastAccepted(answer) THEN "sent" ELSE "failed")
                    /\ cut' = IF answer.txid THEN cut ELSE cut \cup {tx}
    /\ UNCHANGED <<work, made, reply, seen, chainVars>>

\* A transaction of a block as parseSingleTransaction lists it.
Listed(tx) == tx.kind \in TransferKinds

parseBlockTransactions(h) == {tx \in Contents(blocks[h]) : Listed(tx)}

\* A height the node does not have is an empty answer, read as block zero.
EmptyBlock == [height |-> 0, txs |-> {}]

GetBlockByNumber(h) ==
    IF h \in DOMAIN blocks THEN [height |-> h, txs |-> parseBlockTransactions(h)]
                           ELSE EmptyBlock

Ends(c, how) == step' = [step EXCEPT ![c] = how]

\* A slip: a height that cannot be read is passed over.
PassOverFailure(c) ==
    reply' = [reply EXCEPT ![c] = Append(@, EmptyBlock)] /\ UNCHANGED step

OnFailure(c) == Ends(c, "error") /\ reply' = [reply EXCEPT ![c] = <<>>]

\* GetBatchBlock, one height; GetBlock is a range of one.
GetBatchBlock(c) ==
    /\ step[c] = "range"
    /\ seen' = [seen EXCEPT ![c] = IF reply[c] = <<>> THEN Len(blocks) ELSE @]
    /\ LET h == work[c].first + Len(reply[c])
       IN  \/ /\ h > work[c].last
              /\ Ends(c, IF reply[c] = <<>> THEN "error" ELSE "done")
              /\ UNCHANGED reply
           \/ /\ h <= work[c].last
              /\ reply' = [reply EXCEPT ![c] = Append(@, GetBlockByNumber(h))]
              /\ UNCHANGED step
           \/ h <= work[c].last /\ OnFailure(c)
    /\ UNCHANGED <<work, made, told, attempt, chainVars, known, cut>>

\* One of the questions of GetAccountBalance.
BalanceOf(what, to) ==
    CASE what = "__activated__"       -> {IF to \in active THEN 1 ELSE 0}
      [] what = "__justlend_rental__" -> QueryJustLendRentalDelegatedSun(to) \ {Unknown}

GetAccountBalance(c) ==
    /\ step[c] = "balance"
    /\ \/ /\ \E b \in BalanceOf(work[c].what, work[c].to) : reply' = [reply EXCEPT ![c] = <<b>>]
          /\ Ends(c, "done")
       \/ OnFailure(c)
    /\ seen' = [seen EXCEPT ![c] = IF work[c].what = "__justlend_rental__"
                                   THEN rentals[work[c].to] ELSE 0]
    /\ UNCHANGED <<work, made, told, attempt, chainVars, known, cut>>

-----------------------------------------------------------------------------
Call(c) ==
    \/ BuildUnSignTransaction(c) \/ BuildSignedTransaction(c) \/ SendTransaction(c)
    \/ GetBatchBlock(c) \/ GetAccountBalance(c)

Next ==
    \/ MovePrice \/ Block
    \/ \E c \in Callers : Call(c)

\* A handler that runs goes on; nothing is assumed of the node or the chain.
Fairness == \A c \in Callers : WF_vars(Call(c))

Spec == Init /\ [][Next]_vars /\ Fairness

-----------------------------------------------------------------------------
\* Properties

\* Calls, amounts and blocks stay what they may be.
TypeOK ==
    /\ step \in [Callers -> {"build", "sign", "send", "range", "balance", "done", "error"}]
    /\ \A c \in Callers : /\ Len(told[c]) <= Len(made[c])
                          /\ \A i \in DOMAIN told[c] : told[c][i] \in {"sent", "failed"}
                          /\ attempt[c] \in 0..Retries
    /\ rentals \in [Accounts -> Nat]
    /\ active \subseteq Accounts
    /\ Mined \subseteq known
    /\ Len(blocks) <= MaxBlocks

\* What SendTransaction reports is what became of the transaction: sent means
\* that the node took it, and failed that it did not, unless an answer about it
\* was lost on the way or came without its id.
ReportsTheNode ==
    \A c \in Callers : \A i \in DOMAIN told[c] :
        LET tx == made[c][i]
        IN  IF told[c][i] = "sent" THEN tx \in known ELSE tx \in known => tx \in cut

\* A product that float64 cannot push out of the range of an int64.
FitsInt64(product) == CeilDiv(Most(product), 10000) <= MaxInt64

\* A rental at the price of the moment whose amount fits an int64 buys the
\* energy that was asked for, to the precision of float64: all of it where the
\* product is below Precision.  Also one that does not fit, and so is of another
\* amount than was asked for, stays above the least stake and pays for its
\* liquidation, whatever the caller, the contract or the price API say.
RentIsEnough ==
    \A c \in Callers : \A i \in DOMAIN made[c] :
        LET tx == made[c][i]
            product == tx.energy * tx.price
        IN  tx.kind = "rent" =>
              /\ ~tx.estimated /\ FitsInt64(product) => tx.amount * 10000 >= Least(product)
              /\ tx.amount >= minJustLendDelegatedSun
              /\ tx.call >= minJustLendLiquidationFeeSun

\* A return made of an answered query gives back the whole rental, also when
\* the price moved since it began: unless the rental changed in between,
\* nothing is left of it.
ReturnIsWhole ==
    [][\A tx \in Mined' \ Mined :
          tx.kind = "return" /\ ~tx.estimated /\ tx.version = version[tx.to]
          => rentals'[tx.to] = 0]_vars

\* A range that is answered has every height in its place with all transfers
\* of its block; only a height that the chain does not have is the empty block.
RangeIsWhole ==
    \A c \in Callers :
        work[c].kind = "range" /\ step[c] = "done" =>
            /\ Len(reply[c]) = work[c].last - work[c].first + 1
            /\ \A i \in DOMAIN reply[c] :
                  LET h == work[c].first + i - 1
                  IN  \/ /\ h \in DOMAIN blocks /\ reply[c][i].height = h
                         /\ \A tx \in Mined : tx.kind \in TransferKinds =>
                               (tx \in Contents(blocks[h]) <=> tx \in reply[c][i].txs)
                      \/ reply[c][i] = EmptyBlock /\ h \notin 1..seen[c]

\* However often answers are lost, every call comes to its end.
EveryCallEnds == \A c \in Callers : <>(step[c] \in {"done", "error"})

\* justlend.go:191: QueryJustLendRentalDelegatedSun "returns active delegated TRX
\* (sun) for a rental order, or 0 if none": a zero would mean that there is none.
ZeroMeansNoRental ==
    \A c \in Callers :
        /\ work[c].kind = "balance" /\ step[c] = "done"
        /\ work[c].what = "__justlend_rental__" /\ reply[c] = <<0>>
        => seen[c] = 0

=============================================================================
