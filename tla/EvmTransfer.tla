---------------------------- MODULE EvmTransfer ----------------------------
(***************************************************************************)
(* Ordinary transfers on the two EVM chains (chain/bnbchain/bnb.go and     *)
(* chain/ethereum/ethereum.go).  A wallet sends a batch of payloads to     *)
(* BuildUnSignTransaction, signs what comes back, sends the same payloads  *)
(* with the signatures to BuildSignedTransaction, and what that returns to *)
(* SendTransaction.  The server keeps nothing between the calls: nonce and *)
(* fees are read from the node again for every payload of every call.     *)
(***************************************************************************)
EXTENDS GasFees, SequencesExt

CONSTANTS
    Wallets,      \* clients, each with one batch to send
    Batches,      \* what each may want to send: a set of sequences of payloads
    Accounts,     \* the accounts they transfer from
    Markets,      \* the fee quotes the node may give
    MaxMoves,     \* bound: how often the quote changes
    MaxOutside,   \* bound: transactions of an account made elsewhere
    MaxFailures   \* bound: calls that fail because the node does not answer

Forms == {"ok",         \* answers and signature in order
          "lowercase",  \* the sender's address not in checksum case
          "malformed",  \* not base64, not JSON, or a number that is none
          "unsigned"}   \* a signature that is not 65 bytes of hex

Stranger == "another address" \* whom a signature over other content recovers to
Outside  == "elsewhere"       \* the id of transactions made elsewhere

ASSUME ConstantsAssumption ==
    /\ \A w \in Wallets : \A b \in Batches[w] :
          /\ b \in Seq(Range(b))
          /\ \A i \in DOMAIN b : b[i].from \in Accounts /\ b[i].form \in Forms
    /\ Stranger \notin Accounts
    /\ Markets \subseteq MarketQuotes
    /\ {MaxMoves, MaxOutside, MaxFailures} \subseteq Nat

VARIABLES
    chain,     \* the chain these wallets use: the two adaptors share nothing
    batch,     \* the payloads [id, from, form] of each wallet
    step,      \* the call each wallet is in
    built,     \* what BuildUnSignTransaction has built so far
    signature, \* the contents its owner signed
    signed,    \* what BuildSignedTransaction has made so far
    told,      \* what SendTransaction reported, payload by payload
    pool,      \* the transactions at the node, by account and nonce
    mined,     \* how many of them are in blocks
    quote,     \* the fees the node quotes now
    moves,     \* how often they changed
    failures   \* how often the node did not answer

walletVars == <<step, built, signature, signed, told>>
nodeVars   == <<pool, mined, quote, moves, failures>>
vars       == <<chain, batch, walletVars, nodeVars>>

-----------------------------------------------------------------------------
\* Data

\* The fields of types.DynamicFeeTx; the payload's id stands for the
\* recipient, the amount and the ERC20 call data made from it.
Content(p, fee) == [id |-> p.id, from |-> p.from, nonce |-> Len(pool[p.from]),
                    fee |-> fee]

\* BNB asks the node for its fees and falls back to the defaults.
BnbDynamicFeeTx(p) ==
    Content(p, IF quote.gasPrice = QuoteFailed THEN DefaultEip1559GasFees
                                               ELSE ResolveEip1559GasFees(quote))

\* A slip: the constants replaced by what the node quotes.
EthMarketFeeTx(p) == BnbDynamicFeeTx(p)

\* Ethereum uses two constants, so only the nonce can differ.
EthDynamicFeeTx(p) == Content(p, DefaultEip1559GasFees)

\* types.Sender: the owner, if the signature is over exactly this content.
Sender(content, sig) == IF content = sig THEN content.from ELSE Stranger

\* A signed transaction is its content; whose it is, its signature says.
SignedTx(content, sig) == [content |-> content, sender |-> Sender(content, sig)]

Payload(w, done) == batch[w][Len(done) + 1]
More(w, done)    == Len(done) < Len(batch[w])

-----------------------------------------------------------------------------
Init ==
    /\ chain \in {"bnb", "ethereum"}
    /\ batch \in [Wallets -> UNION {Batches[w] : w \in Wallets}]
    /\ \A w \in Wallets : batch[w] \in Batches[w]
    /\ step = [w \in Wallets |-> "build"]
    /\ built = [w \in Wallets |-> <<>>]
    /\ signature = [w \in Wallets |-> <<>>]
    /\ signed = [w \in Wallets |-> <<>>]
    /\ told = [w \in Wallets |-> <<>>]
    /\ pool = [a \in Accounts |-> <<>>]
    /\ mined = [a \in Accounts |-> 0]
    /\ quote \in Markets
    /\ moves = 0
    /\ failures = 0

InOrder(w) == \A i \in DOMAIN batch[w] : batch[w][i].form = "ok"

\* A call that ended in an error gives the wallet nothing of its batch.  It
\* tries again unless the error is of its own making.
StartOver(w) ==
    /\ step' = [step EXCEPT ![w] = IF InOrder(w) THEN "build" ELSE "gave up"]
    /\ built' = [built EXCEPT ![w] = <<>>]
    /\ signature' = [signature EXCEPT ![w] = <<>>]
    /\ signed' = [signed EXCEPT ![w] = <<>>]
    /\ UNCHANGED <<told, pool, mined, quote, moves>>

\* buildDynamicFeeTx failed, or so did WithSignature: the handler reads
\* through a nil pointer and the interceptor answers codes.Internal.
Panic(w, done, form) ==
    /\ More(w, done)
    /\ \/ Payload(w, done).form = form /\ UNCHANGED failures
       \/ failures < MaxFailures /\ failures' = failures + 1
    /\ StartOver(w)

\* BuildUnSignTransaction, one payload of its loop.
BuildUnSigned(w, content) ==
    /\ step[w] = "build"
    /\ More(w, built[w])
    /\ Payload(w, built[w]).form # "malformed"
    /\ built' = [built EXCEPT ![w] = Append(@, content)]
    /\ step' = [step EXCEPT ![w] = IF Len(built'[w]) = Len(batch[w])
                                   THEN "sign" ELSE @]
    /\ UNCHANGED <<signature, signed, told, nodeVars>>

BnbBuildUnSignTransaction(w) ==
    /\ chain = "bnb"
    /\ \/ BuildUnSigned(w, BnbDynamicFeeTx(Payload(w, built[w])))
       \/ step[w] = "build" /\ Panic(w, built[w], "malformed")

EthBuildUnSignTransaction(w) ==
    /\ chain = "ethereum"
    /\ \/ BuildUnSigned(w, EthDynamicFeeTx(Payload(w, built[w])))
       \/ step[w] = "build" /\ Panic(w, built[w], "malformed")

\* The owner of the account signs the hashes of the whole batch (external).
Sign(w) ==
    /\ step[w] = "sign"
    /\ signature' = [signature EXCEPT ![w] = built[w]]
    /\ step' = [step EXCEPT ![w] = "finish"]
    /\ UNCHANGED <<built, signed, told, nodeVars>>

\* A slip: the recovered sender is logged and not compared.
SenderUnchecked(w, content) ==
    TRUE

\* The check of BuildSignedTransaction; it compares the spelling as well.
SenderMatches(w, content) ==
    LET p == Payload(w, signed[w])
    IN  /\ Sender(content, signature[w][Len(signed[w]) + 1]) = p.from
        /\ p.form # "lowercase"

\* BuildSignedTransaction, one payload of its loop: the content is built
\* anew, and one signature that does not fit it fails the whole call.
BuildSigned(w, content) ==
    /\ step[w] = "finish"
    /\ More(w, signed[w])
    /\ Payload(w, signed[w]).form # "unsigned"
    /\ IF SenderMatches(w, content)
       THEN /\ signed' = [signed EXCEPT ![w] =
                 Append(@, SignedTx(content, signature[w][Len(@) + 1]))]
            /\ step' = [step EXCEPT ![w] = IF Len(signed'[w]) = Len(batch[w])
                                           THEN "send" ELSE @]
            /\ UNCHANGED <<built, signature, told, nodeVars>>
       ELSE StartOver(w) /\ UNCHANGED failures

\* A slip: the second build takes the default fees.
BnbFinishWithDefaults(w) ==
    /\ chain = "bnb"
    /\ \/ BuildSigned(w, EthDynamicFeeTx(Payload(w, signed[w])))
       \/ step[w] = "finish" /\ Panic(w, signed[w], "unsigned")

BnbBuildSignedTransaction(w) ==
    /\ chain = "bnb"
    /\ \/ BuildSigned(w, BnbDynamicFeeTx(Payload(w, signed[w])))
       \/ step[w] = "finish" /\ Panic(w, signed[w], "unsigned")

EthBuildSignedTransaction(w) ==
    /\ chain = "ethereum"
    /\ \/ BuildSigned(w, EthDynamicFeeTx(Payload(w, signed[w])))
       \/ step[w] = "finish" /\ Panic(w, signed[w], "unsigned")

-----------------------------------------------------------------------------
\* The node (external), as in SponsoredSend: a pending transaction gives way
\* to one that pays 10% more of both fees.

Outbids(new, old) ==
    /\ 100 * new.tip >= 110 * old.tip
    /\ 100 * new.cap >= 110 * old.cap

Occupied(t) == t.nonce < Len(pool[t.from])

Accepts(t) ==
    /\ t.nonce >= mined[t.from]
    /\ Occupied(t) => Outbids(t.fee, pool[t.from][t.nonce + 1].fee)

\* The nonce was the pending one when it was read, so it leaves no gap.
Place(t) ==
    pool' = [pool EXCEPT ![t.from] =
               IF Occupied(t) THEN [@ EXCEPT ![t.nonce + 1] = t]
                              ELSE Append(@, t)]

\* A slip: the failed branch falls through to the success one.
ReportsSuccess(accepted, answered) == TRUE

\* IsSuccess iff the node accepted the transaction and its answer arrived.
IsSuccess(accepted, answered) == accepted /\ answered

\* SendTransaction, one item of its loop.
SendItem(w) ==
    /\ step[w] = "send"
    /\ More(w, told[w])
    /\ LET t        == signed[w][Len(told[w]) + 1].content
           accepted == t.from = signed[w][Len(told[w]) + 1].sender /\ Accepts(t)
       IN  \E answered \in BOOLEAN :
             /\ IF accepted THEN Place(t) ELSE UNCHANGED pool
             /\ told' = [told EXCEPT ![w] =
                           Append(@, IsSuccess(accepted, answered))]
             /\ step' = [step EXCEPT ![w] = IF Len(told'[w]) = Len(batch[w])
                                            THEN "done" ELSE @]
    /\ UNCHANGED <<built, signature, signed, mined, quote, moves, failures>>

BnbSendTransaction(w) == chain = "bnb" /\ SendItem(w)
EthSendTransaction(w) == chain = "ethereum" /\ SendItem(w)

Mine(a) ==
    /\ mined[a] < Len(pool[a])
    /\ mined' = [mined EXCEPT ![a] = @ + 1]
    /\ UNCHANGED <<walletVars, pool, quote, moves, failures>>

\* The owner uses the account with another wallet program.
TransferElsewhere(a) ==
    /\ Len(SelectSeq(pool[a], LAMBDA t : t.id = Outside)) < MaxOutside
    /\ pool' = [pool EXCEPT ![a] =
          Append(@, Content([id |-> Outside, from |-> a], DefaultEip1559GasFees))]
    /\ UNCHANGED <<walletVars, mined, quote, moves, failures>>

QuoteMoves ==
    /\ moves < MaxMoves
    /\ quote' \in Markets \ {quote}
    /\ moves' = moves + 1
    /\ UNCHANGED <<walletVars, pool, mined, failures>>

-----------------------------------------------------------------------------
Server(w) ==
    \/ BnbBuildUnSignTransaction(w) \/ EthBuildUnSignTransaction(w)
    \/ BnbBuildSignedTransaction(w) \/ EthBuildSignedTransaction(w)
    \/ BnbSendTransaction(w) \/ EthSendTransaction(w)

Node == QuoteMoves \/ \E a \in Accounts : Mine(a) \/ TransferElsewhere(a)

Next ==
    /\ Node \/ \E w \in Wallets : Server(w) \/ Sign(w)
    /\ UNCHANGED <<chain, batch>>

\* A handler that has begun runs on; nothing obliges the node to mine.
Fairness == \A w \in Wallets :
    WF_vars((Server(w) \/ Sign(w)) /\ UNCHANGED <<chain, batch>>)

Spec == Init /\ [][Next]_vars /\ Fairness

-----------------------------------------------------------------------------
\* Properties

Contents == [id : {Outside} \cup
                    UNION {{batch[w][i].id : i \in DOMAIN batch[w]} : w \in Wallets},
             from : Accounts, nonce : Nat, fee : FeePairs]

\* Every variable has its type, and each list is a prefix of the batch.
TypeOK ==
    /\ step \in [Wallets -> {"build", "sign", "finish", "send", "done", "gave up"}]
    /\ built \in [Wallets -> Seq(Contents)]
    /\ signature \in [Wallets -> Seq(Contents)]
    /\ signed \in [Wallets -> Seq([content : Contents, sender : Accounts])]
    /\ told \in [Wallets -> Seq(BOOLEAN)]
    /\ \A w \in Wallets : /\ Len(signed[w]) <= Len(signature[w])
                          /\ Len(told[w]) <= Len(signed[w])
    /\ pool \in [Accounts -> Seq(Contents)]
    /\ mined \in [Accounts -> Nat]
    /\ \A a \in Accounts : mined[a] <= Len(pool[a])
    /\ quote \in Markets
    /\ moves \in 0..MaxMoves
    /\ failures \in 0..MaxFailures

\* BuildSignedTransaction rebuilds every payload from a fresh nonce and fresh
\* fees; whatever moved since the owner signed, it never answers with a
\* transaction other than the one he signed, payload by payload.
AnswersWhatWasSigned ==
    \A w \in Wallets : \A i \in DOMAIN signed[w] :
        /\ signed[w][i].content = signature[w][i]
        /\ signed[w][i].content.id = batch[w][i].id
        /\ signed[w][i].sender = batch[w][i].from

Reported(w, i) == i \in DOMAIN told[w] /\ told[w][i]

\* A transfer that SendTransaction reports as sent is at the node under its
\* nonce, or lost that place to one that pays a tenth more of both fees (to
\* another payload of its own batch, say, built with the same nonce).
ReportedStays ==
    \A w \in Wallets : \A i \in DOMAIN batch[w] : Reported(w, i) =>
        LET t == signed[w][i].content
        IN  Occupied(t) /\ (\/ pool[t.from][t.nonce + 1] = t
                            \/ Outbids(pool[t.from][t.nonce + 1].fee, t.fee))

\* On Ethereum, where the fees are constants, nothing built by this program
\* can replace anything else it built: a reported transfer stays for good.
EthReportedStays ==
    \A w \in Wallets : \A i \in DOMAIN batch[w] :
        chain = "ethereum" /\ Reported(w, i) =>
            LET t == signed[w][i].content IN pool[t.from][t.nonce + 1] = t

\* On Ethereum a batch in order is turned down at BuildSignedTransaction only
\* when the node did not answer or an account's pending nonce moved after the
\* batch was built: no signature goes stale by waiting.
EthOnlyNonceGoesStale ==
    [][\A w \in Wallets :
          /\ chain = "ethereum" /\ InOrder(w)
          /\ step[w] = "finish" /\ step'[w] = "build"
          => \/ failures' > failures
             \/ \E i \in DOMAIN signature[w] :
                   signature[w][i].nonce # Len(pool[signature[w][i].from])]_vars

\* A wallet whose batch is in order gets it through to the node: once nonce
\* and fees hold still between its signature and the second build, the two
\* builds agree.
BatchGetsSent ==
    \A w \in Wallets : InOrder(w) => <>(step[w] = "done")

=============================================================================
