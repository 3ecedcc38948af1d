---------------------------- MODULE ReadHandlers ----------------------------
(***************************************************************************)
(* What the query handlers of the five adaptors make of the answers of     *)
(* their node and explorer clients.  A handler makes up to three kinds of  *)
(* calls; a[i] is how the i-th kind was answered, and shape is what the    *)
(* request, or the transaction asked for, looks like.                      *)
(***************************************************************************)
EXTENDS Integers, Sequences

\* "null" is an answer without a result: a block or a key that does not exist.
Answers == {"found", "null", "error"}
Shapes  == {"plain", "contract call", "creation", "malformed", "too short",
            "no inputs"}

\* An outcome: SUCCESS with data of the node or of nobody, a reply whose code
\* is ERROR, an error of gRPC, or a panic.
Good       == "success"
Empty      == "success with nothing"
ErrorCode  == "error code"
GrpcError  == "grpc error"
Panicked   == "panic"

Bad        == "failed"    \* an item of a list without what it asked for

OrElse(answer, failure) == IF answer = "found" THEN Good ELSE failure

-----------------------------------------------------------------------------
\* Ethereum (ethereum.go)

EthGetLastestBlock(a, shape) == OrElse(a[1], GrpcError)

\* A slip: the test of the error is moved before the loop, and inverted.
EthGetBlockUnchecked(a, shape) == OrElse(a[1], Empty)

\* The transactions of the block are read before the error is looked at.
EthGetBlock(a, shape) == OrElse(a[1], Panicked)

EthGetBatchBlock(a, shape) == ErrorCode

\* The recipient of a creation is nil, and the first four bytes of the data of
\* a plain transfer do not exist; the test for code before it never holds.
EthGetTransactionByHash(a, shape) ==
    IF a[1] # "found" \/ a[2] # "found" THEN ErrorCode
    ELSE IF shape = "creation" THEN Panicked
    ELSE IF a[3] = "error" THEN GrpcError
    ELSE IF shape = "contract call" THEN Good ELSE Panicked

EthGetTransactionByAddress(a, shape) == OrElse(a[1], GrpcError)

\* The code of the reply is ERROR when the balance was found, too.
EthGetAccountBalance(a, shape) == ErrorCode

EthCallContract(a, shape) ==
    IF shape = "malformed" THEN ErrorCode ELSE OrElse(a[1], ErrorCode)

EthGetAddressApproveList(a, shape) == Empty

\* BuildSponsoredTransfer and SendSponsoredTransfer
EthUnsupported(a, shape) == ErrorCode

\* One item of a list; its panic is that of the whole call.
EthValidAddress(shape) ==
    CASE shape = "too short" -> Panicked
      [] shape = "malformed" -> Bad
      [] OTHER               -> Good

\* A key that does not parse has an entry without an address.
EthConvertAddress(shape) == IF shape = "plain" THEN Good ELSE Bad

-----------------------------------------------------------------------------
\* BNB (bnb.go), those that BnbBlocks does not have

BnbGetTransactionByAddress(a, shape) == OrElse(a[1], GrpcError)
BnbGetAccountBalance(a, shape) == ErrorCode
BnbCallContract(a, shape) ==
    IF shape = "malformed" THEN ErrorCode ELSE OrElse(a[1], ErrorCode)
BnbValidAddress(shape) ==
    CASE shape = "too short" -> Panicked
      [] shape = "malformed" -> Bad
      [] OTHER               -> Good
BnbConvertAddress(shape) == IF shape = "plain" THEN Good ELSE Bad
BnbGetAddressApproveList(a, shape) == Empty

-----------------------------------------------------------------------------
\* Bitcoin (bitcoin.go)

BtcGetLastestBlock(a, shape) == OrElse(a[1], GrpcError)

\* The error of getblock is dropped: a block that was not read has no
\* transactions.  Of those of a block, each must be read.
BtcGetBlock(a, shape) ==
    IF a[1] # "found" THEN Empty
    ELSE IF a[2] = "error" THEN GrpcError ELSE Good

\* Answered with an error, whatever is asked.
BtcUnsupported ==
    {"GetBatchBlock", "CallContract", "BuildTransactionSchema", "BuildUnSignTransaction",
     "BuildSignedTransaction", "GetAddressApproveList", "BuildSponsoredTransfer",
     "SendSponsoredTransfer"}

BtcGetTransactionByHash(a, shape) == OrElse(a[1], GrpcError)

BtcGetTransactionByAddress(a, shape) ==
    IF a[1] # "found" THEN GrpcError
    ELSE IF shape = "no inputs" THEN Panicked ELSE Good

\* An answer without the address leaves a nil entry.
BtcGetAccountBalance(a, shape) ==
    CASE a[1] = "error" -> GrpcError
      [] a[1] = "null"  -> Panicked
      [] a[1] = "found" -> Good

\* The list of results is never filled.
BtcValidAddresses(shapes) == <<>>

\* A slip: a key that does not parse is passed over.
BtcConvertSkipsBad(shapes) == SelectSeq(shapes, LAMBDA shape : shape = "plain")

BtcConvertAddresses(shapes) ==
    [i \in DOMAIN shapes |-> IF shapes[i] = "plain" THEN Good ELSE Bad]

\* One transaction of SendTransaction: "found" is an answer with the hash of
\* the transaction, "null" one with another hash.
BtcSendItem(answer, shape) ==
    IF shape = "malformed" \/ answer # "found" THEN Bad ELSE Good

BtcSendTransaction(a, shapes) ==
    [i \in DOMAIN shapes |-> BtcSendItem(a[i], shapes[i])]

-----------------------------------------------------------------------------
\* Tron (tron.go), those that Tron does not have.  Its client reads an answer
\* without contents as a block, an account or a transaction of zeros.

OrZeros(answer) ==
    CASE answer = "found" -> Good [] answer = "null" -> Empty [] answer = "error" -> GrpcError

TronGetLastestBlock(a, shape) == OrZeros(a[1])

\* A token transfer without an owner has no entry to put its amount into.
TronGetTransactionByHash(a, shape) ==
    IF a[1] = "found" /\ shape = "no inputs" THEN Panicked ELSE OrZeros(a[1])

TronGetTransactionByAddress(a, shape) == OrElse(a[1], GrpcError)

\* Coins, the resources of an account, and tokens, whose owner and contract are
\* checked first.
TronBalanceOfCoin(a, shape)     == OrZeros(a[1])
TronBalanceOfResource(a, shape) == OrZeros(a[1])
TronBalanceOfToken(a, shape) ==
    IF shape = "malformed" THEN GrpcError ELSE OrZeros(a[1])

TronGetAccountBalance(a, shape) ==
    CASE shape \in {"contract call", "malformed"} -> TronBalanceOfToken(a, shape)
      [] shape = "no inputs"                      -> TronBalanceOfResource(a, shape)
      [] OTHER                                    -> TronBalanceOfCoin(a, shape)

\* A key that does not parse has an entry without the key.
TronConvertAddress(shape) == IF shape = "plain" THEN Good ELSE Bad
TronValidAddress(shape)   == IF shape = "plain" THEN Good ELSE Bad

-----------------------------------------------------------------------------
\* Solana (solana.go), those that Solana does not have

\* Slot zero is an error.
SolGetLastestBlock(a, shape) == OrElse(a[1], GrpcError)

SolGetBlock(a, shape) ==
    IF shape = "malformed" THEN GrpcError ELSE OrZeros(a[1])

SolGetTransactionByHash(a, shape) ==
    IF shape = "malformed" THEN GrpcError ELSE OrElse(a[1], GrpcError)

SolGetTransactionByAddress(a, shape) == OrZeros(a[1])

\* An account that does not exist has a balance of zero coins; without an
\* account of a token there is an error, so that a caller can tell it from an
\* empty one.
SolBalanceOfCoin(a)  == OrZeros(a[1])
SolBalanceOfToken(a) == OrElse(a[1], GrpcError)

SolGetAccountBalance(a, shape) ==
    CASE shape = "malformed"     -> GrpcError
      [] shape = "contract call" -> SolBalanceOfToken(a)
      [] OTHER                   -> SolBalanceOfCoin(a)

\* Bytes are taken for a key, however few.
SolConvertAddress(shape) == IF shape = "malformed" THEN Bad ELSE Good
SolValidAddress(shape)   == IF shape = "plain" THEN Good ELSE Bad

\* Methods of both that answer without asking anybody.
Stub(method) ==
    IF method \in {"BuildTransactionSchema", "GetAddressApproveList"} THEN Empty ELSE ErrorCode

-----------------------------------------------------------------------------
\* The handlers by adaptor and method

Chains == {"ethereum", "bnb", "bitcoin", "tron", "solana"}

Queries ==
    {"GetLastestBlock", "GetBlock", "GetBatchBlock", "GetTransactionByHash",
     "GetTransactionByAddress", "GetAccountBalance", "CallContract"}

Sponsored == {"BuildSponsoredTransfer", "SendSponsoredTransfer"}

Stubs == Sponsored \cup {"CallContract", "BuildTransactionSchema", "GetAddressApproveList"}

QueriesOf(chain) ==
    CASE chain = "ethereum" -> Queries \cup Sponsored \cup {"GetAddressApproveList"}
      [] chain = "bnb"      -> {"GetTransactionByAddress", "GetAccountBalance",
                                "CallContract", "GetAddressApproveList"}
      [] chain = "bitcoin"  -> Queries \cup BtcUnsupported
      [] chain = "tron"     -> (Queries \ {"GetBlock", "GetBatchBlock"}) \cup Stubs
      [] chain = "solana"   -> (Queries \ {"GetBatchBlock"}) \cup Stubs

EthHandle(method, a, shape) ==
    CASE method = "GetLastestBlock"         -> EthGetLastestBlock(a, shape)
      [] method = "GetBlock"                -> EthGetBlock(a, shape)
      [] method = "GetBatchBlock"           -> EthGetBatchBlock(a, shape)
      [] method = "GetTransactionByHash"    -> EthGetTransactionByHash(a, shape)
      [] method = "GetTransactionByAddress" -> EthGetTransactionByAddress(a, shape)
      [] method = "GetAccountBalance"       -> EthGetAccountBalance(a, shape)
      [] method = "CallContract"            -> EthCallContract(a, shape)
      [] method = "GetAddressApproveList"   -> EthGetAddressApproveList(a, shape)
      [] method \in Sponsored               -> EthUnsupported(a, shape)

BnbHandle(method, a, shape) ==
    CASE method = "GetTransactionByAddress" -> BnbGetTransactionByAddress(a, shape)
      [] method = "GetAccountBalance"       -> BnbGetAccountBalance(a, shape)
      [] method = "CallContract"            -> BnbCallContract(a, shape)
      [] method = "GetAddressApproveList"   -> BnbGetAddressApproveList(a, shape)

BtcHandle(method, a, shape) ==
    CASE method = "GetLastestBlock"         -> BtcGetLastestBlock(a, shape)
      [] method = "GetBlock"                -> BtcGetBlock(a, shape)
      [] method = "GetTransactionByHash"    -> BtcGetTransactionByHash(a, shape)
      [] method = "GetTransactionByAddress" -> BtcGetTransactionByAddress(a, shape)
      [] method = "GetAccountBalance"       -> BtcGetAccountBalance(a, shape)
      [] method \in BtcUnsupported          -> ErrorCode

TronHandle(method, a, shape) ==
    CASE method = "GetLastestBlock"         -> TronGetLastestBlock(a, shape)
      [] method = "GetTransactionByHash"    -> TronGetTransactionByHash(a, shape)
      [] method = "GetTransactionByAddress" -> TronGetTransactionByAddress(a, shape)
      [] method = "GetAccountBalance"       -> TronGetAccountBalance(a, shape)
      [] method \in Stubs                   -> Stub(method)

SolHandle(method, a, shape) ==
    CASE method = "GetLastestBlock"         -> SolGetLastestBlock(a, shape)
      [] method = "GetBlock"                -> SolGetBlock(a, shape)
      [] method = "GetTransactionByHash"    -> SolGetTransactionByHash(a, shape)
      [] method = "GetTransactionByAddress" -> SolGetTransactionByAddress(a, shape)
      [] method = "GetAccountBalance"       -> SolGetAccountBalance(a, shape)
      [] method \in Stubs                   -> Stub(method)

Handle(chain, method, a, shape) ==
    CASE chain = "ethereum" -> EthHandle(method, a, shape)
      [] chain = "bnb"      -> BnbHandle(method, a, shape)
      [] chain = "bitcoin"  -> BtcHandle(method, a, shape)
      [] chain = "tron"     -> TronHandle(method, a, shape)
      [] chain = "solana"   -> SolHandle(method, a, shape)

ConvertItem(chain, shape) ==
    CASE chain = "ethereum" -> EthConvertAddress(shape)
      [] chain = "bnb"      -> BnbConvertAddress(shape)
      [] chain = "tron"     -> TronConvertAddress(shape)
      [] chain = "solana"   -> SolConvertAddress(shape)

ValidItem(chain, shape) ==
    CASE chain = "ethereum" -> EthValidAddress(shape)
      [] chain = "bnb"      -> BnbValidAddress(shape)
      [] chain = "tron"     -> TronValidAddress(shape)
      [] chain = "solana"   -> SolValidAddress(shape)

HandleList(chain, method, shapes) ==
    CASE chain = "bitcoin" /\ method = "ConvertAddresses" -> BtcConvertAddresses(shapes)
      [] chain = "bitcoin" /\ method = "ValidAddresses"   -> BtcValidAddresses(shapes)
      [] chain # "bitcoin" /\ method = "ConvertAddresses" ->
             [i \in DOMAIN shapes |-> ConvertItem(chain, shapes[i])]
      [] chain # "bitcoin" /\ method = "ValidAddresses"   ->
             [i \in DOMAIN shapes |-> ValidItem(chain, shapes[i])]

=============================================================================
