----------------------------- MODULE BnbBlocks -----------------------------
(***************************************************************************)
(* What the BNB adaptor tells an indexer about blocks and transactions     *)
(* (chain/bnbchain/bnb.go, bnb_receipt.go) and the range and receipt calls *)
(* of the node client below it (chain/evmbase/ethclient.go).  A request is *)
(* served in several calls of the node, each of which may fail in part,    *)
(* and between which the chain may grow or be reorganised.                 *)
(***************************************************************************)
EXTENDS Integers, SequencesExt

CONSTANTS
    MaxHeight,    \* bound: the chain grows up to this height
    TxIds,        \* hashes of transactions
    Tx,           \* what each does: see Transactions
    Bodies,       \* the lists of transactions a block may hold
    Tracked,      \* contractAddrIndex: the configured tokens, {} for all
    EntryPoint,   \* the ERC-4337 entry point
    Creation,     \* stands for the recipient of a contract creation
    Failed,       \* stands for an error
    MaxReorgs     \* bound: blocks replaced by others of their height

Heights == 1..MaxHeight

Native == "native"    \* NativeTokenAddress

\* What a node reports of a transaction: its call and, once executed, its
\* Transfer logs.  arg is the recipient and amount in an ERC20 call's data.
Transactions(A) ==
    [from : A, to : A, value : Nat,
     input : {"none", "transfer", "cut transfer", "handleOps"},
     arg : [to : A, amount : Nat], success : BOOLEAN,
     logs : Seq([token : A, from : A, to : A, value : Nat])]

ASSUME ConstantsAssumption ==
    /\ MaxHeight \in Nat \ {0}
    /\ DOMAIN Tx = TxIds
    /\ \A b \in Bodies : b \in Seq(TxIds) /\ IsInjective(b)
    /\ \A t \in TxIds :
          /\ Tx[t].logs \in Seq(Range(Tx[t].logs))
          /\ Tx[t].success \/ Tx[t].logs = <<>>
          /\ Tx[t].arg.to # Creation
          /\ \A l \in Range(Tx[t].logs) : l.token # Native /\ l.to # Creation
    /\ MaxReorgs \in Nat

VARIABLES
    chain,     \* the block at each height
    head,      \* the height the node knows
    stale,     \* blocks that were replaced; a node still finds them by hash
    reorgs,    \* how many were
    request,   \* the call being served
    fetched,   \* its blocks that are still to be described
    answer     \* the descriptions so far, or the error it answered

nodeVars == <<chain, head, stale, reorgs>>
vars     == <<nodeVars, request, fetched, answer>>

-----------------------------------------------------------------------------
\* One movement of funds, as an entry of the answer describes it.

\* Nodes write addresses in lower case, Address.Hex() in mixed case.
Lower(a) == [text |-> "lower", of |-> a]
Mixed(a) == [text |-> "mixed", of |-> a]

normalizeAddress(a) == a.of

\* A slip: the key made of the addresses as they are spelled.
KeyAsSpelled(e) == <<e.tx, e.contract, e.from, e.to, e.amount>>

\* A slip: the key without the transaction.
KeyWithoutHash(e) ==
    <<normalizeAddress(e.contract), normalizeAddress(e.from),
      normalizeAddress(e.to), e.amount>>

transferDedupKey(e) ==
    <<e.tx, normalizeAddress(e.contract), normalizeAddress(e.from),
      normalizeAddress(e.to), e.amount>>

Keys(entries) == {transferDedupKey(e) : e \in Range(entries)}

IsTracked(token) == Tracked = {} \/ token \in Tracked

shouldParseERC20Transfer(t) ==
    Tx[t].input \in {"transfer", "cut transfer"} /\ IsTracked(Tx[t].to)

Entry(t, kind, type, contract, from, to, amount) ==
    [tx |-> t, kind |-> kind, type |-> type, contract |-> contract,
     from |-> from, to |-> to, amount |-> amount]

\* The entry for the call itself; call data cut short reads as a native transfer.
buildBlockTransaction(t) ==
    IF shouldParseERC20Transfer(t) /\ Tx[t].input = "transfer"
    THEN Entry(t, "outer", 3, Lower(Tx[t].to), Lower(Tx[t].from),
               Mixed(Tx[t].arg.to), Tx[t].arg.amount)
    ELSE Entry(t, "outer", 1, Mixed(Native), Lower(Tx[t].from),
               Lower(Tx[t].to), Tx[t].value)

\* A list of entries is a function of places: <<0, i>> for the call of the i-th
\* transaction, <<r, l>> for the l-th log of the r-th receipt.
Before(p, q) == p[1] < q[1] \/ (p[1] = q[1] /\ p[2] < q[2])

\* A slip: contract creations are described like calls.
OuterWithCreations(txs) == [p \in {0} \X DOMAIN txs |-> buildBlockTransaction(txs[p[2]])]

OuterEntries(txs) ==
    [p \in {0} \X {i \in DOMAIN txs : Tx[txs[i]].to # Creation} |->
        buildBlockTransaction(txs[p[2]])]

TransferOf(t, log) ==
    Entry(t, "receipt_erc20", 3, Mixed(log.token), Mixed(log.from), Mixed(log.to), log.value)

\* A slip: logs of a zero amount are kept.
TransfersWithZero(t) ==
    [l \in {l \in DOMAIN Tx[t].logs : IsTracked(Tx[t].logs[l].token)} |->
        TransferOf(t, Tx[t].logs[l])]

parseERC20TransfersFromReceipt(t) ==
    [l \in {l \in DOMAIN Tx[t].logs : IsTracked(Tx[t].logs[l].token) /\ Tx[t].logs[l].value > 0} |->
        TransferOf(t, Tx[t].logs[l])]

\* The loop over those receipts of txs that were read: what is described already,
\* by a call or a log before it, is not described again.
AddInner(outer, txs, receipts) ==
    LET found == UNION {{r} \X DOMAIN parseERC20TransfersFromReceipt(txs[r]) :
                           r \in {r \in receipts : Tx[txs[r]].success}}
        At(p) == parseERC20TransfersFromReceipt(txs[p[1]])[p[2]]
        inner == {p \in found :
                    /\ transferDedupKey(At(p)) \notin Keys(outer)
                    /\ \A q \in found : Before(q, p) => transferDedupKey(At(q)) # transferDedupKey(At(p))}
    IN  [p \in DOMAIN outer \cup inner |-> IF p \in DOMAIN outer THEN outer[p] ELSE At(p)]

\* GetTransactionByHash.  EthGetCode answers "eoa" or "contract", so the
\* comparison with "0x" never holds and no call is of type 1.
codeIsEmpty(t) == FALSE

\* A slip: call data that is too short is read all the same.
CutDataParses(t) == shouldParseERC20Transfer(t)

ByHashIsTransfer(t) == shouldParseERC20Transfer(t) /\ Tx[t].input = "transfer"

\* The receipt of a bundle is read again for its logs, and may then be missing;
\* the first transfer in it, if any, is that of the bundle.
tryParseUserOpERC20Transfer(t, again) ==
    LET inner == parseERC20TransfersFromReceipt(t)
    IN  IF again /\ Tx[t].input = "handleOps" /\ Tx[t].to = EntryPoint /\ DOMAIN inner # {}
        THEN <<inner[Min(DOMAIN inner)]>> ELSE <<>>

ByHash(t, again) ==
    LET bundled == tryParseUserOpERC20Transfer(t, again)
        Plain(type, contract, to) ==
            Entry(t, "by hash", type, contract, Mixed(Tx[t].from), to, Tx[t].value)
        self == Mixed(Tx[t].to)
    IN  IF Tx[t].to = Creation THEN Plain(0, Mixed(Native), self)
        ELSE IF codeIsEmpty(t) THEN Plain(1, Mixed(Native), self)
        ELSE IF ByHashIsTransfer(t)
             THEN Entry(t, "by hash", 3, self, Mixed(Tx[t].from),
                        Mixed(Tx[t].arg.to), Tx[t].arg.amount)
        ELSE IF bundled # <<>> THEN [bundled[1] EXCEPT !.kind = "by hash"]
        ELSE Plain(2, self, self)

-----------------------------------------------------------------------------
\* The node (external) and the calls of the client.

Block(h, fork, txs) == [height |-> h, fork |-> fork, txs |-> txs]

\* A null answer leaves the element of the result slice as it was made.
ZeroBlock == Block(0, 0, <<>>)

Found(h) == IF h <= head THEN chain[h] ELSE ZeroBlock

\* Each element of a batch has an error of its own.
BatchElems(start, end) ==
    {b \in [1..(end - start + 1) -> {Failed} \cup Range(chain) \cup {ZeroBlock}] :
        \A i \in DOMAIN b : b[i] \in {Failed, Found(start + i - 1)}}

\* A slip: an element that failed is passed over instead of ending the range.
PassOverFailures(elems) ==
    SelectSeq(elems, LAMBDA b : b # Failed)

\* The range ends before the first element that failed.
UpToFirstFailure(elems) ==
    LET good == {n \in 0..Len(elems) : \A i \in 1..n : elems[i] # Failed}
    IN  SubSeq(elems, 1, Max(good))

\* BlocksByRange: an error when there is not even a first block.
BlocksByRange(start, end) ==
    IF start = end
    THEN {Failed} \cup (IF start <= head THEN {<<chain[start]>>} ELSE {})
    ELSE {Failed} \cup {UpToFirstFailure(e) : e \in
              {b \in BatchElems(start, end) : b[1] # Failed}}

\* BlockHeadersByRange ignores the errors of the elements: a header that did
\* not come is an empty one.
BlockHeadersByRange(start, end) ==
    IF start = end THEN BlocksByRange(start, end)
    ELSE {Failed} \cup
         {[i \in DOMAIN e |-> IF e[i] = Failed THEN ZeroBlock ELSE e[i]] :
             e \in BatchElems(start, end)}

\* BlockReceiptsByNumber: all the receipts of the block that has this number
\* now, or those of them that could be read one by one, by their places.
BlockReceiptsByNumber(h) == {Failed} \cup SUBSET DOMAIN chain[h].txs

\* TxByHash: the node also knows transactions that wait for a block.
TxByHash(t) == {t, Failed}

\* TxReceiptByHash: a null receipt, of what is in no block yet, is an error.
TxReceiptByHash(t) ==
    {Failed} \cup {r \in {t} : \E h \in 1..head : r \in Range(chain[h].txs)}

-----------------------------------------------------------------------------
NoRequest == [call |-> "none"]

\* A transaction is in one block of the chain at most.
NoneTwice(blocks) == \A g, h \in DOMAIN blocks :
    g # h => Range(blocks[g].txs) \cap Range(blocks[h].txs) = {}

Init ==
    /\ \E body \in [Heights -> Bodies] :
          chain = [h \in Heights |-> Block(h, 0, body[h])]
    /\ NoneTwice(chain)
    /\ head \in Heights
    /\ stale = {}
    /\ reorgs = 0
    /\ request = NoRequest
    /\ fetched = <<>>
    /\ answer = <<>>

Grow ==
    /\ head + 1 \in Heights
    /\ head' = head + 1
    /\ UNCHANGED <<chain, stale, reorgs, request, fetched, answer>>

\* The block of the head's height is replaced by another.
Reorganise ==
    /\ reorgs < MaxReorgs
    /\ reorgs' = reorgs + 1
    /\ stale' = stale \cup {chain[head]}
    /\ \E body \in Bodies : chain' = [chain EXCEPT ![head] =
                                        Block(head, @.fork + 1, body)]
    /\ NoneTwice(chain')
    /\ UNCHANGED <<head, request, fetched, answer>>

Open == request # NoRequest /\ answer # Failed /\ Len(answer) < request.due

\* The call begins with a list of blocks to describe, or ends in an error.
Begin(call, start, end, blocks) ==
    /\ request = NoRequest
    /\ request' = [call |-> call, start |-> start, end |-> end,
                   due |-> IF blocks = Failed THEN 0 ELSE Len(blocks)]
    /\ fetched' = IF blocks = Failed THEN <<>> ELSE blocks
    /\ answer' = IF blocks = Failed THEN Failed ELSE <<>>
    /\ UNCHANGED nodeVars

GetBatchBlock ==
    \E start, end \in Heights :
        IF start > end THEN Begin("batch", start, end, Failed)
        ELSE \E blocks \in BlocksByRange(start, end) :
                Begin("batch", start, end, blocks)

BlockByNumber == {chain[h] : h \in 1..head}

\* A hash may be that of a block that has been reorganised away.
BlockByHash == BlockByNumber \cup stale

GetBlock ==
    \E b \in BlockByNumber \cup BlockByHash :
        \/ Begin("block", b.height, b.height, <<b>>)
        \/ Begin("block", b.height, b.height, Failed)

\* Without transactions the headers are the answer.
GetBatchHeaders ==
    /\ request = NoRequest
    /\ \E start, end \in Heights :
          /\ start <= end
          /\ \E headers \in BlockHeadersByRange(start, end) :
               /\ request' = [call |-> "headers", start |-> start, end |-> end, due |-> 0]
               /\ answer' = headers
    /\ UNCHANGED <<nodeVars, fetched>>

\* buildBlockWithTransactions: without receipts there are no inner transfers.
\* A block that was not found has no number and fails the whole call.  The
\* last two fields are history: whether the receipts were those of this
\* block, and all of them.
BuildBlock ==
    /\ Open
    /\ LET b == Head(fetched)
           outer == OuterEntries(b.txs)
           Described(entries, same, whole) ==
               [block |-> b, entries |-> entries, same |-> same, whole |-> whole]
       IN  IF b = ZeroBlock THEN answer' = Failed
           ELSE \E receipts \in BlockReceiptsByNumber(b.height) :
                  answer' = Append(answer,
                      IF receipts = Failed THEN Described(outer, FALSE, FALSE)
                      ELSE Described(AddInner(outer, chain[b.height].txs, receipts),
                                     chain[b.height] = b, receipts = DOMAIN chain[b.height].txs))
    /\ fetched' = Tail(fetched)
    /\ UNCHANGED <<nodeVars, request>>

GetTransactionByHash ==
    /\ request = NoRequest
    /\ request' = [call |-> "tx", start |-> 0, end |-> 0, due |-> 0]
    /\ \E t \in TxIds : \E tx \in TxByHash(t), receipt \in TxReceiptByHash(t) :
          \/ /\ Failed \notin {tx, receipt}
             /\ answer' \in {<<ByHash(tx, TRUE)>>, <<ByHash(tx, FALSE)>>}
          \/ answer' = Failed
    /\ UNCHANGED <<nodeVars, fetched>>

GetLastestBlock ==
    /\ request = NoRequest
    /\ request' = [call |-> "latest", start |-> head, end |-> head, due |-> 0]
    /\ answer' \in {<<chain[head]>>, Failed}
    /\ UNCHANGED <<nodeVars, fetched>>

Next ==
    \/ Grow \/ Reorganise
    \/ GetBatchBlock \/ GetBlock \/ GetBatchHeaders \/ BuildBlock
    \/ GetTransactionByHash \/ GetLastestBlock

Spec == Init /\ [][Next]_vars /\ WF_vars(BuildBlock)

-----------------------------------------------------------------------------
\* Properties

Blocks == stale \cup Range(chain) \cup {ZeroBlock}

Described == IF answer # Failed /\ request.call \in {"batch", "block"}
             THEN Range(answer) ELSE {}

Movement(e) == <<e.tx, e.contract.of, e.from.of, e.to.of, e.amount>>

\* Every variable has its type; nothing is said to go to the recipient a
\* contract creation has not; an open call has blocks left to describe.
TypeOK ==
    /\ \A h \in Heights : chain[h].height = h /\ chain[h].txs \in Bodies
    /\ head \in Heights
    /\ \A b \in stale : b.height <= head /\ b # chain[b.height]
    /\ reorgs \in 0..MaxReorgs
    /\ Range(fetched) \subseteq Blocks
    /\ \A d \in Described : \A e \in Range(d.entries) : e.to.of # Creation
    /\ Open => Len(fetched) = request.due - Len(answer)

\* One movement of funds appears as the call of a transaction, as a log of
\* its receipt, or as both; the description of a block names it once.
EachMovementOnce ==
    \A d \in Described : \A p, q \in DOMAIN d.entries :
        Movement(d.entries[p]) = Movement(d.entries[q]) => p = q

\* If the receipts are those of this block and complete, every amount of a
\* tracked token that a successful transaction moved is named (equal amounts
\* between the same accounts in one transaction are named once).
EveryMovementNamed ==
    \A d \in Described : d.same /\ d.whole =>
        \A t \in Range(d.block.txs) : \A l \in Range(Tx[t].logs) :
            IsTracked(l.token) /\ l.value > 0 =>
                \E e \in Range(d.entries) :
                    Movement(e) = <<t, l.token, l.from, l.to, l.value>>

\* Unless the block was replaced between the two calls, every inner transfer
\* is an amount that a transaction of this very block moved.
NoMovementInvented ==
    \A d \in Described : d.same => \A e \in Range(d.entries) :
        e.kind = "receipt_erc20" =>
            /\ e.tx \in Range(d.block.txs) /\ Tx[e.tx].success
            /\ e.amount > 0
            /\ \E l \in Range(Tx[e.tx].logs) :
                  Movement(e) = <<e.tx, l.token, l.from, l.to, l.value>>

\* What an indexer may rely on to go on from the last block it got: a batch
\* answer begins at the height asked for and has no hole, however the node
\* failed; the headers come one for each height, an empty one for a failure.
RangeInPlace ==
    /\ request.call = "batch" /\ answer # Failed =>
          /\ request.due > 0
          /\ \A i \in DOMAIN answer :
                answer[i].block.height = request.start + i - 1
    /\ request.call = "headers" /\ answer # Failed =>
          /\ Len(answer) = request.end - request.start + 1
          /\ \A i \in DOMAIN answer :
                answer[i] = ZeroBlock \/ answer[i].height = request.start + i - 1

\* The two ways to ask agree: the token transfer that GetTransactionByHash
\* reports is one of those the description of its block names.
ByHashIsInBlock ==
    request.call = "tx" /\ answer # Failed =>
        LET e == answer[1]
        IN  e.type = 3 =>
                \E f \in Range(AddInner(OuterEntries(<<e.tx>>), <<e.tx>>, {1})) :
                    f.type = 3 /\ Movement(f) = Movement(e)

\* What the comment at "txType = 1" says: a plain transfer to an account
\* without code is a native token transfer, of type 1.
NativeIsType1 ==
    request.call = "tx" /\ answer # Failed =>
        LET e == answer[1]
        IN  Tx[e.tx].input = "none" /\ Tx[e.tx].to # Creation => e.type = 1

=============================================================================
