------------------------------- MODULE Solana -------------------------------
(***************************************************************************)
(* The Solana adaptor (chain/solana): slots of a range with their          *)
(* transactions, which GetTransactionRange fetches in parallel behind a    *)
(* semaphore; what a transaction is parsed into; and transfers, whose      *)
(* signatures are gathered by envelope and whose blockhash expires.        *)
(***************************************************************************)
EXTENDS Integers, SequencesExt

CONSTANTS
    Callers,         \* clients, each with one piece of work
    Work,            \* what they may have to do: Heights or Transfers
    Ledgers,         \* chains: sequences of blocks, or Skipped
    Skipped,         \* a slot without a block
    Keys,            \* of signers
    Texts,           \* what else an entry may have for a key: NoKey, BadKey
    NoKey, BadKey,
    Garbled,         \* an envelope that does not decode
    Short,           \* a signature of another length than 64 bytes
    MaxEntries,      \* bound: signatures of a request
    maxConcurrent,   \* places of the semaphore
    Life             \* slots for which a blockhash is good

Heights(first, last, with) ==
    [kind |-> "range", first |-> first, last |-> last, with |-> with]
Transfers(payloads) == [kind |-> "transfers", payloads |-> payloads]

IsWork(w) ==
    \/ w.kind = "range" /\ w.first \in Nat \ {0} /\ w.last \in Nat /\ w.with \in BOOLEAN
    \/ w.kind = "transfers" /\ w.payloads \in Seq(Range(w.payloads))

\* The transactions of a slot; a signature is that of one transaction.
IsBlock(txs) ==
    /\ txs \in Seq(Range(txs))
    /\ \A i, j \in DOMAIN txs : txs[i].id = txs[j].id => i = j
    /\ \A tx \in Range(txs) :
          /\ tx.instructions \in Seq(Range(tx.instructions))
          /\ \A balances \in {tx.pre, tx.post} :
                /\ balances \in Seq(Range(balances))
                /\ \A b \in Range(balances) : b.amount \in Nat

ASSUME ConstantsAssumption ==
    /\ \A w \in Work : \A c \in Callers : IsWork(w[c])
    /\ \A l \in Ledgers : /\ l \in Seq(Range(l))
                          /\ \A txs \in Range(l) \ {Skipped} : IsBlock(txs)
    /\ maxConcurrent \in Nat \ {0} /\ MaxEntries \in Nat \ {0} /\ Life \in Nat
    /\ Texts \subseteq {NoKey, BadKey}
    /\ {NoKey, BadKey} \cap Keys = {}

VARIABLES
    work,      \* what each caller does
    step,      \* where it is
    listed,    \* the blocks of its reply
    next,      \* the slot it is at
    fetch,     \* its GetTransactionRange
    failed,    \* history: the slots whose query failed
    seen,      \* history: the head when it asked for the last slot
    made,      \* the envelopes made for its payloads
    signed,    \* what BuildSignedTransaction made of them
    told,      \* what SendTransaction reported
    attempt,   \* how often the present request was posted
    ledger,    \* the chain
    head,      \* its last finalized slot
    known      \* the envelopes whose transactions the node has taken

rangeVars    == <<listed, next, fetch, failed, seen>>
transferVars == <<made, signed, told, attempt>>
vars == <<work, step, rangeVars, transferVars, ledger, head, known>>

-----------------------------------------------------------------------------
\* solana_parse.go.  A transaction is [id, chars, ok, pre, post, instructions]:
\* the length of its signature's text, token balances [owner, mint, amount] by
\* account, and instructions [program, from, to, mint, amount].

HolderOf(balance) == <<balance.owner, balance.mint>>

\* The map keeps the last account of an owner with several of one mint.
AmountIn(balances, holder) ==
    LET I == {i \in DOMAIN balances : HolderOf(balances[i]) = holder}
    IN  IF I = {} THEN 0 ELSE balances[Max(I)].amount

Diff(tx, holder) == AmountIn(tx.post, holder) - AmountIn(tx.pre, holder)

Holders(tx) == {HolderOf(b) : b \in ToSet(tx.pre) \cup ToSet(tx.post)}

Transfer(from, to, mint, amount) ==
    [from |-> from, to |-> to, mint |-> mint, amount |-> amount]

\* A slip: what the sender lost is the amount.
parseSPLBySender(tx) ==
    {Transfer(k[1], l[1], l[2], -Diff(tx, k)) :
        k \in {k \in Holders(tx) : Diff(tx, k) < 0},
        l \in {l \in Holders(tx) : Diff(tx, l) > 0}}

\* The last one to lose and the last one to gain, in the order of a map; what
\* the latter gained is the amount.
parseSPLFromTokenBalances(tx) ==
    {Transfer(k[1], l[1], l[2], Diff(tx, l)) :
        k \in {k \in Holders(tx) : Diff(tx, k) < 0},
        l \in {l \in Holders(tx) : Diff(tx, l) > 0}}

IsTransfer(instruction) == instruction.program \in {"system", "token"}

Nothing == Transfer("", "", "", 0)

parseTransactionResult(tx) ==
    LET bySPL == parseSPLFromTokenBalances(tx)
        I     == {i \in DOMAIN tx.instructions : IsTransfer(tx.instructions[i])}
    IN  IF bySPL # {} THEN bySPL
        ELSE IF I = {} THEN {Nothing}
        ELSE LET s == tx.instructions[Min(I)] IN {Transfer(s.from, s.to, s.mint, s.amount)}

\* toWalletTransaction, and the entry of a hash alone.
Hydrated(tx, transfer) == [hash |-> tx.id, whole |-> TRUE, ok |-> tx.ok, transfer |-> transfer]
HashOnly(tx) == [hash |-> tx.id, whole |-> FALSE, ok |-> FALSE, transfer |-> Nothing]

-----------------------------------------------------------------------------
NoFetch == [txs |-> <<>>, at |-> <<>>, retry |-> <<>>, held |-> 0,
            results |-> <<>>, errors |-> 0, expired |-> FALSE]

Init ==
    /\ work \in Work
    /\ step = [c \in Callers |-> IF work[c].kind = "range" THEN "range" ELSE "build"]
    /\ listed = [c \in Callers |-> <<>>]
    /\ next = [c \in Callers |-> IF work[c].kind = "range" THEN work[c].first ELSE 0]
    /\ fetch = [c \in Callers |-> NoFetch]
    /\ failed = [c \in Callers |-> {}]
    /\ seen = [c \in Callers |-> 0]
    /\ made = [c \in Callers |-> <<>>]
    /\ signed = [c \in Callers |-> <<>>]
    /\ told = [c \in Callers |-> <<>>]
    /\ attempt = [c \in Callers |-> 0]
    /\ ledger \in Ledgers
    /\ head \in 0..Len(ledger)
    /\ known = {}

Ends(c, how) == step' = [step EXCEPT ![c] = how]

Finalize ==
    /\ head < Len(ledger)
    /\ head' = head + 1
    /\ UNCHANGED <<work, step, rangeVars, transferVars, ledger, known>>

-----------------------------------------------------------------------------
\* GetBatchBlock: one slot

List(c, there, txs) ==
    /\ listed' = [listed EXCEPT ![c] =
                    Append(@, [slot |-> next[c], there |-> there, txs |-> txs])]
    /\ next' = [next EXCEPT ![c] = @ + 1]

Hashes(txs) == [i \in DOMAIN txs |-> HashOnly(txs[i])]

\* The length GetTransactionRange asks of a signature's text.
WellFormed(txs) == \A i \in DOMAIN txs : txs[i].chars \in 88..90

\* A block with several transactions starts their goroutines; one alone is
\* fetched at once, without repetition.
parseBlockTransactions(c, txs) ==
    IF ~WellFormed(txs) \/ txs = <<>>
    THEN List(c, TRUE, Hashes(txs)) /\ UNCHANGED <<fetch, step>>
    ELSE IF Len(txs) = 1
    THEN /\ \/ \E t \in parseTransactionResult(txs[1]) : List(c, TRUE, <<Hydrated(txs[1], t)>>)
            \/ List(c, TRUE, Hashes(txs))
         /\ UNCHANGED <<fetch, step>>
    ELSE /\ fetch' = [fetch EXCEPT ![c] =
                        [NoFetch EXCEPT !.txs = txs, !.at = [i \in DOMAIN txs |-> "new"],
                                        !.retry = [i \in DOMAIN txs |-> 0]]]
         /\ Ends(c, "fetch")
         /\ UNCHANGED <<listed, next>>

\* What a slot is answered with, besides an error: a slot that was skipped has
\* nothing but an error, one beyond the head is null.
GetBlockBySlot(h) ==
    CASE h > head                           -> {"null"}
      [] h <= head /\ ledger[h] = Skipped  -> {}
      [] h <= head /\ ledger[h] # Skipped  -> {"block"}

\* Any error, of the node or on the way to it, and the next slot is taken.
PassOver(c) ==
    /\ next' = [next EXCEPT ![c] = @ + 1]
    /\ failed' = [failed EXCEPT ![c] = @ \cup {next[c]}]

GetBatchBlock(c) ==
    /\ step[c] = "range"
    /\ seen' = [seen EXCEPT ![c] = head]
    /\ LET h == next[c]
       IN  \/ /\ h > work[c].last                          \* "error" for no slots at all
              /\ Ends(c, IF work[c].first > work[c].last THEN "error" ELSE "done")
              /\ UNCHANGED <<listed, next, fetch, failed>>
           \/ /\ h <= work[c].last
              /\ PassOver(c) /\ UNCHANGED <<step, listed, fetch>>
           \/ /\ h <= work[c].last /\ "null" \in GetBlockBySlot(h)
              /\ List(c, FALSE, <<>>) /\ UNCHANGED <<step, fetch, failed>>
           \/ /\ h <= work[c].last /\ "block" \in GetBlockBySlot(h)
              /\ IF work[c].with
                 THEN parseBlockTransactions(c, ledger[h])
                 ELSE List(c, TRUE, <<>>) /\ UNCHANGED <<step, fetch>>
              /\ UNCHANGED failed
    /\ UNCHANGED <<work, transferVars, ledger, head, known>>

-----------------------------------------------------------------------------
\* GetTransactionRange: a goroutine for each signature

maxRetries == 3

\* The context of five minutes runs out.
Expire(c) ==
    /\ step[c] = "fetch" /\ ~fetch[c].expired
    /\ fetch' = [fetch EXCEPT ![c].expired = TRUE]
    /\ UNCHANGED <<work, step, listed, next, failed, seen, transferVars, ledger, head, known>>

Acquire(c, i) ==
    /\ fetch[c].at[i] = "new"
    /\ fetch[c].held < maxConcurrent
    /\ fetch' = [fetch EXCEPT ![c].at[i] = "in", ![c].held = @ + 1]

\* A slip: the place is given back after a result alone.
FailKeepsPlace(c, i) ==
    fetch' = [fetch EXCEPT ![c].at[i] = "out", ![c].errors = @ + 1]

Fail(c, i) ==
    fetch' = [fetch EXCEPT ![c].at[i] = "out", ![c].held = @ - 1, ![c].errors = @ + 1]

Succeed(c, i) ==
    \E t \in parseTransactionResult(fetch[c].txs[i]) :
        fetch' = [fetch EXCEPT ![c].at[i] = "out", ![c].held = @ - 1,
                               ![c].results = Append(@, Hydrated(fetch[c].txs[i], t))]

\* A slip: the counter starts anew after a sleep.
MayRepeatAlways(c, i) == TRUE

MayRepeat(c, i) == fetch[c].retry[i] < maxRetries - 1

\* One turn of the loop: the deadline, a result, a request that failed, or an
\* answer of another kind.
Turn(c, i) ==
    /\ fetch[c].at[i] = "in"
    /\ \/ fetch[c].expired /\ Fail(c, i)
       \/ Succeed(c, i)
       \/ /\ MayRepeat(c, i)
          /\ fetch' = [fetch EXCEPT ![c].retry[i] = @ + 1]
       \/ Fail(c, i)

Goroutine(c, i) ==
    /\ step[c] = "fetch"
    /\ Acquire(c, i) \/ Turn(c, i)
    /\ UNCHANGED <<work, step, listed, next, failed, seen, transferVars, ledger, head, known>>

\* A slip: the results there are, are used.
UseWhatCame(f) == f.results

\* One error and only the hashes are listed.
Outcome(f) ==
    IF f.errors > 0 \/ f.results = <<>> THEN Hashes(f.txs) ELSE f.results

\* The end of wg.Wait.
GetTransactionRange(c) ==
    /\ step[c] = "fetch"
    /\ \A i \in DOMAIN fetch[c].at : fetch[c].at[i] = "out"
    /\ List(c, TRUE, Outcome(fetch[c]))
    /\ fetch' = [fetch EXCEPT ![c] = NoFetch]
    /\ Ends(c, "range")
    /\ UNCHANGED <<work, failed, seen, transferVars, ledger, head, known>>

-----------------------------------------------------------------------------
\* Transfers.  A payload is [from, payer, hash, form]: the slot of a blockhash
\* of its own, or 0; form is "ok", "malformed" or "bad hash".

\* The account keys of the message that must sign: the fee payer first.
SignerKeys(p) == IF p.payer = p.from THEN <<p.from>> ELSE <<p.payer, p.from>>

\* The slots whose blockhash the node may give: a confirmed one, which need not
\* be finalized yet.  An error is that of the call.
GetLatestBlockhash == head..Len(ledger)

Envelope(p, recent) == [payload |-> p, born |-> IF p.hash = 0 THEN recent ELSE p.hash]

Unusable(payloads) == {i \in DOMAIN payloads : payloads[i].form # "ok"}

\* One blockhash for all; the first bad payload decides how the call fails, a
\* blockhash that is none by a panic.
BuildUnSignTransaction(c) ==
    /\ step[c] = "build"
    /\ LET p == work[c].payloads
       IN  \/ Ends(c, "error") /\ UNCHANGED made
           \/ /\ Unusable(p) # {}
              /\ Ends(c, IF p[Min(Unusable(p))].form = "bad hash" THEN "panic" ELSE "error")
              /\ UNCHANGED made
           \/ /\ Unusable(p) = {}
              /\ \E recent \in GetLatestBlockhash :
                    made' = [made EXCEPT ![c] = [i \in DOMAIN p |-> Envelope(p[i], recent)]]
              /\ Ends(c, "sign")
    /\ UNCHANGED <<work, rangeVars, signed, told, attempt, ledger, head, known>>

Signature(key, envelope) == [by |-> key, of |-> envelope]

\* What a caller may send: for each of its envelopes, under each key or text, a
\* signature of 64 bytes, by any signer and over any of them, or one that is
\* short.
Entries(c) ==
    LET envs    == ToSet(made[c])
        signers == UNION {ToSet(SignerKeys(e.payload)) : e \in envs}
    IN  {[env |-> Garbled, key |-> NoKey, sig |-> Short]}
        \cup [env : envs, key : Keys \cup Texts,
              sig : {Short} \cup {Signature(k, e) : k \in signers, e \in envs}]

\* A slip: a signature without a key is that of the fee payer.
KeyOrPayer(entry) ==
    CASE entry.key \in Keys -> {entry.key}
      [] entry.key = NoKey  -> {SignerKeys(entry.env.payload)[1]}
      [] OTHER              -> {}

\* The key an entry's signature is kept under, if any.
KeyOf(entry) ==
    LET signers == SignerKeys(entry.env.payload)
    IN  CASE entry.key \in Keys                     -> {entry.key}
          [] entry.key = NoKey /\ Len(signers) = 1 -> {signers[1]}
          [] OTHER                                 -> {}

\* The last signature of a key for an envelope.
Kept(entries, e, key) ==
    LET I == {i \in DOMAIN entries : entries[i].env = e /\ key \in KeyOf(entries[i])}
    IN  IF I = {} THEN Short ELSE entries[Max(I)].sig

\* Whether an entry is labelled truly: its signature, if it is one, is of its
\* envelope, by the key it names or, where it names none, by one of the signers.
Labelled(entry) ==
    \/ entry.sig = Short
    \/ \E k \in IF entry.key \in Keys THEN {entry.key} ELSE ToSet(SignerKeys(entry.env.payload)) :
          entry.sig = Signature(k, entry.env)

\* Nothing is verified; a signature counts by its length.  The field "labelled"
\* is history: whether all that was sent for this envelope was labelled truly.
assembleSignedTransaction(entries, e) ==
    LET sigs == [i \in DOMAIN SignerKeys(e.payload) |-> Kept(entries, e, SignerKeys(e.payload)[i])]
    IN  [env |-> e, sigs |-> sigs, success |-> Short \notin ToSet(sigs),
         labelled |-> \A i \in DOMAIN entries : entries[i].env = e => Labelled(entries[i])]

\* decodeEnvelope: what is not base64 of JSON is no envelope.
decodeEnvelope(text) == {text} \ {Garbled}

\* The envelopes that decode, in the order in which they come first: the set of
\* this one sequence.
Grouped(entries) ==
    LET I == {i \in DOMAIN entries : /\ decodeEnvelope(entries[i].env) # {}
                                     /\ \A j \in 1..i-1 : entries[j].env # entries[i].env}
        orders == {o \in [1..Cardinality(I) -> I] : \A k, l \in DOMAIN o : k < l => o[k] < o[l]}
    IN  {[k \in DOMAIN o |-> entries[o[k]].env] : o \in orders}

BuildSignedTransaction(c) ==
    /\ step[c] = "sign"
    /\ \E n \in 1..MaxEntries : \E entries \in [1..n -> Entries(c)] : \E envs \in Grouped(entries) :
          LET all == [i \in DOMAIN envs |-> assembleSignedTransaction(entries, envs[i])]
          IN  /\ signed' = [signed EXCEPT ![c] = all]
              /\ Ends(c, IF all = <<>> THEN "done" ELSE "send")
    /\ UNCHANGED <<work, rangeVars, made, told, attempt, ledger, head, known>>

Alive(e) == head - e.born <= Life

\* Each signer's own signature of the message, in the signer's place.
Verifies(tx) ==
    LET signers == SignerKeys(tx.env.payload)
    IN  tx.sigs = [i \in DOMAIN signers |-> Signature(signers[i], tx.env)]

\* The node takes a transaction whose signatures verify, once, while its
\* blockhash is good.
Takes(tx) == Verifies(tx) /\ Alive(tx.env) /\ tx.env \notin known

Retries == 3    \* defaultRetryCount

Report(c, what) ==
    /\ told' = [told EXCEPT ![c] = Append(@, what)]
    /\ attempt' = [attempt EXCEPT ![c] = 0]
    /\ step' = [step EXCEPT ![c] = IF Len(told'[c]) = Len(signed[c]) THEN "done" ELSE @]

\* No answer: the client posts again, up to its limit.
Silence(c) ==
    IF attempt[c] < Retries
    THEN attempt' = [attempt EXCEPT ![c] = @ + 1] /\ UNCHANGED <<told, step>>
    ELSE Report(c, "failed")

\* SendTransaction, one post for the next transaction; what was not assembled
\* is an empty text, which the client refuses.
SendTransaction(c) ==
    /\ step[c] = "send"
    /\ LET tx == signed[c][Len(told[c]) + 1]
       IN  \/ ~tx.success /\ Report(c, "failed") /\ UNCHANGED known
           \/ tx.success /\ Silence(c) /\ UNCHANGED known         \* the request is lost
           \/ /\ tx.success /\ Takes(tx)
              /\ known' = known \cup {tx.env}
              /\ \/ Report(c, "sent")
                 \/ Silence(c) \/ Report(c, "failed")       \* or its answer is, or is an error
           \/ tx.success /\ Report(c, "failed") /\ UNCHANGED known   \* it refuses
    /\ UNCHANGED <<work, rangeVars, made, signed, ledger, head>>

-----------------------------------------------------------------------------
Call(c) ==
    \/ GetBatchBlock(c) \/ GetTransactionRange(c)
    \/ \E i \in DOMAIN fetch[c].at : Goroutine(c, i)
    \/ BuildUnSignTransaction(c) \/ BuildSignedTransaction(c) \/ SendTransaction(c)

Next ==
    \/ Finalize
    \/ \E c \in Callers : Call(c) \/ Expire(c)

\* A call goes on while one of its goroutines can; deadlines and the chain are
\* left to themselves.
Fairness == \A c \in Callers : WF_vars(Call(c))

Spec == Init /\ [][Next]_vars /\ Fairness

-----------------------------------------------------------------------------
\* Properties

\* Goroutines hold the places of the semaphore and no more, each sends on one
\* channel once, and none of them is tried more often than the loop says.
TypeOK ==
    /\ step \in [Callers -> {"range", "fetch", "build", "sign", "send", "done", "error", "panic"}]
    /\ \A c \in Callers :
         LET f == fetch[c]
             At(where) == {i \in DOMAIN f.at : f.at[i] = where}
         IN  /\ f.held = Cardinality(At("in")) /\ f.held <= maxConcurrent
             /\ Len(f.results) + f.errors = Cardinality(At("out"))
             /\ \A i \in DOMAIN f.retry : f.retry[i] \in 0..maxRetries - 1
             /\ attempt[c] \in 0..Retries
             /\ Len(told[c]) <= Len(signed[c])

HashesOf(txs) == {txs[i].hash : i \in DOMAIN txs}

\* An answered range loses no transaction: its slots are in order, a listed
\* block has every transaction of its slot once, all of them parsed or all of
\* them bare hashes, in whatever order the goroutines ended; a block that was
\* not there yet lists none; and a slot left out has no block, or its query
\* failed.
BlocksAreWhole ==
    \A c \in Callers : work[c].kind = "range" /\ step[c] = "done" =>
        /\ \A i \in DOMAIN listed[c] :
             LET b == listed[c][i]
             IN  /\ \A j \in 1..i-1 : listed[c][j].slot < b.slot
                 /\ IF ~b.there THEN b.txs = <<>>
                    ELSE /\ b.slot <= seen[c]
                         /\ work[c].with =>
                              /\ Len(b.txs) = Len(ledger[b.slot])
                              /\ HashesOf(b.txs) = {ledger[b.slot][k].id : k \in DOMAIN ledger[b.slot]}
                              /\ \A k, l \in DOMAIN b.txs : b.txs[k].whole = b.txs[l].whole
        /\ \A h \in work[c].first..work[c].last :
             (\A i \in DOMAIN listed[c] : listed[c][i].slot # h)
             => h \in failed[c] \/ (h \in DOMAIN ledger /\ ledger[h] = Skipped)

\* What a holder's accounts gained together.
Net(tx, holder) ==
    LET Amounts(balances) ==
            MapThenFoldSet(+, 0, LAMBDA i : balances[i].amount, LAMBDA S : CHOOSE i \in S : TRUE,
                           {i \in DOMAIN balances : HolderOf(balances[i]) = holder})
    IN  Amounts(tx.post) - Amounts(tx.pre)

\* Holders with one account of each mint.
OneAccountEach(tx) ==
    \A balances \in {tx.pre, tx.post} : \A i, j \in DOMAIN balances :
        HolderOf(balances[i]) = HolderOf(balances[j]) => i = j

\* A receipt is never invented: what is listed as received in a transaction
\* that succeeded was gained by that owner in that mint, or is what one of its
\* instructions says, whatever the order in which balances are visited, unless
\* an owner has several accounts of one mint.
ReceiptsHappened ==
    \A c \in Callers : \A i \in DOMAIN listed[c] : \A j \in DOMAIN listed[c][i].txs :
        LET entry == listed[c][i].txs[j]
            t     == entry.transfer
        IN  \A tx \in ToSet(ledger[listed[c][i].slot]) :
              tx.id = entry.hash /\ entry.whole /\ entry.ok /\ t # Nothing /\ OneAccountEach(tx)
              => \/ /\ t.amount > 0 /\ Net(tx, <<t.to, t.mint>>) = t.amount
                 \/ \E k \in DOMAIN tx.instructions :
                       LET s == tx.instructions[k]
                       IN  IsTransfer(s) /\ t = Transfer(s.from, s.to, s.mint, s.amount)

\* What a caller sends for one envelope does not spoil another: a transaction
\* that is reported as assembled, of whose envelope every signature was labelled
\* truly, verifies, in whatever order they came, repeated, without a key or
\* mixed with the wrong ones of other envelopes.  A wrong label is not noticed
\* before the node: what is reported sent was taken there, and verified.
SignedByItsSigners ==
    \A c \in Callers : \A i \in DOMAIN signed[c] :
        LET tx == signed[c][i]
        IN  /\ tx.success /\ tx.labelled => Verifies(tx)
            /\ i \in DOMAIN told[c] /\ told[c][i] = "sent" =>
                  tx.success /\ Verifies(tx) /\ tx.env \in known

\* No goroutine waits forever for a place, a tick or a channel: every call
\* comes to its end, with or without its deadline.
EveryCallEnds == \A c \in Callers : <>(step[c] \in {"done", "error", "panic"})

=============================================================================
