--------------------------- MODULE SponsoredSend ---------------------------
(***************************************************************************)
(* The sponsored transfer of the BNB adaptor (chain/bnbchain/bnb_aa.go):   *)
(* every call of SendSponsoredTransfer is a goroutine of the gRPC server;  *)
(* under sponsorSendMu it checks the user's authorization nonce, quotes    *)
(* the fees and then, up to three times, reads the sponsor's nonce, signs  *)
(* an outer transaction and hands it to the node.  The node, the chain,    *)
(* the users' wallets and other holders of the sponsor key are external;   *)
(* Faults says which of the things they may do are allowed.                *)
(***************************************************************************)
EXTENDS GasFees, Sequences

CONSTANTS
    Requests,      \* calls of the endpoint
    Senders,       \* the users' accounts
    SenderOf,      \* the account each request transfers from
    Markets,       \* the fee quotes the node may give
    Faults,        \* subset of FaultKinds
    MaxUserNonce,  \* bound: ordinary transactions of a user stop at this nonce
    MaxForeign,    \* bound: foreign transactions stop at this queue length
    NoRequest      \* stands for "nobody"

FaultKinds == {"stale_view", "dup_delivery", "late_delivery", "shared_key"}

ASSUME ConstantsAssumption ==
    /\ SenderOf \in [Requests -> Senders]
    /\ Markets \subseteq MarketQuotes
    /\ Faults \subseteq FaultKinds
    /\ MaxUserNonce \in Nat
    /\ MaxForeign \in Nat
    /\ NoRequest \notin Requests

MaxSendAttempts == 3

VARIABLES
    pc,         \* where each call is
    op,         \* the user operation of each call
    attempt,    \* its loop counter
    fee,        \* its current fees
    nonce,      \* the sponsor nonce it read last
    reply,      \* what its client was told
    holder,     \* who holds sponsorSendMu
    ledger,     \* the sponsor's transactions at the node, by nonce
    gapped,     \* those the node parked because their nonce leaves a gap
    mined,      \* how many of ledger are in blocks
    wire,       \* transactions the node will receive late
    userNonce,  \* the account nonce of each user
    turn        \* history: how many were mined when a call got the mutex

callVars  == <<pc, op, attempt, fee, nonce, reply, holder, turn>>
nodeVars  == <<ledger, gapped, mined, wire, userNonce>>
vars      == <<callVars, nodeVars>>

-----------------------------------------------------------------------------
\* Data

\* A user operation: the request it was built for, which stands for its
\* call data and hash, and the authorization nonce the user signed.
UserOps == [by : Requests, authNonce : Nat]
NoOp    == [by |-> NoRequest, authNonce |-> 0]

\* The transaction of a foreign holder of the sponsor key carries NoOp.
Transactions ==
    [req : Requests \cup {NoRequest}, op : UserOps \cup {NoOp},
     nonce : Nat, fee : FeePairs, attempt : 0..MaxSendAttempts - 1]

NoFee == [tip |-> 0, cap |-> 0]

\* The transaction FinalizeAndSignSend builds from the locals of a call.
SignedTransaction(r) ==
    [req |-> r, op |-> op[r], nonce |-> nonce[r], fee |-> fee[r],
     attempt |-> attempt[r]]

SenderOfOp(o) == SenderOf[o.by]

-----------------------------------------------------------------------------
\* The node (external): a geth transaction pool, as far as one account goes.

PendingNonce == Len(ledger)

\* The node replaces a pending transaction for at least 10% more of both fees.
Outbids(new, old) ==
    /\ 100 * new.tip >= 110 * old.tip
    /\ 100 * new.cap >= 110 * old.cap

\* Signing is deterministic, so equal contents are one transaction.
SameTransaction(t, u) == t.op = u.op /\ t.nonce = u.nonce /\ t.fee = u.fee

Slot(t)     == ledger[t.nonce + 1]
Occupied(t) == t.nonce < PendingNonce
Known(t)    == \/ Occupied(t) /\ SameTransaction(t, Slot(t))
               \/ \E u \in gapped : SameTransaction(t, u)

Accepts(t) ==
    /\ t.nonce >= mined
    /\ ~Known(t)
    /\ Occupied(t) => Outbids(t.fee, Slot(t).fee)

\* The error for a transaction the node does not accept.
ConflictError(t) ==
    IF Known(t) THEN "already known"
    ELSE IF t.nonce < mined THEN "nonce too low"
    ELSE "replacement transaction underpriced"

Enqueue(t) ==
    /\ ledger' = IF t.nonce = PendingNonce THEN Append(ledger, t)
                 ELSE IF Occupied(t) THEN [ledger EXCEPT ![t.nonce + 1] = t]
                 ELSE ledger
    /\ gapped' = IF t.nonce > PendingNonce THEN gapped \cup {t} ELSE gapped

\* The pending nonce a node answers: a node behind a load balancer may lag.
NonceViews == IF "stale_view" \in Faults THEN 0..PendingNonce
                                         ELSE {PendingNonce}

UserNonceViews(s) == IF "stale_view" \in Faults THEN 0..userNonce[s]
                                                ELSE {userNonce[s]}

-----------------------------------------------------------------------------
Init ==
    /\ pc = [r \in Requests |-> "idle"]
    /\ op = [r \in Requests |-> NoOp]
    /\ attempt = [r \in Requests |-> 0]
    /\ fee = [r \in Requests |-> NoFee]
    /\ nonce = [r \in Requests |-> 0]
    /\ reply = [r \in Requests |-> "none"]
    /\ holder = NoRequest
    /\ turn = [r \in Requests |-> 0]
    /\ ledger = <<>>
    /\ gapped = {}
    /\ mined = 0
    /\ wire = {}
    /\ userNonce = [s \in Senders |-> 0]

Goto(r, from, to) ==
    /\ pc[r] = from
    /\ pc' = [pc EXCEPT ![r] = to]

\* Every return runs the deferred Unlock of a call that holds the mutex.
Reply(r, answer) ==
    /\ pc' = [pc EXCEPT ![r] = "done"]
    /\ reply' = [reply EXCEPT ![r] = answer]
    /\ holder' = IF holder = r THEN NoRequest ELSE holder

-----------------------------------------------------------------------------
\* BuildSponsoredTransfer, and the client's two ways to get an operation.

Build(r) ==
    /\ Goto(r, "idle", "signed")
    /\ \E n \in UserNonceViews(SenderOf[r]) :
           op' = [op EXCEPT ![r] = [by |-> r, authNonce |-> n]]
    /\ UNCHANGED <<attempt, fee, nonce, reply, holder, turn, nodeVars>>

BuildFails(r) ==
    /\ pc[r] = "idle"
    /\ Reply(r, "error")
    /\ UNCHANGED <<op, attempt, fee, nonce, turn, nodeVars>>

\* A client that saw no answer, or did not wait for it, sends what it signed
\* once more.
Resubmit(r, q) ==
    /\ Goto(r, "idle", "signed")
    /\ op[q] # NoOp
    /\ op' = [op EXCEPT ![r] = op[q]]
    /\ UNCHANGED <<attempt, fee, nonce, reply, holder, turn, nodeVars>>

-----------------------------------------------------------------------------
\* SendSponsoredTransfer

\* Configuration, parsing and PreflightSponsoredSend, before the mutex.
Preflight(r) ==
    /\ Goto(r, "signed", "lock")
    /\ UNCHANGED <<op, attempt, fee, nonce, reply, holder, turn, nodeVars>>

PreflightFails(r) ==
    /\ pc[r] = "signed"
    /\ Reply(r, "error")
    /\ UNCHANGED <<op, attempt, fee, nonce, turn, nodeVars>>

\* A slip: a value receiver copies the mutex, and every call locks its own.
LockOwnCopy(r) ==
    /\ Goto(r, "lock", "auth")
    /\ holder' = r
    /\ turn' = [turn EXCEPT ![r] = mined]
    /\ UNCHANGED <<op, attempt, fee, nonce, reply, nodeVars>>

Lock(r) ==
    /\ Goto(r, "lock", "auth")
    /\ holder = NoRequest
    /\ holder' = r
    /\ turn' = [turn EXCEPT ![r] = mined]
    /\ UNCHANGED <<op, attempt, fee, nonce, reply, nodeVars>>

\* A slip: the authorization nonce is read but not compared.
AuthNonceUnchecked(r) ==
    /\ Goto(r, "auth", "fees")
    /\ UNCHANGED <<op, attempt, fee, nonce, reply, holder, turn, nodeVars>>

AuthNonceFresh(r) ==
    /\ Goto(r, "auth", "fees")
    /\ op[r].authNonce \in UserNonceViews(SenderOfOp(op[r]))
    /\ UNCHANGED <<op, attempt, fee, nonce, reply, holder, turn, nodeVars>>

\* Slips: a return without the deferred Unlock.
StaleKeepsMutex(r) ==
    /\ pc[r] = "auth"
    /\ \E n \in UserNonceViews(SenderOfOp(op[r])) : n # op[r].authNonce
    /\ pc' = [pc EXCEPT ![r] = "done"]
    /\ reply' = [reply EXCEPT ![r] = "error"]
    /\ UNCHANGED <<op, attempt, fee, nonce, holder, turn, nodeVars>>

FailureKeepsMutex(r) ==
    /\ pc[r] \in {"auth", "nonce"}
    /\ pc' = [pc EXCEPT ![r] = "done"]
    /\ reply' = [reply EXCEPT ![r] = "error"]
    /\ UNCHANGED <<op, attempt, fee, nonce, holder, turn, nodeVars>>

AuthNonceStale(r) ==
    /\ pc[r] = "auth"
    /\ \E n \in UserNonceViews(SenderOfOp(op[r])) : n # op[r].authNonce
    /\ Reply(r, "error")
    /\ UNCHANGED <<op, attempt, fee, nonce, turn, nodeVars>>

\* Reading a nonce, building or signing the outer transaction fails.
CallFails(r) ==
    /\ pc[r] \in {"auth", "nonce"}
    /\ Reply(r, "error")
    /\ UNCHANGED <<op, attempt, fee, nonce, turn, nodeVars>>

ResolveFees(r) ==
    /\ Goto(r, "fees", "nonce")
    /\ \E quote \in Markets :
           fee' = [fee EXCEPT ![r] = IF quote.gasPrice = QuoteFailed
                                     THEN DefaultEip1559GasFees
                                     ELSE ResolveEip1559GasFees(quote)]
    /\ attempt' = [attempt EXCEPT ![r] = 0]
    /\ UNCHANGED <<op, nonce, reply, holder, turn, nodeVars>>

\* Slips: unlocking once the nonce is known; counting on from a fresh nonce.
UnlockBeforeSend(r) ==
    /\ Goto(r, "nonce", "send")
    /\ \E n \in NonceViews : nonce' = [nonce EXCEPT ![r] = n]
    /\ holder' = NoRequest
    /\ UNCHANGED <<op, attempt, fee, reply, turn, nodeVars>>

SkipAheadOnRetry(r) ==
    /\ Goto(r, "nonce", "send")
    /\ \E n \in NonceViews : nonce' = [nonce EXCEPT ![r] = n + attempt[r]]
    /\ UNCHANGED <<op, attempt, fee, reply, holder, turn, nodeVars>>

\* The head of the loop: bump on a retry, read the sponsor's pending nonce.
PrepareAttempt(r) ==
    /\ Goto(r, "nonce", "send")
    /\ fee' = [fee EXCEPT ![r] = IF attempt[r] > 0
                                 THEN BumpEip1559GasFees(@, attempt[r])
                                 ELSE @]
    /\ \E n \in NonceViews : nonce' = [nonce EXCEPT ![r] = n]
    /\ UNCHANGED <<op, attempt, reply, holder, turn, nodeVars>>

\* A slip: a timeout is taken for "not sent".
TimeoutIsRetryable(err) ==
    err \in {"replacement transaction underpriced", "nonce too low",
            "already known", "timeout"}

IsRetryableSendError(err) ==
    err \in {"replacement transaction underpriced", "nonce too low",
            "already known"}

\* A slip: the retry does not count.
RetryWithoutCounting(r, err) ==
    IF IsRetryableSendError(err) /\ attempt[r] < MaxSendAttempts - 1
    THEN Goto(r, "send", "nonce") /\ UNCHANGED <<reply, holder, attempt>>
    ELSE Reply(r, "error") /\ UNCHANGED attempt

\* The tail of the loop after an error of SendRawTransaction.
AfterSendError(r, err) ==
    IF IsRetryableSendError(err) /\ attempt[r] < MaxSendAttempts - 1
    THEN /\ Goto(r, "send", "nonce")
         /\ attempt' = [attempt EXCEPT ![r] = @ + 1]
         /\ UNCHANGED <<reply, holder>>
    ELSE /\ Reply(r, "error")
         /\ UNCHANGED attempt

SendAccepted(r) ==
    /\ pc[r] = "send"
    /\ Accepts(SignedTransaction(r))
    /\ Enqueue(SignedTransaction(r))
    /\ Reply(r, "success")
    /\ UNCHANGED <<op, attempt, fee, nonce, turn, mined, wire, userNonce>>

\* The transaction conflicts with what the node has.
SendConflicts(r) ==
    /\ pc[r] = "send"
    /\ ~Accepts(SignedTransaction(r))
    /\ AfterSendError(r, ConflictError(SignedTransaction(r)))
    /\ UNCHANGED <<op, fee, nonce, turn, nodeVars>>

\* Any other error of the node or of the connection, before acceptance.
SendRefused(r) ==
    /\ pc[r] = "send"
    /\ AfterSendError(r, "other")
    /\ UNCHANGED <<op, fee, nonce, turn, nodeVars>>

\* The node accepts; the answer does not arrive within the request timeout.
SendAnswerLost(r) ==
    /\ pc[r] = "send"
    /\ Accepts(SignedTransaction(r))
    /\ Enqueue(SignedTransaction(r))
    /\ AfterSendError(r, "timeout")
    /\ UNCHANGED <<op, fee, nonce, turn, mined, wire, userNonce>>

\* A gateway delivers twice; the second answer reaches the client.
SendTwice(r) ==
    /\ "dup_delivery" \in Faults
    /\ pc[r] = "send"
    /\ Accepts(SignedTransaction(r))
    /\ Enqueue(SignedTransaction(r))
    /\ AfterSendError(r, "already known")
    /\ UNCHANGED <<op, fee, nonce, turn, mined, wire, userNonce>>

\* The request times out before the node sees the transaction.
SendDelayed(r) ==
    /\ "late_delivery" \in Faults
    /\ pc[r] = "send"
    /\ wire' = wire \cup {SignedTransaction(r)}
    /\ AfterSendError(r, "timeout")
    /\ UNCHANGED <<op, fee, nonce, turn, ledger, gapped, mined, userNonce>>

-----------------------------------------------------------------------------
\* The environment

DeliverLate(t) ==
    /\ wire' = wire \ {t}
    /\ IF Accepts(t) THEN Enqueue(t) ELSE UNCHANGED <<ledger, gapped>>
    /\ UNCHANGED <<callVars, mined, userNonce>>

\* A block takes the next transaction.  Its authorization counts only while
\* it carries the user's current nonce, and then consumes it.
Mine ==
    /\ mined < Len(ledger)
    /\ mined' = mined + 1
    /\ LET t == ledger[mined + 1]
           s == SenderOfOp(t.op)
       IN  userNonce' = IF t.op # NoOp /\ t.op.authNonce = userNonce[s]
                        THEN [userNonce EXCEPT ![s] = @ + 1]
                        ELSE userNonce
    /\ UNCHANGED <<callVars, ledger, gapped, wire>>

UserTransaction(s) ==
    /\ userNonce[s] < MaxUserNonce
    /\ userNonce' = [userNonce EXCEPT ![s] = @ + 1]
    /\ UNCHANGED <<callVars, ledger, gapped, mined, wire>>

\* Another process with the sponsor key, for example a second replica.
ForeignTransaction ==
    /\ "shared_key" \in Faults
    /\ PendingNonce < MaxForeign
    /\ Enqueue([req |-> NoRequest, op |-> NoOp, nonce |-> PendingNonce,
                fee |-> DefaultEip1559GasFees, attempt |-> 0])
    /\ UNCHANGED <<callVars, mined, wire, userNonce>>

\* Every call is answered: the only state without a call in progress that
\* need not go on.
AllAnswered ==
    /\ \A r \in Requests : pc[r] = "done"
    /\ UNCHANGED vars

Client(r) == Build(r) \/ BuildFails(r) \/ \E q \in Requests : Resubmit(r, q)

Serve(r) ==
    \/ Preflight(r)
    \/ PreflightFails(r)
    \/ Lock(r)
    \/ AuthNonceFresh(r)
    \/ AuthNonceStale(r)
    \/ CallFails(r)
    \/ ResolveFees(r)
    \/ PrepareAttempt(r)
    \/ SendAccepted(r)
    \/ SendConflicts(r)
    \/ SendRefused(r)
    \/ SendAnswerLost(r)
    \/ SendTwice(r)
    \/ SendDelayed(r)

Environment ==
    \/ \E t \in wire : DeliverLate(t)
    \/ Mine
    \/ \E s \in Senders : UserTransaction(s)
    \/ ForeignTransaction

Next ==
    \/ \E r \in Requests : Client(r) \/ Serve(r)
    \/ Environment
    \/ AllAnswered

Spec == Init /\ [][Next]_vars

\* Every call of the node has a ten-second timeout and a waiting Lock is
\* served, so a call that has been made keeps moving.  Clients, users, miners
\* and late packets owe nothing.
Fairness == \A r \in Requests : WF_vars(Serve(r))

FairSpec == Spec /\ Fairness

-----------------------------------------------------------------------------
\* Properties

PCs == {"idle", "signed", "lock", "auth", "fees", "nonce", "send", "done"}

\* Where a call holds the mutex, where it has fees, where it has a nonce.
Critical == {"auth", "fees", "nonce", "send"}

\* Types.  A call that may send has a positive tip and a cap that covers it.
TypeOK ==
    /\ pc \in [Requests -> PCs]
    /\ op \in [Requests -> UserOps \cup {NoOp}]
    /\ attempt \in [Requests -> 0..MaxSendAttempts - 1]
    /\ fee \in [Requests -> FeePairs \cup {NoFee}]
    /\ nonce \in [Requests -> Nat]
    /\ reply \in [Requests -> {"none", "success", "error"}]
    /\ holder \in Requests \cup {NoRequest}
    /\ turn \in [Requests -> Nat]
    /\ ledger \in Seq(Transactions)
    /\ gapped \in SUBSET Transactions
    /\ mined \in 0..Len(ledger)
    /\ wire \in SUBSET Transactions
    /\ userNonce \in [Senders -> Nat]
    /\ \A r \in Requests :
          /\ pc[r] \notin {"idle", "done"} => op[r] \in UserOps
          /\ pc[r] \in {"nonce", "send"} => fee[r] \in FeePairs

\* The mutex is held by exactly the call between Lock and its answer, and a
\* call is answered exactly when it has ended: no return path of
\* SendSponsoredTransfer leaves the mutex locked or a client without a word.
LockDiscipline ==
    /\ \A r \in Requests : pc[r] \in Critical <=> holder = r
    /\ \A r \in Requests : pc[r] = "done" <=> reply[r] # "none"

\* What sponsorSendMu is for: the sponsor nonce a call is about to use is
\* still the next one, however the other calls and the miner interleave with
\* the read and the send.
NonceFresh ==
    \A r \in Requests : pc[r] = "send" => nonce[r] = PendingNonce

\* A client that was told "success" is right for good: its transaction stays
\* at the node, no other call ever takes its nonce.
SuccessStays ==
    \A r \in Requests :
        reply[r] = "success" => \E i \in 1..Len(ledger) : ledger[i].req = r

\* The queue of the sponsor has no holes, whatever the node shows or loses:
\* a transaction parked behind a missing nonce would stop the sponsor for
\* everyone.
NoNonceGap ==
    /\ gapped = {}
    /\ \A i \in 1..Len(ledger) : ledger[i].nonce = i - 1

\* The authorization check is made while holding the mutex and so sees what
\* earlier holders caused: once a transaction with a user's authorization
\* nonce is in a block, a call that gets the mutex afterwards never pays for
\* a second one.
NoResendAfterMined ==
    \A i, j \in 1..Len(ledger) :
        /\ i < j
        /\ ledger[i].op # NoOp /\ ledger[j].op # NoOp
        /\ SenderOfOp(ledger[i].op) = SenderOfOp(ledger[j].op)
        /\ ledger[i].op.authNonce = ledger[j].op.authNonce
        => i > turn[ledger[j].req]

\* However often deliveries are repeated, delayed or answered from a stale
\* view, the sponsor pays at most once for each turn of a call's loop: the
\* transactions of one call carry different attempts.
PaidOncePerAttempt ==
    \A i, j \in 1..Len(ledger) :
        /\ i # j
        /\ ledger[i].req = ledger[j].req
        /\ ledger[i].req # NoRequest
        => ledger[i].attempt # ledger[j].attempt

\* A resubmission is worth its call: its fees beat those of the attempt
\* before by what a node asks of a replacement.
ResubmissionOutbids ==
    [][\A r \in Requests :
          pc[r] = "nonce" /\ pc'[r] = "send" /\ attempt[r] > 0
              => Outbids(fee'[r], fee[r])]_vars

\* send_retry.go calls its three errors "nonce/gas conflicts that can be
\* retried with fresh nonce or higher fees": a call that goes round its loop
\* again has nothing at the node yet.
RetryHasNothingAccepted ==
    [][\A r \in Requests :
          attempt'[r] > attempt[r]
              => \A i \in 1..Len(ledger') : ledger'[i].req # r]_vars

\* send_retry.go: BumpEip1559GasFees "increases tip and max fee for
\* resubmission attempts".
BumpIncreases ==
    [][\A r \in Requests :
          pc[r] = "nonce" /\ pc'[r] = "send" /\ attempt[r] > 0
              => fee'[r].tip > fee[r].tip /\ fee'[r].cap > fee[r].cap]_vars

\* Every call that was made is answered, whoever holds the mutex before it
\* and however many of its attempts fail.
EveryCallAnswered ==
    \A r \in Requests : pc[r] = "signed" ~> pc[r] = "done"

\* With a consistent node the endpoint is the queue it promises to be.
Queue == INSTANCE SponsorQueue
         WITH queue <- [i \in 1..Len(ledger) |-> ledger[i].req],
              answer <- reply

ImplementsQueue == Queue!Spec

=============================================================================
