------------------------ MODULE SponsoredSendProofs ------------------------
(***************************************************************************)
(* Theorems about SponsoredSend for every number of calls, users, quotes   *)
(* and transactions.                                                       *)
(***************************************************************************)
EXTENDS SponsoredSend, GasFeesProofs

-----------------------------------------------------------------------------
\* Fees

\* A bump of acceptable fees gives acceptable fees.
LEMMA BumpedIsFeePair ==
  ASSUME NEW f \in FeePairs, NEW a \in 0..MaxSendAttempts - 1
  PROVE  BumpEip1559GasFees(f, a) \in FeePairs
  <1>1. /\ f.tip \in Nat /\ f.cap \in Nat
        /\ a \in {0, 1, 2}
    BY DEF FeePairs, MaxSendAttempts
  <1>2. CASE a = 0
    BY <1>1, <1>2 DEF BumpEip1559GasFees, FeePairs, AtLeast
  <1>3. CASE a = 1
    BY <1>1, <1>3 DEF BumpEip1559GasFees, FeePairs, AtLeast
  <1>4. CASE a = 2
    BY <1>1, <1>4 DEF BumpEip1559GasFees, FeePairs, AtLeast
  <1>5. QED
    BY <1>1, <1>2, <1>3, <1>4

\* From a tip of three units on, every bump satisfies the ten per cent a node
\* asks of a replacement; below, the truncating division can leave the tip
\* as it was.
LEMMA BumpOutbids ==
  ASSUME NEW f \in FeePairs, f.tip >= 3, NEW a \in 1..MaxSendAttempts - 1
  PROVE  /\ Outbids(BumpEip1559GasFees(f, a), f)
         /\ BumpEip1559GasFees(f, a).tip >= 3
  <1>1. /\ f.tip \in Nat /\ f.cap \in Nat /\ f.cap >= 3
        /\ a \in {1, 2}
    BY DEF FeePairs, MaxSendAttempts
  <1>2. CASE a = 1
    BY <1>1, <1>2 DEF BumpEip1559GasFees, Outbids, AtLeast
  <1>3. CASE a = 2
    BY <1>1, <1>3 DEF BumpEip1559GasFees, Outbids, AtLeast
  <1>4. QED
    BY <1>1, <1>2, <1>3

-----------------------------------------------------------------------------
\* Types

\* The transaction a call is about to send is a transaction.
LEMMA SignedType ==
  ASSUME TypeOK, NEW r \in Requests, pc[r] = "send"
  PROVE  SignedTransaction(r) \in Transactions
  BY DEF TypeOK, SignedTransaction, Transactions, MaxSendAttempts

\* Taking a transaction keeps the node's data well formed, and its queue
\* never gets shorter.
LEMMA EnqueueType ==
  ASSUME TypeOK, NEW t \in Transactions, Enqueue(t)
  PROVE  /\ ledger' \in Seq(Transactions)
         /\ gapped' \in SUBSET Transactions
         /\ Len(ledger') \in Nat
         /\ Len(ledger') >= Len(ledger)
  <1>1. /\ ledger \in Seq(Transactions)
        /\ t.nonce \in Nat
        /\ gapped \in SUBSET Transactions
    BY DEF TypeOK, Transactions
  <1>2. CASE t.nonce = PendingNonce
    BY <1>1, <1>2 DEF Enqueue, PendingNonce
  <1>3. CASE t.nonce # PendingNonce /\ Occupied(t)
    <2>1. ledger' = [ledger EXCEPT ![t.nonce + 1] = t]
      BY <1>3 DEF Enqueue
    <2>2. t.nonce + 1 \in 1..Len(ledger)
      BY <1>1, <1>3 DEF Occupied, PendingNonce
    <2>3. QED
      BY <1>1, <1>3, <2>1, <2>2 DEF Enqueue, PendingNonce, Occupied
  <1>4. CASE t.nonce # PendingNonce /\ ~Occupied(t)
    BY <1>1, <1>4 DEF Enqueue
  <1>5. QED
    BY <1>2, <1>3, <1>4

\* The node shows natural numbers, stale or not.
LEMMA ViewsType ==
  ASSUME TypeOK
  PROVE  /\ NonceViews \subseteq Nat
         /\ \A s \in Senders : UserNonceViews(s) \subseteq Nat
  <1>1. /\ PendingNonce \in Nat
        /\ \A s \in Senders : userNonce[s] \in Nat
    BY DEF TypeOK, PendingNonce
  <1>2. QED
    BY <1>1 DEF NonceViews, UserNonceViews

\* After an error a call either goes round the loop again or is answered.
LEMMA AfterSendErrorType ==
  ASSUME TypeOK, NEW r \in Requests, NEW err, AfterSendError(r, err)
  PROVE  /\ \E p \in {"nonce", "done"} : pc' = [pc EXCEPT ![r] = p]
         /\ attempt' \in [Requests -> 0..MaxSendAttempts - 1]
         /\ reply' \in [Requests -> {"none", "success", "error"}]
         /\ holder' \in Requests \cup {NoRequest}
  <1>1. CASE IsRetryableSendError(err) /\ attempt[r] < MaxSendAttempts - 1
    <2>1. /\ pc' = [pc EXCEPT ![r] = "nonce"]
          /\ attempt' = [attempt EXCEPT ![r] = attempt[r] + 1]
          /\ reply' = reply /\ holder' = holder
      BY <1>1 DEF AfterSendError, Goto
    <2>2. attempt \in [Requests -> 0..2] /\ attempt[r] < 2
      BY <1>1 DEF TypeOK, MaxSendAttempts
    <2>3. attempt' \in [Requests -> 0..MaxSendAttempts - 1]
      BY <2>1, <2>2 DEF MaxSendAttempts
    <2>4. QED
      BY <2>1, <2>3 DEF TypeOK
  <1>2. CASE ~(IsRetryableSendError(err) /\ attempt[r] < MaxSendAttempts - 1)
    <2>1. /\ pc' = [pc EXCEPT ![r] = "done"]
          /\ attempt' = attempt
          /\ reply' = [reply EXCEPT ![r] = "error"]
          /\ holder' = IF holder = r THEN NoRequest ELSE holder
      BY <1>2 DEF AfterSendError, Reply
    <2>2. QED
      BY <2>1 DEF TypeOK
  <1>3. QED
    BY <1>1, <1>2

\* Every step keeps the types: nonces stay natural numbers, fees are real
\* fees whenever a transaction may be signed, the loop counter stays below
\* the limit of three.
LEMMA TypeOKStep == TypeOK /\ [Next]_vars => TypeOK'
  <1> SUFFICES ASSUME TypeOK, [Next]_vars
               PROVE  TypeOK'
    OBVIOUS
  <1> USE ConstantsAssumption
  <1>1. ASSUME NEW r \in Requests, Build(r)
        PROVE  TypeOK'
    <2>1. \E n \in Nat : op' = [op EXCEPT ![r] = [by |-> r, authNonce |-> n]]
      BY <1>1, ViewsType DEF Build
    <2>2. QED
      BY <1>1, <2>1 DEF Build, Goto, TypeOK, PCs, UserOps, nodeVars
  <1>2. ASSUME NEW r \in Requests, BuildFails(r)
        PROVE  TypeOK'
    BY <1>2 DEF BuildFails, Reply, TypeOK, PCs, nodeVars
  <1>3. ASSUME NEW r \in Requests, NEW q \in Requests, Resubmit(r, q)
        PROVE  TypeOK'
    BY <1>3 DEF Resubmit, Goto, TypeOK, PCs, nodeVars
  <1>4. ASSUME NEW r \in Requests, Preflight(r)
        PROVE  TypeOK'
    BY <1>4 DEF Preflight, Goto, TypeOK, PCs, nodeVars
  <1>5. ASSUME NEW r \in Requests, PreflightFails(r)
        PROVE  TypeOK'
    BY <1>5 DEF PreflightFails, Reply, TypeOK, PCs, nodeVars
  <1>6. ASSUME NEW r \in Requests, Lock(r)
        PROVE  TypeOK'
    BY <1>6 DEF Lock, Goto, TypeOK, PCs, nodeVars
  <1>7. ASSUME NEW r \in Requests, AuthNonceFresh(r)
        PROVE  TypeOK'
    BY <1>7 DEF AuthNonceFresh, Goto, TypeOK, PCs, nodeVars
  <1>8. ASSUME NEW r \in Requests, AuthNonceStale(r)
        PROVE  TypeOK'
    BY <1>8 DEF AuthNonceStale, Reply, TypeOK, PCs, nodeVars
  <1>9. ASSUME NEW r \in Requests, CallFails(r)
        PROVE  TypeOK'
    BY <1>9 DEF CallFails, Reply, TypeOK, PCs, nodeVars
  <1>10. ASSUME NEW r \in Requests, ResolveFees(r)
         PROVE  TypeOK'
    <2>1. \E f \in FeePairs : fee' = [fee EXCEPT ![r] = f]
      BY <1>10, DefaultIsFeePair, ResolvedIsFeePair DEF ResolveFees
    <2>2. QED
      BY <1>10, <2>1
         DEF ResolveFees, Goto, TypeOK, PCs, nodeVars, MaxSendAttempts
  <1>11. ASSUME NEW r \in Requests, PrepareAttempt(r)
         PROVE  TypeOK'
    <2>1. fee[r] \in FeePairs /\ attempt[r] \in 0..MaxSendAttempts - 1
      BY <1>11 DEF PrepareAttempt, Goto, TypeOK
    <2>2. \E f \in FeePairs : fee' = [fee EXCEPT ![r] = f]
      BY <1>11, <2>1, BumpedIsFeePair DEF PrepareAttempt, TypeOK
    <2>3. \E n \in Nat : nonce' = [nonce EXCEPT ![r] = n]
      BY <1>11, ViewsType DEF PrepareAttempt
    <2>4. QED
      BY <1>11, <2>2, <2>3 DEF PrepareAttempt, Goto, TypeOK, PCs, nodeVars
  <1>12. ASSUME NEW r \in Requests, SendAccepted(r)
         PROVE  TypeOK'
    <2>1. /\ SignedTransaction(r) \in Transactions
          /\ Enqueue(SignedTransaction(r))
      BY <1>12, SignedType DEF SendAccepted
    <2>2. /\ ledger' \in Seq(Transactions)
          /\ gapped' \in SUBSET Transactions
          /\ mined \in 0..Len(ledger')
      BY <2>1, EnqueueType DEF TypeOK
    <2>3. QED
      BY <1>12, <2>2 DEF SendAccepted, Reply, TypeOK, PCs
  <1>13. ASSUME NEW r \in Requests, SendConflicts(r)
         PROVE  TypeOK'
    BY <1>13, AfterSendErrorType DEF SendConflicts, TypeOK, PCs, nodeVars
  <1>14. ASSUME NEW r \in Requests, SendRefused(r)
         PROVE  TypeOK'
    BY <1>14, AfterSendErrorType DEF SendRefused, TypeOK, PCs, nodeVars
  <1>15. ASSUME NEW r \in Requests, SendAnswerLost(r)
         PROVE  TypeOK'
    <2>1. /\ SignedTransaction(r) \in Transactions
          /\ Enqueue(SignedTransaction(r))
      BY <1>15, SignedType DEF SendAnswerLost
    <2>2. /\ ledger' \in Seq(Transactions)
          /\ gapped' \in SUBSET Transactions
          /\ mined \in 0..Len(ledger')
      BY <2>1, EnqueueType DEF TypeOK
    <2>3. QED
      BY <1>15, <2>2, AfterSendErrorType DEF SendAnswerLost, TypeOK, PCs
  <1>16. ASSUME NEW r \in Requests, SendTwice(r)
         PROVE  TypeOK'
    <2>1. /\ SignedTransaction(r) \in Transactions
          /\ Enqueue(SignedTransaction(r))
      BY <1>16, SignedType DEF SendTwice
    <2>2. /\ ledger' \in Seq(Transactions)
          /\ gapped' \in SUBSET Transactions
          /\ mined \in 0..Len(ledger')
      BY <2>1, EnqueueType DEF TypeOK
    <2>3. QED
      BY <1>16, <2>2, AfterSendErrorType DEF SendTwice, TypeOK, PCs
  <1>17. ASSUME NEW r \in Requests, SendDelayed(r)
         PROVE  TypeOK'
    <2>1. wire' \in SUBSET Transactions
      BY <1>17, SignedType DEF SendDelayed, TypeOK
    <2>2. QED
      BY <1>17, <2>1, AfterSendErrorType DEF SendDelayed, TypeOK, PCs
  <1>18. ASSUME NEW t \in wire, DeliverLate(t)
         PROVE  TypeOK'
    <2>1. /\ ledger' \in Seq(Transactions)
          /\ gapped' \in SUBSET Transactions
          /\ mined \in 0..Len(ledger')
      BY <1>18, EnqueueType DEF DeliverLate, TypeOK
    <2>2. QED
      BY <1>18, <2>1 DEF DeliverLate, TypeOK, callVars
  <1>19. CASE Mine
    <2>1. userNonce' \in [Senders -> Nat]
      <3> DEFINE s == SenderOfOp(ledger[mined + 1].op)
      <3>1. \/ userNonce' = userNonce
            \/ userNonce' = [userNonce EXCEPT ![s] = userNonce[s] + 1]
        BY <1>19 DEF Mine
      <3> HIDE DEF s
      <3>2. userNonce \in [Senders -> Nat]
        BY DEF TypeOK
      <3>3. QED
        BY <3>1, <3>2
    <2>2. mined' \in 0..Len(ledger)
      BY <1>19 DEF Mine, TypeOK
    <2>3. QED
      BY <1>19, <2>1, <2>2 DEF Mine, TypeOK, callVars
  <1>20. ASSUME NEW s \in Senders, UserTransaction(s)
         PROVE  TypeOK'
    BY <1>20 DEF UserTransaction, TypeOK, callVars
  <1>21. CASE ForeignTransaction
    <2> DEFINE t == [req |-> NoRequest, op |-> NoOp, nonce |-> PendingNonce,
                     fee |-> DefaultEip1559GasFees, attempt |-> 0]
    <2>1. t \in Transactions
      BY DefaultIsFeePair DEF Transactions, PendingNonce, TypeOK, MaxSendAttempts
    <2>2. Enqueue(t)
      BY <1>21 DEF ForeignTransaction
    <2> HIDE DEF t
    <2>3. /\ ledger' \in Seq(Transactions)
          /\ gapped' \in SUBSET Transactions
          /\ mined \in 0..Len(ledger')
      BY <2>1, <2>2, EnqueueType DEF TypeOK
    <2>4. QED
      BY <1>21, <2>3 DEF ForeignTransaction, TypeOK, callVars
  <1>22. CASE UNCHANGED vars
    BY <1>22 DEF TypeOK, vars, callVars, nodeVars
  <1>23. QED
    BY <1>1, <1>2, <1>3, <1>4, <1>5, <1>6, <1>7, <1>8, <1>9, <1>10, <1>11,
       <1>12, <1>13, <1>14, <1>15, <1>16, <1>17, <1>18, <1>19, <1>20, <1>21,
       <1>22
       DEF Next, Client, Serve, Environment, AllAnswered

\* The types hold in every state of every execution.
THEOREM TypeCorrect == Spec => []TypeOK
  <1>1. Init => TypeOK
    BY ConstantsAssumption
       DEF Init, TypeOK, PCs, MaxSendAttempts, UserOps, NoOp, NoFee
  <1>2. QED
    BY <1>1, TypeOKStep, PTL DEF Spec

-----------------------------------------------------------------------------
\* The mutex

\* Moving on inside or outside the critical section.
LEMMA GotoKeepsLock ==
  ASSUME TypeOK, LockDiscipline, NEW r \in Requests, NEW from, NEW to,
         Goto(r, from, to), from \in Critical <=> to \in Critical,
         from # "done", to # "done", UNCHANGED <<reply, holder>>
  PROVE  LockDiscipline'
  BY DEF TypeOK, LockDiscipline, Goto

\* An answer gives up the mutex if its call holds it.
LEMMA ReplyKeepsLock ==
  ASSUME TypeOK, LockDiscipline, NEW r \in Requests,
         NEW a \in {"success", "error"}, Reply(r, a)
  PROVE  LockDiscipline'
  BY ConstantsAssumption DEF TypeOK, LockDiscipline, Reply, Critical

\* An error of the send keeps the mutex for the next turn of the loop or gives
\* it up with the answer.
LEMMA SendErrorKeepsLock ==
  ASSUME TypeOK, LockDiscipline, NEW r \in Requests, NEW err,
         pc[r] = "send", AfterSendError(r, err)
  PROVE  LockDiscipline'
  BY GotoKeepsLock, ReplyKeepsLock DEF AfterSendError, Critical

\* Every step of the endpoint and of its environment keeps LockDiscipline.
LEMMA LockDisciplineStep ==
  TypeOK /\ LockDiscipline /\ [Next]_vars => LockDiscipline'
  <1> SUFFICES ASSUME TypeOK, LockDiscipline, [Next]_vars
               PROVE  LockDiscipline'
    OBVIOUS
  <1>1. ASSUME NEW r \in Requests, Client(r)
        PROVE  LockDiscipline'
    BY <1>1, GotoKeepsLock, ReplyKeepsLock
       DEF Client, Build, BuildFails, Resubmit, Critical
  <1>2. ASSUME NEW r \in Requests, Lock(r)
        PROVE  LockDiscipline'
    BY <1>2, ConstantsAssumption
       DEF Lock, Goto, TypeOK, LockDiscipline, Critical
  <1>3. ASSUME NEW r \in Requests,
               \/ Preflight(r)
               \/ AuthNonceFresh(r)
               \/ ResolveFees(r)
               \/ PrepareAttempt(r)
        PROVE  LockDiscipline'
    BY <1>3, GotoKeepsLock
       DEF Preflight, AuthNonceFresh, ResolveFees, PrepareAttempt, Critical
  <1>4. ASSUME NEW r \in Requests,
               \/ PreflightFails(r)
               \/ AuthNonceStale(r)
               \/ CallFails(r)
               \/ SendAccepted(r)
        PROVE  LockDiscipline'
    BY <1>4, ReplyKeepsLock
       DEF PreflightFails, AuthNonceStale, CallFails, SendAccepted
  <1>5. ASSUME NEW r \in Requests,
               \/ SendConflicts(r)
               \/ SendRefused(r)
               \/ SendAnswerLost(r)
               \/ SendTwice(r)
               \/ SendDelayed(r)
        PROVE  LockDiscipline'
    BY <1>5, SendErrorKeepsLock
       DEF SendConflicts, SendRefused, SendAnswerLost, SendTwice, SendDelayed
  <1>6. CASE UNCHANGED callVars
    BY <1>6 DEF callVars, LockDiscipline
  <1>7. QED
    BY <1>1, <1>2, <1>3, <1>4, <1>5, <1>6
       DEF Next, Serve, Environment, AllAnswered, vars, DeliverLate, Mine,
           UserTransaction, ForeignTransaction

\* In every execution the mutex is held by exactly the call that is between
\* its Lock and its answer, and every answer ends a call.
THEOREM LockSafety == Spec => []LockDiscipline
  <1>1. Init => LockDiscipline
    BY ConstantsAssumption DEF Init, LockDiscipline, Critical
  <1>2. QED
    BY <1>1, LockDisciplineStep, TypeCorrect, PTL DEF Spec

-----------------------------------------------------------------------------
\* The sponsor's queue has no holes

\* NoNonceGap with what makes it inductive: no nonce in the hands of a call
\* or on the wire is beyond the next one.
GapInv ==
    /\ NoNonceGap
    /\ \A r \in Requests : pc[r] = "send" => nonce[r] <= Len(ledger)
    /\ \A t \in wire : t.nonce <= Len(ledger)

\* A transaction whose nonce is at most the next one extends the queue or
\* replaces an entry; it is never parked.
LEMMA EnqueueKeepsOrder ==
  ASSUME TypeOK, NoNonceGap, NEW t \in Transactions,
         t.nonce <= Len(ledger), Enqueue(t)
  PROVE  /\ NoNonceGap'
         /\ \/ t.nonce = Len(ledger) /\ ledger' = Append(ledger, t)
            \/ /\ t.nonce < Len(ledger)
               /\ ledger' = [ledger EXCEPT ![t.nonce + 1] = t]
  <1>1. /\ ledger \in Seq(Transactions)
        /\ Len(ledger) \in Nat
        /\ t.nonce \in Nat
    BY DEF TypeOK, Transactions
  <1>2. gapped' = {}
    BY <1>1 DEF Enqueue, NoNonceGap, PendingNonce
  <1>3. CASE t.nonce = Len(ledger)
    <2>1. ledger' = Append(ledger, t)
      BY <1>3 DEF Enqueue, PendingNonce
    <2>2. \A i \in 1..Len(ledger') : ledger'[i].nonce = i - 1
      BY <1>1, <1>3, <2>1 DEF NoNonceGap
    <2>3. QED
      BY <1>2, <1>3, <2>1, <2>2 DEF NoNonceGap
  <1>4. CASE t.nonce < Len(ledger)
    <2>1. ledger' = [ledger EXCEPT ![t.nonce + 1] = t]
      BY <1>1, <1>4 DEF Enqueue, PendingNonce, Occupied
    <2>2. t.nonce + 1 \in 1..Len(ledger)
      BY <1>1, <1>4
    <2>3. Len(ledger') = Len(ledger)
      BY <1>1, <2>1, <2>2
    <2>4. \A i \in 1..Len(ledger') : ledger'[i].nonce = i - 1
      BY <1>1, <2>1, <2>2, <2>3 DEF NoNonceGap
    <2>5. QED
      BY <1>2, <1>4, <2>1, <2>4 DEF NoNonceGap
  <1>5. QED
    BY <1>1, <1>3, <1>4

\* Steps that leave the node alone and bring no call closer to sending.
LEMMA GapFrame ==
  ASSUME GapInv, UNCHANGED <<ledger, gapped, nonce, wire>>,
         \A q \in Requests : pc'[q] = "send" => pc[q] = "send"
  PROVE  GapInv'
  BY DEF GapInv, NoNonceGap

\* Taking a transaction with an acceptable nonce, whatever its call does next.
LEMMA GapEnqueue ==
  ASSUME TypeOK, GapInv, NEW t \in Transactions, t.nonce <= Len(ledger),
         Enqueue(t), UNCHANGED nonce, wire' \subseteq wire,
         \A q \in Requests : pc'[q] = "send" => pc[q] = "send"
  PROVE  GapInv'
  <1>1. NoNonceGap'
    BY EnqueueKeepsOrder DEF GapInv
  <1>2. /\ Len(ledger) \in Nat /\ Len(ledger') \in Nat
        /\ Len(ledger) <= Len(ledger')
    BY EnqueueType DEF TypeOK
  <1>3. /\ \A r \in Requests : nonce[r] \in Nat
        /\ \A u \in wire : u.nonce \in Nat
    BY DEF TypeOK, Transactions
  <1>4. QED
    BY <1>1, <1>2, <1>3 DEF GapInv

\* How the program counters move, for the steps of a call that is sending.
LEMMA LeavesSend ==
  ASSUME TypeOK, NEW r \in Requests,
         \/ \E a : Reply(r, a)
         \/ \E err : AfterSendError(r, err)
         \/ \E from, to : to # "send" /\ Goto(r, from, to)
  PROVE  \A q \in Requests : pc'[q] = "send" => pc[q] = "send"
  BY DEF TypeOK, Reply, AfterSendError, Goto

\* Every step keeps GapInv, the faults of the node and the network included.
LEMMA GapInvStep == TypeOK /\ GapInv /\ [Next]_vars => GapInv'
  <1> SUFFICES ASSUME TypeOK, GapInv, [Next]_vars
               PROVE  GapInv'
    OBVIOUS
  <1>1. ASSUME NEW r \in Requests, Client(r)
        PROVE  GapInv'
    <2>1. \A q \in Requests : pc'[q] = "send" => pc[q] = "send"
      BY <1>1, LeavesSend DEF Client, Build, BuildFails, Resubmit
    <2>2. QED
      BY <1>1, <2>1, GapFrame
         DEF Client, Build, BuildFails, Resubmit, nodeVars
  <1>2. ASSUME NEW r \in Requests,
               \/ Preflight(r)
               \/ PreflightFails(r)
               \/ Lock(r)
               \/ AuthNonceFresh(r)
               \/ AuthNonceStale(r)
               \/ CallFails(r)
               \/ ResolveFees(r)
               \/ SendConflicts(r)
               \/ SendRefused(r)
        PROVE  GapInv'
    <2>1. \A q \in Requests : pc'[q] = "send" => pc[q] = "send"
      BY <1>2, LeavesSend
         DEF Preflight, PreflightFails, Lock, AuthNonceFresh, AuthNonceStale,
             CallFails, ResolveFees, SendConflicts, SendRefused
    <2>2. QED
      BY <1>2, <2>1, GapFrame
         DEF Preflight, PreflightFails, Lock, AuthNonceFresh, AuthNonceStale,
             CallFails, ResolveFees, SendConflicts, SendRefused, nodeVars
  <1>3. ASSUME NEW r \in Requests, PrepareAttempt(r)
        PROVE  GapInv'
    <2>1. \A n \in NonceViews : n <= Len(ledger)
      BY DEF NonceViews, PendingNonce, TypeOK
    <2>2. \A q \in Requests : pc'[q] = "send" => nonce'[q] <= Len(ledger)
      BY <1>3, <2>1 DEF PrepareAttempt, Goto, GapInv, TypeOK
    <2>3. QED
      BY <1>3, <2>2 DEF PrepareAttempt, GapInv, NoNonceGap, nodeVars
  <1>4. ASSUME NEW r \in Requests,
               SendAccepted(r) \/ SendAnswerLost(r) \/ SendTwice(r)
        PROVE  GapInv'
    <2>1. pc[r] = "send" /\ Enqueue(SignedTransaction(r))
      BY <1>4 DEF SendAccepted, SendAnswerLost, SendTwice
    <2>2. /\ SignedTransaction(r) \in Transactions
          /\ SignedTransaction(r).nonce <= Len(ledger)
      BY <2>1, SignedType DEF GapInv, SignedTransaction
    <2>3. \A q \in Requests : pc'[q] = "send" => pc[q] = "send"
      BY <1>4, LeavesSend DEF SendAccepted, SendAnswerLost, SendTwice
    <2>4. UNCHANGED <<nonce, wire>>
      BY <1>4 DEF SendAccepted, SendAnswerLost, SendTwice
    <2>5. QED
      BY <2>1, <2>2, <2>3, <2>4, GapEnqueue
  <1>5. ASSUME NEW r \in Requests, SendDelayed(r)
        PROVE  GapInv'
    <2>1. SignedTransaction(r).nonce <= Len(ledger)
      BY <1>5 DEF SendDelayed, GapInv, SignedTransaction
    <2>2. \A q \in Requests : pc'[q] = "send" => pc[q] = "send"
      BY <1>5, LeavesSend DEF SendDelayed
    <2>3. QED
      BY <1>5, <2>1, <2>2 DEF SendDelayed, GapInv, NoNonceGap
  <1>6. ASSUME NEW t \in wire, DeliverLate(t)
        PROVE  GapInv'
    <2>1. /\ t \in Transactions /\ t.nonce <= Len(ledger)
          /\ wire' \subseteq wire
          /\ UNCHANGED <<nonce, pc>>
      BY <1>6 DEF DeliverLate, GapInv, TypeOK, callVars
    <2>2. CASE Enqueue(t)
      BY <2>1, <2>2, GapEnqueue
    <2>3. CASE UNCHANGED <<ledger, gapped>>
      BY <2>1, <2>3 DEF GapInv, NoNonceGap
    <2>4. QED
      BY <1>6, <2>2, <2>3 DEF DeliverLate
  <1>7. CASE ForeignTransaction
    <2> DEFINE t == [req |-> NoRequest, op |-> NoOp, nonce |-> PendingNonce,
                     fee |-> DefaultEip1559GasFees, attempt |-> 0]
    <2>1. t \in Transactions /\ t.nonce <= Len(ledger)
      BY DefaultIsFeePair DEF Transactions, PendingNonce, TypeOK, MaxSendAttempts
    <2>2. Enqueue(t) /\ UNCHANGED <<nonce, pc, wire>>
      BY <1>7 DEF ForeignTransaction, callVars
    <2> HIDE DEF t
    <2>3. QED
      BY <2>1, <2>2, GapEnqueue
  <1>8. CASE UNCHANGED <<callVars, ledger, gapped, wire>>
    BY <1>8 DEF callVars, GapInv, NoNonceGap
  <1>9. QED
    BY <1>1, <1>2, <1>3, <1>4, <1>5, <1>6, <1>7, <1>8
       DEF Next, Serve, Environment, AllAnswered, vars, nodeVars, Mine,
           UserTransaction

\* No execution leaves a hole in the sponsor's queue, with every fault of the
\* node and of the network allowed.
THEOREM GapSafety == Spec => []NoNonceGap
  <1>1. Init => GapInv
    BY DEF Init, GapInv, NoNonceGap
  <1>2. GapInv => NoNonceGap
    BY DEF GapInv
  <1>3. QED
    BY <1>1, <1>2, GapInvStep, TypeCorrect, PTL DEF Spec

-----------------------------------------------------------------------------
\* The sponsor pays at most once per attempt

\* The attempts a call at p with loop counter n has behind it: all of them
\* once it is answered.
Spent(p, n, a) ==
    /\ p \in {"nonce", "send", "done"}
    /\ a <= n
    /\ p # "done" => a < n

\* PaidOncePerAttempt with what makes it inductive.  Only a timeout leaves a
\* transaction on the wire, and a timeout ends its call.
PaidInv ==
    /\ PaidOncePerAttempt
    /\ \A i \in 1..Len(ledger) :
          ledger[i].req # NoRequest
             => Spent(pc[ledger[i].req], attempt[ledger[i].req],
                      ledger[i].attempt)
    /\ \A t \in wire :
          /\ t.req \in Requests
          /\ pc[t.req] = "done"
          /\ t.attempt <= attempt[t.req]
          /\ \A u \in wire : u.req = t.req => u = t
          /\ \A i \in 1..Len(ledger) :
                ledger[i].req = t.req => ledger[i].attempt # t.attempt

\* No call un-spends an attempt, and an answered call never moves again.
NothingUnspent ==
    \A q \in Requests :
        /\ \A a \in Nat : Spent(pc[q], attempt[q], a)
                             => Spent(pc'[q], attempt'[q], a)
        /\ pc[q] = "done" => pc'[q] = "done" /\ attempt'[q] = attempt[q]

\* The loop counter is at most two.
LEMMA AttemptType ==
  ASSUME TypeOK
  PROVE  /\ attempt \in [Requests -> 0..2]
         /\ pc \in [Requests -> PCs]
  BY DEF TypeOK, MaxSendAttempts

\* What is in the ledger is well formed.
LEMMA LedgerType ==
  ASSUME TypeOK
  PROVE  \A i \in 1..Len(ledger) :
            /\ ledger[i].req \in Requests \cup {NoRequest}
            /\ ledger[i].attempt \in Nat
  <1>1. ledger \in Seq(Transactions)
    BY DEF TypeOK
  <1>2. \A i \in 1..Len(ledger) : ledger[i] \in Transactions
    BY <1>1
  <1>3. \A t \in Transactions : /\ t.req \in Requests \cup {NoRequest}
                                /\ t.attempt \in Nat
    BY DEF Transactions, MaxSendAttempts
  <1>4. QED
    BY <1>2, <1>3

\* What the node has after it took a transaction.
LEMMA EnqueueContents ==
  ASSUME TypeOK, NEW t \in Transactions, Enqueue(t)
  PROVE  \A i \in 1..Len(ledger') :
            \/ ledger'[i] = t /\ i = t.nonce + 1
            \/ i \in 1..Len(ledger) /\ ledger'[i] = ledger[i]
  <1>1. /\ ledger \in Seq(Transactions)
        /\ Len(ledger) \in Nat
        /\ t.nonce \in Nat
    BY DEF TypeOK, Transactions
  <1>2. CASE t.nonce = Len(ledger)
    BY <1>1, <1>2 DEF Enqueue, PendingNonce
  <1>3. CASE t.nonce < Len(ledger)
    BY <1>1, <1>3 DEF Enqueue, PendingNonce, Occupied
  <1>4. CASE t.nonce > Len(ledger)
    BY <1>1, <1>4 DEF Enqueue, PendingNonce, Occupied
  <1>5. QED
    BY <1>1, <1>2, <1>3, <1>4

\* Steps that leave the node alone.
LEMMA PaidFrame ==
  ASSUME TypeOK, PaidInv, UNCHANGED <<ledger, wire>>, NothingUnspent
  PROVE  PaidInv'
  <1>1. PaidOncePerAttempt'
    BY DEF PaidInv, PaidOncePerAttempt
  <1>2. \A i \in 1..Len(ledger) :
           ledger[i].req # NoRequest
              => Spent(pc'[ledger[i].req], attempt'[ledger[i].req],
                       ledger[i].attempt)
    BY LedgerType DEF PaidInv, NothingUnspent
  <1>3. \A t \in wire : /\ pc'[t.req] = "done"
                        /\ t.attempt <= attempt'[t.req]
    BY DEF PaidInv, NothingUnspent
  <1>4. QED
    BY <1>1, <1>2, <1>3 DEF PaidInv

\* Taking a transaction that nothing at the node or on the wire duplicates.
LEMMA PaidEnqueue ==
  ASSUME TypeOK, PaidInv, NothingUnspent,
         NEW t \in Transactions, Enqueue(t), wire' \subseteq wire,
         t.req # NoRequest =>
            /\ \A i \in 1..Len(ledger) :
                  ledger[i].req = t.req => ledger[i].attempt # t.attempt
            /\ \A u \in wire' : u.req # t.req
            /\ Spent(pc'[t.req], attempt'[t.req], t.attempt)
  PROVE  PaidInv'
  <1>1. \A i \in 1..Len(ledger') :
           \/ ledger'[i] = t /\ i = t.nonce + 1
           \/ i \in 1..Len(ledger) /\ ledger'[i] = ledger[i]
    BY EnqueueContents
  <1>2. PaidOncePerAttempt'
    BY <1>1 DEF PaidInv, PaidOncePerAttempt
  <1>3. \A i \in 1..Len(ledger') :
           ledger'[i].req # NoRequest
              => Spent(pc'[ledger'[i].req], attempt'[ledger'[i].req],
                       ledger'[i].attempt)
    BY <1>1, LedgerType DEF PaidInv, NothingUnspent
  <1>4. \A u \in wire' :
           /\ u.req \in Requests
           /\ pc'[u.req] = "done"
           /\ u.attempt <= attempt'[u.req]
           /\ \A v \in wire' : v.req = u.req => v = u
    BY DEF PaidInv, NothingUnspent
  <1>5. \A u \in wire', i \in 1..Len(ledger') :
           ledger'[i].req = u.req => ledger'[i].attempt # u.attempt
    BY <1>1, ConstantsAssumption DEF PaidInv
  <1>6. QED
    BY <1>2, <1>3, <1>4, <1>5 DEF PaidInv

\* A call that has not ended moves without un-spending: from outside the loop
\* it has spent nothing, inside it only counts up.
LEMMA SpentKept ==
  ASSUME TypeOK, NEW r \in Requests, pc[r] # "done", NEW p,
         pc' = [pc EXCEPT ![r] = p],
         \/ pc[r] \notin {"nonce", "send"}
         \/ p = "send" /\ attempt' = attempt
         \/ p = "done" /\ attempt' = attempt
         \/ p = "nonce" /\ attempt'[r] = attempt[r] + 1,
         \A q \in Requests : q # r => attempt'[q] = attempt[q]
  PROVE  NothingUnspent
  <1>1. /\ pc'[r] = p
        /\ \A q \in Requests : attempt[q] \in Nat
        /\ \A q \in Requests : q # r => pc'[q] = pc[q]
    BY AttemptType
  <1>2. \A a \in Nat : Spent(pc[r], attempt[r], a) => Spent(p, attempt'[r], a)
    BY <1>1 DEF Spent
  <1>3. QED
    BY <1>1, <1>2 DEF NothingUnspent

\* After an error of the send, too.
LEMMA SendErrorSpends ==
  ASSUME TypeOK, NEW r \in Requests, NEW err, pc[r] = "send",
         AfterSendError(r, err)
  PROVE  /\ NothingUnspent
         /\ Spent(pc'[r], attempt'[r], attempt[r])
  <1>1. attempt \in [Requests -> 0..2] /\ pc \in [Requests -> PCs]
    BY AttemptType
  <1>2. CASE IsRetryableSendError(err) /\ attempt[r] < MaxSendAttempts - 1
    <2>1. /\ pc' = [pc EXCEPT ![r] = "nonce"]
          /\ attempt' = [attempt EXCEPT ![r] = attempt[r] + 1]
      BY <1>2 DEF AfterSendError, Goto
    <2>2. /\ pc'[r] = "nonce" /\ attempt'[r] = attempt[r] + 1
          /\ \A q \in Requests : q # r => attempt'[q] = attempt[q]
      BY <1>1, <2>1
    <2>3. Spent(pc'[r], attempt'[r], attempt[r])
      BY <1>1, <2>2 DEF Spent
    <2>4. QED
      BY <2>1, <2>2, <2>3, SpentKept
  <1>3. CASE ~(IsRetryableSendError(err) /\ attempt[r] < MaxSendAttempts - 1)
    <2>1. pc' = [pc EXCEPT ![r] = "done"] /\ attempt' = attempt
      BY <1>3 DEF AfterSendError, Reply
    <2>2. Spent(pc'[r], attempt'[r], attempt[r])
      BY <1>1, <2>1 DEF Spent
    <2>3. QED
      BY <2>1, <2>2, SpentKept
  <1>4. QED
    BY <1>2, <1>3

\* What a call that is about to send has at the node and on the wire.
LEMMA SendingIsNew ==
  ASSUME TypeOK, PaidInv, NEW r \in Requests, pc[r] = "send"
  PROVE  /\ \A i \in 1..Len(ledger) :
               ledger[i].req = r => ledger[i].attempt # attempt[r]
         /\ \A u \in wire : u.req # r
  <1>1. \A i \in 1..Len(ledger) :
           ledger[i].req = r => ledger[i].attempt < attempt[r]
    BY ConstantsAssumption DEF PaidInv, Spent
  <1>2. attempt[r] \in Nat
    BY AttemptType
  <1>3. \A u \in wire : u.req # r
    BY DEF PaidInv
  <1>4. QED
    BY <1>1, <1>2, <1>3, LedgerType

\* Every step keeps PaidInv, the faults of the node and the network included.
LEMMA PaidInvStep == TypeOK /\ PaidInv /\ [Next]_vars => PaidInv'
  <1> SUFFICES ASSUME TypeOK, PaidInv, [Next]_vars
               PROVE  PaidInv'
    OBVIOUS
  <1>1. ASSUME NEW r \in Requests, Client(r)
        PROVE  PaidInv'
    <2>1. /\ pc[r] = "idle"
          /\ \E p : pc' = [pc EXCEPT ![r] = p]
          /\ UNCHANGED <<attempt, ledger, wire>>
      BY <1>1 DEF Client, Build, BuildFails, Resubmit, Goto, Reply, nodeVars
    <2>2. NothingUnspent
      BY <2>1, SpentKept
    <2>3. QED
      BY <2>1, <2>2, PaidFrame
  <1>2. ASSUME NEW r \in Requests,
               \/ Preflight(r)
               \/ PreflightFails(r)
               \/ Lock(r)
               \/ AuthNonceFresh(r)
               \/ AuthNonceStale(r)
               \/ CallFails(r)
               \/ PrepareAttempt(r)
        PROVE  PaidInv'
    <2>1. /\ pc[r] # "done"
          /\ \E p : /\ pc' = [pc EXCEPT ![r] = p]
                    /\ pc[r] \notin {"nonce", "send"} \/ p \in {"send", "done"}
          /\ UNCHANGED <<attempt, ledger, wire>>
      BY <1>2 DEF Preflight, PreflightFails, Lock, AuthNonceFresh,
                  AuthNonceStale, CallFails, PrepareAttempt, Goto, Reply,
                  nodeVars
    <2>2. NothingUnspent
      BY <2>1, SpentKept
    <2>3. QED
      BY <2>1, <2>2, PaidFrame
  <1>3. ASSUME NEW r \in Requests, ResolveFees(r)
        PROVE  PaidInv'
    <2>1. /\ pc[r] = "fees"
          /\ pc' = [pc EXCEPT ![r] = "nonce"]
          /\ \A q \in Requests : q # r => attempt'[q] = attempt[q]
          /\ UNCHANGED <<ledger, wire>>
      BY <1>3 DEF ResolveFees, Goto, TypeOK, nodeVars
    <2>2. NothingUnspent
      BY <2>1, SpentKept
    <2>3. QED
      BY <2>1, <2>2, PaidFrame
  <1>4. ASSUME NEW r \in Requests, SendConflicts(r) \/ SendRefused(r)
        PROVE  PaidInv'
    <2>1. /\ pc[r] = "send"
          /\ \E err : AfterSendError(r, err)
          /\ UNCHANGED <<ledger, wire>>
      BY <1>4 DEF SendConflicts, SendRefused, nodeVars
    <2>2. NothingUnspent
      BY <2>1, SendErrorSpends
    <2>3. QED
      BY <2>1, <2>2, PaidFrame
  <1>5. ASSUME NEW r \in Requests,
               SendAccepted(r) \/ SendAnswerLost(r) \/ SendTwice(r)
        PROVE  PaidInv'
    <2>1. /\ pc[r] = "send"
          /\ Enqueue(SignedTransaction(r))
          /\ wire' = wire
          /\ \/ \E err : AfterSendError(r, err)
             \/ pc' = [pc EXCEPT ![r] = "done"] /\ attempt' = attempt
      BY <1>5 DEF SendAccepted, SendAnswerLost, SendTwice, Reply
    <2>2. /\ NothingUnspent
          /\ Spent(pc'[r], attempt'[r], attempt[r])
      <3>1. CASE \E err : AfterSendError(r, err)
        BY <2>1, <3>1, SendErrorSpends
      <3>2. CASE pc' = [pc EXCEPT ![r] = "done"] /\ attempt' = attempt
        <4>1. NothingUnspent
          BY <2>1, <3>2, SpentKept
        <4>2. attempt[r] \in Nat /\ pc'[r] = "done"
          BY <3>2, AttemptType
        <4>3. QED
          BY <3>2, <4>1, <4>2 DEF Spent
      <3>3. QED
        BY <2>1, <3>1, <3>2
    <2>3. /\ SignedTransaction(r) \in Transactions
          /\ SignedTransaction(r).req = r
          /\ SignedTransaction(r).attempt = attempt[r]
      BY <2>1, SignedType DEF SignedTransaction
    <2>4. /\ \A i \in 1..Len(ledger) :
                ledger[i].req = r => ledger[i].attempt # attempt[r]
          /\ \A u \in wire : u.req # r
      BY <2>1, SendingIsNew
    <2>5. QED
      BY <2>1, <2>2, <2>3, <2>4, PaidEnqueue
  <1>6. ASSUME NEW r \in Requests, SendDelayed(r)
        PROVE  PaidInv'
    <2> DEFINE t == SignedTransaction(r)
    <2>1. /\ pc[r] = "send"
          /\ AfterSendError(r, "timeout")
          /\ wire' = wire \cup {t}
          /\ ledger' = ledger
      BY <1>6 DEF SendDelayed
    <2>2. pc' = [pc EXCEPT ![r] = "done"] /\ attempt' = attempt
      BY <2>1 DEF AfterSendError, IsRetryableSendError, Reply
    <2>3. /\ t.req = r /\ t.attempt = attempt[r]
          /\ pc'[r] = "done" /\ attempt[r] \in Nat
      BY <2>2, AttemptType DEF SignedTransaction
    <2>4. NothingUnspent
      BY <2>1, <2>2, SpentKept
    <2>5. /\ \A i \in 1..Len(ledger) :
                ledger[i].req = r => ledger[i].attempt # attempt[r]
          /\ \A u \in wire : u.req # r
      BY <2>1, SendingIsNew
    <2> HIDE DEF t
    <2>6. PaidOncePerAttempt'
      BY <2>1 DEF PaidInv, PaidOncePerAttempt
    <2>7. \A i \in 1..Len(ledger) :
             ledger[i].req # NoRequest
                => Spent(pc'[ledger[i].req], attempt'[ledger[i].req],
                         ledger[i].attempt)
      BY <2>4, LedgerType DEF PaidInv, NothingUnspent
    <2>8. \A u \in wire' :
             /\ u.req \in Requests
             /\ pc'[u.req] = "done"
             /\ u.attempt <= attempt'[u.req]
             /\ \A v \in wire' : v.req = u.req => v = u
             /\ \A i \in 1..Len(ledger) :
                   ledger[i].req = u.req => ledger[i].attempt # u.attempt
      BY <2>1, <2>2, <2>3, <2>4, <2>5 DEF PaidInv, NothingUnspent
    <2>9. QED
      BY <2>1, <2>6, <2>7, <2>8 DEF PaidInv
  <1>7. ASSUME NEW t \in wire, DeliverLate(t)
        PROVE  PaidInv'
    <2>1. /\ t \in Transactions
          /\ wire' = wire \ {t}
          /\ UNCHANGED <<pc, attempt>>
      BY <1>7 DEF DeliverLate, TypeOK, callVars
    <2>2. NothingUnspent
      BY <2>1 DEF NothingUnspent
    <2>3. CASE Enqueue(t)
      <3>1. /\ \A u \in wire' : u.req # t.req
            /\ Spent(pc'[t.req], attempt'[t.req], t.attempt)
        BY <2>1 DEF PaidInv, Spent
      <3>2. \A i \in 1..Len(ledger) :
               ledger[i].req = t.req => ledger[i].attempt # t.attempt
        BY DEF PaidInv
      <3>3. QED
        BY <2>1, <2>2, <2>3, <3>1, <3>2, PaidEnqueue
    <2>4. CASE UNCHANGED <<ledger, gapped>>
      BY <2>1, <2>4 DEF PaidInv, PaidOncePerAttempt
    <2>5. QED
      BY <1>7, <2>3, <2>4 DEF DeliverLate
  <1>8. CASE ForeignTransaction
    <2> DEFINE t == [req |-> NoRequest, op |-> NoOp, nonce |-> PendingNonce,
                     fee |-> DefaultEip1559GasFees, attempt |-> 0]
    <2>1. t \in Transactions /\ t.req = NoRequest
      BY DefaultIsFeePair DEF Transactions, PendingNonce, TypeOK, MaxSendAttempts
    <2>2. Enqueue(t) /\ UNCHANGED <<pc, attempt, wire>>
      BY <1>8 DEF ForeignTransaction, callVars
    <2> HIDE DEF t
    <2>3. NothingUnspent
      BY <2>2 DEF NothingUnspent
    <2>4. QED
      BY <2>1, <2>2, <2>3, PaidEnqueue
  <1>9. CASE UNCHANGED <<callVars, ledger, gapped, wire>>
    BY <1>9 DEF callVars, PaidInv, PaidOncePerAttempt
  <1>10. QED
    BY <1>1, <1>2, <1>3, <1>4, <1>5, <1>6, <1>7, <1>8, <1>9
       DEF Next, Serve, Environment, AllAnswered, vars, nodeVars, Mine,
           UserTransaction

\* In every execution, with every fault allowed, the transactions of one call
\* at the node carry different attempts: the sponsor pays at most three times
\* for one call, and only once per turn of its loop.
THEOREM PaidSafety == Spec => []PaidOncePerAttempt
  <1>1. Init => PaidInv
    BY DEF Init, PaidInv, PaidOncePerAttempt
  <1>2. PaidInv => PaidOncePerAttempt
    BY DEF PaidInv
  <1>3. QED
    BY <1>1, <1>2, PaidInvStep, TypeCorrect, PTL DEF Spec

-----------------------------------------------------------------------------
\* A resubmission outbids what it follows

\* The quotes a live chain gives: a tip of at least three units.
RealisticMarkets ==
    /\ DefaultGasTipCap >= 3
    /\ \A quote \in Markets :
          quote.gasPrice # QuoteFailed => ResolveEip1559GasFees(quote).tip >= 3

\* A call in its loop has fees that its bumps can raise by ten per cent.
FeeInv ==
    \A r \in Requests :
        pc[r] \in {"nonce", "send"} => fee[r] \in FeePairs /\ fee[r].tip >= 3

\* Steps that keep the fees and bring no call into the loop.
LEMMA FeeFrame ==
  ASSUME FeeInv, UNCHANGED fee,
         \A q \in Requests : pc'[q] \in {"nonce", "send"}
                               => pc[q] \in {"nonce", "send"}
  PROVE  FeeInv'
  BY DEF FeeInv

\* The fees an attempt is sent with.
LEMMA PreparedFee ==
  ASSUME TypeOK, FeeInv, NEW r \in Requests, PrepareAttempt(r)
  PROVE  /\ fee'[r] \in FeePairs /\ fee'[r].tip >= 3
         /\ attempt[r] > 0 => Outbids(fee'[r], fee[r])
  <1>1. /\ fee[r] \in FeePairs /\ fee[r].tip >= 3
        /\ attempt[r] \in 0..MaxSendAttempts - 1
    BY DEF PrepareAttempt, Goto, FeeInv, TypeOK
  <1>2. fee'[r] = IF attempt[r] > 0 THEN BumpEip1559GasFees(fee[r], attempt[r])
                                    ELSE fee[r]
    BY DEF PrepareAttempt, TypeOK
  <1>3. CASE attempt[r] > 0
    <2>1. attempt[r] \in 1..MaxSendAttempts - 1
      BY <1>1, <1>3 DEF MaxSendAttempts
    <2>2. QED
      BY <1>1, <1>2, <1>3, <2>1, BumpOutbids, BumpedIsFeePair
  <1>4. CASE ~(attempt[r] > 0)
    BY <1>1, <1>2, <1>4
  <1>5. QED
    BY <1>3, <1>4

\* Every step keeps FeeInv: fees are resolved once and only ever bumped.
LEMMA FeeInvStep ==
  ASSUME RealisticMarkets, TypeOK, FeeInv, [Next]_vars
  PROVE  FeeInv'
  <1> DEFINE Loop == {"nonce", "send"}
  <1>1. ASSUME NEW r \in Requests, ResolveFees(r)
        PROVE  FeeInv'
    <2>1. \E f \in FeePairs : f.tip >= 3 /\ fee' = [fee EXCEPT ![r] = f]
      <3>1. PICK quote \in Markets :
               fee' = [fee EXCEPT ![r] = IF quote.gasPrice = QuoteFailed
                                         THEN DefaultEip1559GasFees
                                         ELSE ResolveEip1559GasFees(quote)]
        BY <1>1 DEF ResolveFees
      <3>2. CASE quote.gasPrice = QuoteFailed
        <4>1. /\ DefaultEip1559GasFees \in FeePairs
              /\ DefaultEip1559GasFees.tip >= 3
          BY DefaultIsFeePair DEF RealisticMarkets, DefaultEip1559GasFees
        <4>2. QED
          BY <3>1, <3>2, <4>1
      <3>3. CASE quote.gasPrice # QuoteFailed
        <4>1. /\ ResolveEip1559GasFees(quote) \in FeePairs
              /\ ResolveEip1559GasFees(quote).tip >= 3
          BY <3>3, ResolvedIsFeePair, ConstantsAssumption DEF RealisticMarkets
        <4>2. QED
          BY <3>1, <3>3, <4>1
      <3>4. QED
        BY <3>2, <3>3
    <2>2. QED
      BY <1>1, <2>1 DEF ResolveFees, Goto, FeeInv, TypeOK
  <1>2. ASSUME NEW r \in Requests, PrepareAttempt(r)
        PROVE  FeeInv'
    <2>1. /\ \E f : fee' = [fee EXCEPT ![r] = f]
          /\ pc' = [pc EXCEPT ![r] = "send"]
      BY <1>2 DEF PrepareAttempt, Goto
    <2>2. fee'[r] \in FeePairs /\ fee'[r].tip >= 3
      BY <1>2, PreparedFee
    <2>3. QED
      BY <2>1, <2>2 DEF FeeInv, TypeOK
  <1>3. ASSUME NEW r \in Requests,
               Client(r) \/ Serve(r), ~ResolveFees(r), ~PrepareAttempt(r)
        PROVE  FeeInv'
    <2>1. /\ UNCHANGED fee
          /\ \E p : /\ pc' = [pc EXCEPT ![r] = p]
                    /\ p \in Loop => pc[r] \in Loop
      <3>1. CASE Client(r)
        BY <3>1 DEF Client, Build, BuildFails, Resubmit, Goto, Reply
      <3>2. CASE \/ Preflight(r) \/ PreflightFails(r) \/ Lock(r)
                 \/ AuthNonceFresh(r) \/ AuthNonceStale(r) \/ CallFails(r)
        BY <3>2 DEF Preflight, PreflightFails, Lock, AuthNonceFresh,
                    AuthNonceStale, CallFails, Goto, Reply
      <3>3. CASE \/ SendAccepted(r) \/ SendConflicts(r) \/ SendRefused(r)
                 \/ SendAnswerLost(r) \/ SendTwice(r) \/ SendDelayed(r)
        BY <3>3 DEF SendAccepted, SendConflicts, SendRefused, SendAnswerLost,
                    SendTwice, SendDelayed, AfterSendError, Goto, Reply
      <3>4. QED
        BY <1>3, <3>1, <3>2, <3>3 DEF Serve
    <2>2. \A q \in Requests : pc'[q] \in Loop => pc[q] \in Loop
      BY <2>1 DEF TypeOK
    <2>3. QED
      BY <2>1, <2>2, FeeFrame
  <1>4. CASE UNCHANGED callVars
    BY <1>4 DEF callVars, FeeInv
  <1>5. QED
    BY <1>1, <1>2, <1>3, <1>4
       DEF Next, Environment, AllAnswered, vars, DeliverLate, Mine,
           UserTransaction, ForeignTransaction

\* No step but PrepareAttempt takes a call from its nonce to its send, and
\* that one outbids.
LEMMA OutbidStep ==
  ASSUME TypeOK, FeeInv, [Next]_vars
  PROVE  [\A r \in Requests :
             pc[r] = "nonce" /\ pc'[r] = "send" /\ attempt[r] > 0
                => Outbids(fee'[r], fee[r])]_vars
  <1> SUFFICES ASSUME NEW q \in Requests,
                      pc[q] = "nonce", pc'[q] = "send", attempt[q] > 0
               PROVE  Outbids(fee'[q], fee[q])
    OBVIOUS
  <1>1. \E r \in Requests : Client(r) \/ Serve(r)
    BY DEF Next, Environment, AllAnswered, vars, callVars, DeliverLate, Mine,
           UserTransaction, ForeignTransaction
  <1>2. PrepareAttempt(q)
    <2>1. PICK r \in Requests : Client(r) \/ Serve(r)
      BY <1>1
    <2>2. CASE PrepareAttempt(r)
      BY <2>2 DEF PrepareAttempt, Goto, TypeOK
    <2>3. CASE ~PrepareAttempt(r)
      <3>1. \E p : p # "send" /\ pc' = [pc EXCEPT ![r] = p]
        <4>1. CASE Client(r)
          BY <4>1 DEF Client, Build, BuildFails, Resubmit, Goto, Reply
        <4>2. CASE \/ Preflight(r) \/ PreflightFails(r) \/ Lock(r)
                   \/ AuthNonceFresh(r) \/ AuthNonceStale(r) \/ CallFails(r)
                   \/ ResolveFees(r)
          BY <4>2 DEF Preflight, PreflightFails, Lock, AuthNonceFresh,
                      AuthNonceStale, CallFails, ResolveFees, Goto, Reply
        <4>3. CASE \/ SendAccepted(r) \/ SendConflicts(r) \/ SendRefused(r)
                   \/ SendAnswerLost(r) \/ SendTwice(r) \/ SendDelayed(r)
          BY <4>3 DEF SendAccepted, SendConflicts, SendRefused,
                      SendAnswerLost, SendTwice, SendDelayed, AfterSendError,
                      Goto, Reply
        <4>4. QED
          BY <2>1, <2>3, <4>1, <4>2, <4>3 DEF Serve
      <3>2. QED
        BY <3>1 DEF TypeOK
    <2>4. QED
      BY <2>2, <2>3
  <1>3. QED
    BY <1>2, PreparedFee

\* Whenever the quotes are at least three units, every resubmission pays the
\* ten per cent more that a node asks of a replacement.
THEOREM OutbidSafety ==
  ASSUME RealisticMarkets
  PROVE  Spec => ResubmissionOutbids
  <1>1. Init => FeeInv
    BY DEF Init, FeeInv
  <1>2. TypeOK /\ FeeInv /\ [Next]_vars => FeeInv'
    BY FeeInvStep
  <1>3. TypeOK /\ FeeInv /\ [Next]_vars
           => [\A r \in Requests :
                  pc[r] = "nonce" /\ pc'[r] = "send" /\ attempt[r] > 0
                     => Outbids(fee'[r], fee[r])]_vars
    BY OutbidStep
  <1>4. QED
    BY <1>1, <1>2, <1>3, TypeCorrect, PTL DEF Spec, ResubmissionOutbids

=============================================================================
