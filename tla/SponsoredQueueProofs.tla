------------------------ MODULE SponsoredQueueProofs ------------------------
(***************************************************************************)
(* With a node that answers consistently and a sponsor key nobody else     *)
(* uses, the endpoint is the queue of SponsorQueue.                        *)
(***************************************************************************)
EXTENDS SponsoredSendProofs, SequenceTheorems

\* What the mutex buys: only the call that holds it sends, what it is about
\* to send comes next, and whatever is in the ledger belongs to a call that
\* has been answered, one transaction for each.
ServedInv ==
    /\ wire = {}
    /\ NonceFresh
    /\ \A i \in 1..Len(ledger) :
          ledger[i].req \in Requests /\ pc[ledger[i].req] = "done"
    /\ \A i, j \in 1..Len(ledger) : ledger[i].req = ledger[j].req => i = j
    /\ SuccessStays

\* No answered call becomes unanswered.
DoneStays == \A q \in Requests : pc[q] = "done" => pc'[q] = "done"

\* The moves of one call keep the answered calls answered.
LEMMA MoveKeepsDone ==
  ASSUME TypeOK, NEW r \in Requests, pc[r] # "done", NEW p,
         pc' = [pc EXCEPT ![r] = p]
  PROVE  DoneStays
  BY DEF TypeOK, DoneStays

\* Steps without a new transaction and without a new success.
LEMMA ServedFrame ==
  ASSUME ServedInv, DoneStays, UNCHANGED <<ledger, wire>>,
         \A q \in Requests : pc'[q] = "send" => nonce'[q] = Len(ledger),
         \A q \in Requests : reply'[q] = "success" => reply[q] = "success"
  PROVE  ServedInv'
  BY DEF ServedInv, DoneStays, NonceFresh, PendingNonce, SuccessStays

\* A call that is about to send finds the next nonce free, and its
\* transaction joins the queue.
LEMMA SendAppends ==
  ASSUME TypeOK, ServedInv, NEW r \in Requests, pc[r] = "send",
         Enqueue(SignedTransaction(r))
  PROVE  ledger' = Append(ledger, SignedTransaction(r))
  BY DEF ServedInv, NonceFresh, PendingNonce, Enqueue, SignedTransaction

\* A call leaves the loop with its transaction in the queue.
LEMMA ServedSend ==
  ASSUME TypeOK, LockDiscipline, ServedInv, NEW r \in Requests,
         pc[r] = "send", Enqueue(SignedTransaction(r)),
         NEW a \in {"success", "error"}, Reply(r, a),
         UNCHANGED <<wire, nonce>>
  PROVE  ServedInv'
  <1> DEFINE t == SignedTransaction(r)
  <1>1. /\ ledger' = Append(ledger, t)
        /\ ledger \in Seq(Transactions)
        /\ Len(ledger) \in Nat
        /\ t.req = r
        /\ t \in Transactions
    BY SendAppends, SignedType DEF TypeOK, SignedTransaction
  <1> HIDE DEF t
  <1>2. /\ Len(ledger') = Len(ledger) + 1
        /\ ledger'[Len(ledger) + 1] = t
        /\ \A i \in 1..Len(ledger) : ledger'[i] = ledger[i]
    BY <1>1
  <1>3. /\ pc'[r] = "done"
        /\ \A q \in Requests : q # r => pc'[q] = pc[q]
        /\ \A q \in Requests : q # r => reply'[q] = reply[q]
    BY DEF Reply, TypeOK
  <1>4. \A q \in Requests : pc'[q] # "send"
    BY <1>3 DEF LockDiscipline, Critical
  <1>5. \A i \in 1..Len(ledger') :
           ledger'[i].req \in Requests /\ pc'[ledger'[i].req] = "done"
    <2>1. \A i \in 1..Len(ledger') : i \in 1..Len(ledger) \/ i = Len(ledger) + 1
      BY <1>1, <1>2
    <2>2. QED
      BY <1>1, <1>2, <1>3, <2>1 DEF ServedInv
  <1>6. \A i, j \in 1..Len(ledger') : ledger'[i].req = ledger'[j].req => i = j
    <2>1. \A i \in 1..Len(ledger') : i \in 1..Len(ledger) \/ i = Len(ledger) + 1
      BY <1>1, <1>2
    <2>2. \A i \in 1..Len(ledger) : ledger[i].req # r
      BY DEF ServedInv
    <2>3. QED
      BY <1>1, <1>2, <2>1, <2>2 DEF ServedInv
  <1>7. \A q \in Requests :
           reply'[q] = "success" => \E i \in 1..Len(ledger') : ledger'[i].req = q
    <2>1. \A q \in Requests :
             q # r /\ reply'[q] = "success"
                => \E i \in 1..Len(ledger') : ledger'[i].req = q
      BY <1>1, <1>2, <1>3 DEF ServedInv, SuccessStays
    <2>2. \E i \in 1..Len(ledger') : ledger'[i].req = r
      BY <1>1, <1>2
    <2>3. QED
      BY <2>1, <2>2
  <1>8. QED
    BY <1>4, <1>5, <1>6, <1>7
       DEF ServedInv, NonceFresh, SuccessStays

\* How the program counter and the answers move after an error of the send.
LEMMA ErrorMoves ==
  ASSUME TypeOK, NEW r \in Requests, NEW err, AfterSendError(r, err)
  PROVE  /\ \E p \in {"nonce", "done"} : pc' = [pc EXCEPT ![r] = p]
         /\ \A q \in Requests : reply'[q] = "success" => reply[q] = "success"
  <1>1. \E p \in {"nonce", "done"} : pc' = [pc EXCEPT ![r] = p]
    BY DEF AfterSendError, Goto, Reply
  <1>2. reply' = reply \/ reply' = [reply EXCEPT ![r] = "error"]
    BY DEF AfterSendError, Reply
  <1>3. QED
    BY <1>1, <1>2 DEF TypeOK

\* Every step of a consistent node keeps ServedInv; NoNonceGap and the mutex
\* are what the send relies on.
LEMMA ServedInvStep ==
  ASSUME Faults = {}, TypeOK, LockDiscipline, ServedInv, [Next]_vars
  PROVE  ServedInv'
  <1>1. ASSUME NEW r \in Requests, Client(r)
        PROVE  ServedInv'
    <2>1. /\ pc[r] = "idle"
          /\ \E p \in {"signed", "done"} : pc' = [pc EXCEPT ![r] = p]
          /\ UNCHANGED <<ledger, wire, nonce>>
          /\ reply' = reply \/ reply' = [reply EXCEPT ![r] = "error"]
      BY <1>1 DEF Client, Build, BuildFails, Resubmit, Goto, Reply, nodeVars
    <2>2. DoneStays
      BY <2>1, MoveKeepsDone
    <2>3. /\ \A q \in Requests : pc'[q] = "send" => nonce'[q] = Len(ledger)
          /\ \A q \in Requests : reply'[q] = "success" => reply[q] = "success"
      BY <2>1 DEF TypeOK, ServedInv, NonceFresh, PendingNonce
    <2>4. QED
      BY <2>1, <2>2, <2>3, ServedFrame
  <1>2. ASSUME NEW r \in Requests,
               \/ Preflight(r)
               \/ PreflightFails(r)
               \/ Lock(r)
               \/ AuthNonceFresh(r)
               \/ AuthNonceStale(r)
               \/ CallFails(r)
               \/ ResolveFees(r)
        PROVE  ServedInv'
    <2>1. /\ pc[r] # "done"
          /\ \E p \in PCs \ {"send"} : pc' = [pc EXCEPT ![r] = p]
          /\ UNCHANGED <<ledger, wire, nonce>>
          /\ reply' = reply \/ reply' = [reply EXCEPT ![r] = "error"]
      BY <1>2 DEF Preflight, PreflightFails, Lock, AuthNonceFresh,
                  AuthNonceStale, CallFails, ResolveFees, Goto, Reply,
                  nodeVars, PCs
    <2>2. DoneStays
      BY <2>1, MoveKeepsDone
    <2>3. /\ \A q \in Requests : pc'[q] = "send" => nonce'[q] = Len(ledger)
          /\ \A q \in Requests : reply'[q] = "success" => reply[q] = "success"
      BY <2>1 DEF TypeOK, ServedInv, NonceFresh, PendingNonce
    <2>4. QED
      BY <2>1, <2>2, <2>3, ServedFrame
  <1>3. ASSUME NEW r \in Requests, PrepareAttempt(r)
        PROVE  ServedInv'
    <2>1. /\ pc[r] # "done"
          /\ pc' = [pc EXCEPT ![r] = "send"]
          /\ nonce' = [nonce EXCEPT ![r] = Len(ledger)]
          /\ UNCHANGED <<ledger, wire, reply>>
      BY <1>3 DEF PrepareAttempt, Goto, NonceViews, PendingNonce, nodeVars
    <2>2. DoneStays
      BY <2>1, MoveKeepsDone
    <2>3. \A q \in Requests : pc'[q] = "send" => nonce'[q] = Len(ledger)
      BY <2>1 DEF TypeOK, ServedInv, NonceFresh, PendingNonce
    <2>4. QED
      BY <2>1, <2>2, <2>3, ServedFrame
  <1>4. ASSUME NEW r \in Requests, SendConflicts(r) \/ SendRefused(r)
        PROVE  ServedInv'
    <2>1. /\ pc[r] = "send"
          /\ \E err : AfterSendError(r, err)
          /\ UNCHANGED <<ledger, wire, nonce>>
      BY <1>4 DEF SendConflicts, SendRefused, nodeVars
    <2>2. /\ \E p \in {"nonce", "done"} : pc' = [pc EXCEPT ![r] = p]
          /\ \A q \in Requests : reply'[q] = "success" => reply[q] = "success"
      BY <2>1, ErrorMoves
    <2>3. DoneStays
      BY <2>1, <2>2, MoveKeepsDone
    <2>4. \A q \in Requests : pc'[q] = "send" => nonce'[q] = Len(ledger)
      BY <2>1, <2>2 DEF TypeOK, ServedInv, NonceFresh, PendingNonce
    <2>5. QED
      BY <2>1, <2>2, <2>3, <2>4, ServedFrame
  <1>5. ASSUME NEW r \in Requests, SendAccepted(r) \/ SendAnswerLost(r)
        PROVE  ServedInv'
    <2>1. /\ pc[r] = "send"
          /\ Enqueue(SignedTransaction(r))
          /\ UNCHANGED <<wire, nonce>>
          /\ \E a \in {"success", "error"} : Reply(r, a)
      BY <1>5 DEF SendAccepted, SendAnswerLost, AfterSendError,
                  IsRetryableSendError
    <2>2. QED
      BY <2>1, ServedSend
  <1>6. ASSUME NEW r \in Requests, SendTwice(r) \/ SendDelayed(r)
        PROVE  FALSE
    BY <1>6 DEF SendTwice, SendDelayed
  <1>7. ASSUME NEW t \in wire
        PROVE  FALSE
    BY <1>7 DEF ServedInv
  <1>8. CASE ForeignTransaction
    BY <1>8 DEF ForeignTransaction
  <1>9. CASE UNCHANGED <<callVars, ledger, wire>>
    BY <1>9
       DEF callVars, ServedInv, NonceFresh, PendingNonce, SuccessStays
  <1>10. QED
    BY <1>1, <1>2, <1>3, <1>4, <1>5, <1>6, <1>7, <1>8, <1>9
       DEF Next, Serve, Environment, AllAnswered, vars, nodeVars, Mine,
           UserTransaction

\* ServedInv holds in every state of every execution with a consistent node.
LEMMA ServedAlways ==
  ASSUME Faults = {}
  PROVE  Spec => []ServedInv
  <1>1. Init => ServedInv
    BY DEF Init, ServedInv, NonceFresh, SuccessStays
  <1>2. TypeOK /\ LockDiscipline /\ ServedInv /\ [Next]_vars => ServedInv'
    BY ServedInvStep
  <1>3. QED
    BY <1>1, <1>2, TypeCorrect, LockSafety, PTL DEF Spec

\* However many calls there are: between reading the sponsor's nonce and
\* using it, no other call uses it.
THEOREM NonceSafety ==
  ASSUME Faults = {}
  PROVE  Spec => []NonceFresh
  <1>1. ServedInv => NonceFresh
    BY DEF ServedInv
  <1>2. QED
    BY <1>1, ServedAlways, PTL

\* Nobody's transaction is replaced after its client was told "success".
THEOREM SuccessSafety ==
  ASSUME Faults = {}
  PROVE  Spec => []SuccessStays
  <1>1. ServedInv => SuccessStays
    BY DEF ServedInv
  <1>2. QED
    BY <1>1, ServedAlways, PTL

-----------------------------------------------------------------------------
\* The refinement

\* An endpoint without calls is an empty queue.
LEMMA QueueInit == Init => Queue!Init
  BY DEF Init, Queue!Init

\* A transaction that joins the ledger joins the queue.
LEMMA AppendRefines ==
  ASSUME TypeOK, NEW t \in Transactions, ledger' = Append(ledger, t)
  PROVE  [i \in 1..Len(ledger') |-> ledger'[i].req]
            = Append([i \in 1..Len(ledger) |-> ledger[i].req], t.req)
  <1> DEFINE old == [i \in 1..Len(ledger) |-> ledger[i].req]
             new == [i \in 1..Len(ledger') |-> ledger'[i].req]
  <1>1. /\ ledger \in Seq(Transactions)
        /\ Len(ledger) \in Nat
    BY DEF TypeOK
  <1>2. /\ Len(ledger') = Len(ledger) + 1
        /\ \A i \in 1..Len(ledger) : ledger'[i] = ledger[i]
        /\ ledger'[Len(ledger) + 1] = t
    BY <1>1
  <1>3. \A i \in 1..Len(ledger) : ledger[i].req \in Requests \cup {NoRequest}
    BY LedgerType
  <1>4. old \in Seq(Requests \cup {NoRequest}) /\ Len(old) = Len(ledger)
    BY <1>1, <1>3
  <1>5. /\ Append(old, t.req) \in [1..Len(ledger) + 1 -> Requests \cup {NoRequest}]
        /\ \A i \in 1..Len(ledger) + 1 :
              Append(old, t.req)[i] = IF i = Len(ledger) + 1 THEN t.req
                                                             ELSE ledger[i].req
    <2>1. t.req \in Requests \cup {NoRequest}
      BY DEF Transactions
    <2>2. \A i \in 1..Len(ledger) : old[i] = ledger[i].req
      OBVIOUS
    <2> HIDE DEF old
    <2>3. /\ Append(old, t.req) \in Seq(Requests \cup {NoRequest})
          /\ Len(Append(old, t.req)) = Len(ledger) + 1
      BY <1>1, <1>4, <2>1
    <2>4. \A i \in 1..Len(ledger) + 1 :
             Append(old, t.req)[i] = IF i = Len(ledger) + 1 THEN t.req
                                                            ELSE ledger[i].req
      BY <1>1, <1>4, <2>1, <2>2
    <2>5. Append(old, t.req)
             \in [1..Len(ledger) + 1 -> Requests \cup {NoRequest}]
      BY <2>3, LenProperties
    <2>6. QED
      BY <2>4, <2>5
  <1>6. /\ new \in [1..Len(ledger) + 1 -> Requests \cup {NoRequest}]
        /\ \A i \in 1..Len(ledger) + 1 :
              new[i] = IF i = Len(ledger) + 1 THEN t.req ELSE ledger[i].req
    <2>1. t.req \in Requests \cup {NoRequest}
      BY DEF Transactions
    <2>2. \A i \in 1..Len(ledger) + 1 : i \in 1..Len(ledger) \/ i = Len(ledger) + 1
      BY <1>1
    <2>3. QED
      BY <1>1, <1>2, <1>3, <2>1, <2>2
  <1> HIDE DEF old, new
  <1>7. new = Append(old, t.req)
    BY <1>5, <1>6
  <1>8. QED
    BY <1>7 DEF old, new

\* Steps that change neither the ledger nor an answer are stutters.
LEMMA SilentRefines ==
  ASSUME UNCHANGED <<ledger, reply>>
  PROVE  UNCHANGED Queue!vars
  BY DEF Queue!vars

\* A call that ends with an error and sends nothing is refused.
LEMMA RefusalRefines ==
  ASSUME TypeOK, LockDiscipline, NEW r \in Requests, pc[r] # "done",
         Reply(r, "error"), UNCHANGED ledger
  PROVE  Queue!Refuse(r)
  <1>1. /\ reply[r] = "none"
        /\ reply' = [reply EXCEPT ![r] = "error"]
    BY DEF LockDiscipline, Reply
  <1>2. QED
    BY <1>1 DEF Queue!Refuse

\* A call whose transaction the node takes gets the next nonce.
LEMMA SendRefines ==
  ASSUME TypeOK, LockDiscipline, ServedInv, NEW r \in Requests,
         pc[r] = "send", Enqueue(SignedTransaction(r)),
         NEW a \in {"success", "error"}, Reply(r, a)
  PROVE  Queue!Sponsor(r)
  <1> DEFINE queue == [i \in 1..Len(ledger) |-> ledger[i].req]
  <1>1. /\ reply[r] = "none"
        /\ reply' = [reply EXCEPT ![r] = a]
    BY DEF LockDiscipline, Reply
  <1>2. ledger' = Append(ledger, SignedTransaction(r))
    BY SendAppends
  <1>3. [i \in 1..Len(ledger') |-> ledger'[i].req] = Append(queue, r)
    <2>1. /\ SignedTransaction(r) \in Transactions
          /\ SignedTransaction(r).req = r
      BY SignedType DEF SignedTransaction
    <2>2. QED
      BY <1>2, <2>1, AppendRefines
  <1>4. \A i \in 1..Len(ledger) : ledger[i].req # r
    BY DEF ServedInv
  <1>5. /\ Len(queue) = Len(ledger)
        /\ \A i \in 1..Len(ledger) : queue[i] = ledger[i].req
    BY DEF TypeOK
  <1>6. ~ \E i \in 1..Len(queue) : queue[i] = r
    BY <1>4, <1>5
  <1>7. QED
    BY <1>1, <1>3, <1>6 DEF Queue!Sponsor, Queue!Queued

\* Every step of the endpoint is a step of the queue or leaves it alone.
LEMMA QueueStep ==
  ASSUME Faults = {}, TypeOK, LockDiscipline, ServedInv, [Next]_vars
  PROVE  [Queue!Next]_(Queue!vars)
  <1>1. ASSUME NEW r \in Requests, Client(r)
        PROVE  [Queue!Next]_(Queue!vars)
    BY <1>1, RefusalRefines, SilentRefines
       DEF Client, Build, BuildFails, Resubmit, nodeVars, Queue!Next
  <1>2. ASSUME NEW r \in Requests,
               \/ Preflight(r)
               \/ Lock(r)
               \/ AuthNonceFresh(r)
               \/ ResolveFees(r)
               \/ PrepareAttempt(r)
        PROVE  [Queue!Next]_(Queue!vars)
    BY <1>2, SilentRefines
       DEF Preflight, Lock, AuthNonceFresh, ResolveFees, PrepareAttempt,
           nodeVars
  <1>3. ASSUME NEW r \in Requests,
               PreflightFails(r) \/ AuthNonceStale(r) \/ CallFails(r)
        PROVE  [Queue!Next]_(Queue!vars)
    BY <1>3, RefusalRefines
       DEF PreflightFails, AuthNonceStale, CallFails, nodeVars, Queue!Next
  <1>4. ASSUME NEW r \in Requests, SendConflicts(r) \/ SendRefused(r)
        PROVE  [Queue!Next]_(Queue!vars)
    <2>1. /\ pc[r] = "send" /\ ledger' = ledger
          /\ Reply(r, "error") \/ reply' = reply
      BY <1>4 DEF SendConflicts, SendRefused, AfterSendError, nodeVars
    <2>2. QED
      BY <2>1, RefusalRefines, SilentRefines DEF Queue!Next
  <1>5. ASSUME NEW r \in Requests, SendAccepted(r) \/ SendAnswerLost(r)
        PROVE  [Queue!Next]_(Queue!vars)
    <2>1. /\ pc[r] = "send"
          /\ Enqueue(SignedTransaction(r))
          /\ \E a \in {"success", "error"} : Reply(r, a)
      BY <1>5 DEF SendAccepted, SendAnswerLost, AfterSendError,
                  IsRetryableSendError
    <2>2. QED
      BY <2>1, SendRefines DEF Queue!Next
  <1>6. ASSUME NEW r \in Requests, SendTwice(r) \/ SendDelayed(r)
        PROVE  FALSE
    BY <1>6 DEF SendTwice, SendDelayed
  <1>7. ASSUME NEW t \in wire
        PROVE  FALSE
    BY <1>7 DEF ServedInv
  <1>8. CASE ForeignTransaction
    BY <1>8 DEF ForeignTransaction
  <1>9. CASE UNCHANGED <<callVars, ledger>>
    BY <1>9, SilentRefines DEF callVars
  <1>10. QED
    BY <1>1, <1>2, <1>3, <1>4, <1>5, <1>6, <1>7, <1>8, <1>9
       DEF Next, Serve, Environment, AllAnswered, vars, nodeVars, Mine,
           UserTransaction

\* With a consistent node every execution of the endpoint is one of the queue:
\* a request gets the next nonce or is refused, and what is queued stays.
THEOREM QueueRefinement ==
  ASSUME Faults = {}
  PROVE  Spec => ImplementsQueue
  <1>1. TypeOK /\ LockDiscipline /\ ServedInv /\ [Next]_vars
           => [Queue!Next]_(Queue!vars)
    BY QueueStep
  <1>2. QED
    BY <1>1, QueueInit, TypeCorrect, LockSafety, ServedAlways, PTL
       DEF Spec, ImplementsQueue, Queue!Spec

-----------------------------------------------------------------------------
\* The authorization check

\* An operation that competes with another for one authorization nonce.
SameUser(o, u) == o # NoOp /\ u # NoOp /\ SenderOfOp(o) = SenderOfOp(u)

\* NoResendAfterMined with what makes it inductive: nobody is ahead of his
\* account, what is in a block is behind it, and a call past its check is
\* ahead of everything that was in a block when it got the mutex.
AuthInv ==
    /\ NoResendAfterMined
    /\ \A r \in Requests :
          /\ turn[r] <= mined
          /\ op[r] # NoOp => op[r].authNonce <= userNonce[SenderOfOp(op[r])]
          /\ pc[r] \in {"fees", "nonce", "send"}
                => \A i \in 1..turn[r] :
                      SameUser(ledger[i].op, op[r])
                         => ledger[i].op.authNonce < op[r].authNonce
    /\ \A i \in 1..Len(ledger) :
          ledger[i].op # NoOp
             => /\ ledger[i].op.authNonce <= userNonce[SenderOfOp(ledger[i].op)]
                /\ i <= mined
                      => ledger[i].op.authNonce
                            < userNonce[SenderOfOp(ledger[i].op)]

\* Operations name an account and a nonce.
LEMMA OpType ==
  ASSUME NEW o \in UserOps \cup {NoOp}, o # NoOp
  PROVE  /\ o.authNonce \in Nat
         /\ SenderOfOp(o) \in Senders
  BY ConstantsAssumption DEF UserOps, SenderOfOp

\* The numbers AuthInv compares.
LEMMA AuthTypes ==
  ASSUME TypeOK
  PROVE  /\ \A i \in 1..Len(ledger) : ledger[i].op \in UserOps \cup {NoOp}
         /\ \A r \in Requests : /\ op[r] \in UserOps \cup {NoOp}
                                /\ turn[r] \in Nat
         /\ \A s \in Senders : userNonce[s] \in Nat
         /\ mined \in Nat /\ mined <= Len(ledger) /\ Len(ledger) \in Nat
  <1>1. ledger \in Seq(Transactions)
    BY DEF TypeOK
  <1>2. \A i \in 1..Len(ledger) : ledger[i] \in Transactions
    BY <1>1
  <1>3. \A i \in 1..Len(ledger) : ledger[i].op \in UserOps \cup {NoOp}
    BY <1>2 DEF Transactions
  <1>4. QED
    BY <1>1, <1>3 DEF TypeOK

\* Steps of one call outside the node that bring it no closer to the fees.
LEMMA AuthFrame ==
  ASSUME AuthInv, UNCHANGED <<op, turn, ledger, mined, userNonce>>,
         \A q \in Requests : pc'[q] \in {"fees", "nonce", "send"}
                               => pc[q] \in {"fees", "nonce", "send"}
  PROVE  AuthInv'
  BY DEF AuthInv, NoResendAfterMined

\* A call that is about to send adds its transaction.
LEMMA AuthSend ==
  ASSUME TypeOK, ServedInv, AuthInv, NEW r \in Requests, pc[r] = "send",
         Enqueue(SignedTransaction(r)),
         UNCHANGED <<op, turn, mined, userNonce>>,
         \A q \in Requests : pc'[q] \in {"fees", "nonce", "send"}
                               => pc[q] \in {"fees", "nonce", "send"}
  PROVE  AuthInv'
  <1> DEFINE t == SignedTransaction(r)
  <1>1. /\ ledger' = Append(ledger, t)
        /\ ledger \in Seq(Transactions)
        /\ Len(ledger) \in Nat
        /\ t.req = r /\ t.op = op[r]
        /\ t \in Transactions
    BY SendAppends, SignedType DEF TypeOK, SignedTransaction
  <1> HIDE DEF t
  <1>2. /\ Len(ledger') = Len(ledger) + 1
        /\ ledger'[Len(ledger) + 1] = t
        /\ \A i \in 1..Len(ledger) : ledger'[i] = ledger[i]
        /\ \A i \in 1..Len(ledger') : i \in 1..Len(ledger) \/ i = Len(ledger) + 1
    BY <1>1
  <1>3. mined \in Nat /\ mined <= Len(ledger) /\ turn[r] \in Nat
    BY AuthTypes
  <1>4. NoResendAfterMined'
    <2> SUFFICES ASSUME NEW i \in 1..Len(ledger'), NEW j \in 1..Len(ledger'),
                        i < j, SameUser(ledger'[i].op, ledger'[j].op),
                        ledger'[i].op.authNonce = ledger'[j].op.authNonce
                 PROVE  i > turn[ledger'[j].req]
      BY DEF NoResendAfterMined, SameUser
    <2>1. i \in 1..Len(ledger) /\ ledger'[i] = ledger[i]
      BY <1>1, <1>2
    <2>2. CASE j \in 1..Len(ledger)
      BY <1>2, <2>1, <2>2 DEF AuthInv, NoResendAfterMined, SameUser
    <2>3. CASE j = Len(ledger) + 1
      <3>1. ledger'[j].req = r /\ ledger'[j].op = op[r]
        BY <1>1, <1>2, <2>3
      <3>2. ASSUME i <= turn[r]
            PROVE  ledger[i].op.authNonce < op[r].authNonce
        BY <1>3, <2>1, <3>1, <3>2 DEF AuthInv
      <3>3. ledger[i].op.authNonce \in Nat
        BY <2>1, AuthTypes, OpType DEF SameUser
      <3>4. ~(i <= turn[r])
        BY <2>1, <3>1, <3>2, <3>3
      <3>5. QED
        BY <1>3, <3>1, <3>4
    <2>4. QED
      BY <1>2, <2>2, <2>3
  <1>5. \A q \in Requests :
          /\ turn[q] <= mined
          /\ op[q] # NoOp => op[q].authNonce <= userNonce[SenderOfOp(op[q])]
          /\ pc'[q] \in {"fees", "nonce", "send"}
                => \A i \in 1..turn[q] :
                      SameUser(ledger'[i].op, op[q])
                         => ledger'[i].op.authNonce < op[q].authNonce
    <2>1. \A q \in Requests : \A i \in 1..turn[q] : i \in 1..Len(ledger)
      BY AuthTypes DEF AuthInv
    <2>2. QED
      BY <1>2, <2>1 DEF AuthInv
  <1>6. \A i \in 1..Len(ledger') :
          ledger'[i].op # NoOp
             => /\ ledger'[i].op.authNonce <= userNonce[SenderOfOp(ledger'[i].op)]
                /\ i <= mined
                      => ledger'[i].op.authNonce
                            < userNonce[SenderOfOp(ledger'[i].op)]
    <2>1. ~(Len(ledger) + 1 <= mined)
      BY <1>1, <1>3
    <2>2. QED
      BY <1>1, <1>2, <2>1 DEF AuthInv
  <1>7. QED
    BY <1>4, <1>5, <1>6 DEF AuthInv

\* A block takes a transaction: either its authorization is behind the
\* account already, or it is the account's current one and is consumed.
LEMMA AuthMine ==
  ASSUME TypeOK, AuthInv, Mine
  PROVE  AuthInv'
  <1> DEFINE t == ledger[mined + 1]
             s == SenderOfOp(t.op)
  <1>1. /\ mined \in Nat /\ mined + 1 \in 1..Len(ledger)
        /\ mined' = mined + 1
        /\ UNCHANGED <<pc, op, turn, ledger>>
    BY AuthTypes DEF Mine, callVars
  <1>2. userNonce' = IF t.op # NoOp /\ t.op.authNonce = userNonce[s]
                     THEN [userNonce EXCEPT ![s] = userNonce[s] + 1]
                     ELSE userNonce
    BY DEF Mine
  <1>3. \A u \in Senders : /\ userNonce[u] \in Nat /\ userNonce'[u] \in Nat
                           /\ userNonce[u] <= userNonce'[u]
    <2>1. \A u \in Senders : userNonce'[u] \in {userNonce[u], userNonce[u] + 1}
      BY <1>2 DEF TypeOK
    <2>2. QED
      BY <2>1, AuthTypes
  <1>4. t.op # NoOp => t.op.authNonce < userNonce'[s]
    <2> SUFFICES ASSUME t.op # NoOp
                 PROVE  t.op.authNonce < userNonce'[s]
      OBVIOUS
    <2>1. /\ t.op.authNonce \in Nat /\ s \in Senders
          /\ t.op.authNonce <= userNonce[s]
      BY <1>1, AuthTypes, OpType DEF AuthInv
    <2>2. /\ userNonce[s] \in Nat
          /\ t.op.authNonce = userNonce[s] => userNonce'[s] = userNonce[s] + 1
          /\ t.op.authNonce # userNonce[s] => userNonce'[s] = userNonce[s]
      BY <1>2, <2>1 DEF TypeOK
    <2>3. QED
      BY <2>1, <2>2
  <1> HIDE DEF t, s
  <1>5. \A r \in Requests :
           /\ turn[r] <= mined'
           /\ op[r] # NoOp => op[r].authNonce <= userNonce'[SenderOfOp(op[r])]
    BY <1>1, <1>3, AuthTypes, OpType DEF AuthInv
  <1>6. \A i \in 1..Len(ledger) :
          ledger[i].op # NoOp
             => /\ ledger[i].op.authNonce <= userNonce'[SenderOfOp(ledger[i].op)]
                /\ i <= mined
                      => ledger[i].op.authNonce
                            < userNonce'[SenderOfOp(ledger[i].op)]
    BY <1>3, AuthTypes, OpType DEF AuthInv
  <1>7. \A i \in 1..Len(ledger) :
          ledger[i].op # NoOp /\ i <= mined'
             => ledger[i].op.authNonce < userNonce'[SenderOfOp(ledger[i].op)]
    BY <1>1, <1>4, <1>6 DEF t, s
  <1>8. QED
    BY <1>1, <1>5, <1>6, <1>7 DEF AuthInv, NoResendAfterMined

\* A client builds an operation, or takes the one of another call.
LEMMA AuthClient ==
  ASSUME Faults = {}, TypeOK, AuthInv, NEW r \in Requests, Client(r)
  PROVE  AuthInv'
  <1>1. /\ pc[r] = "idle"
        /\ \E p \in {"signed", "done"} : pc' = [pc EXCEPT ![r] = p]
        /\ UNCHANGED <<turn, ledger, mined, userNonce>>
    BY DEF Client, Build, BuildFails, Resubmit, Goto, Reply, nodeVars
  <1>2. \A q \in Requests :
           pc'[q] \in {"fees", "nonce", "send"}
              => q # r /\ pc[q] \in {"fees", "nonce", "send"}
    BY <1>1 DEF TypeOK
  <1>3. CASE op' = op
    BY <1>1, <1>2, <1>3, AuthFrame
  <1>4. ASSUME NEW o \in UserOps \cup {NoOp}, op' = [op EXCEPT ![r] = o],
               o # NoOp => o.authNonce <= userNonce[SenderOfOp(o)]
        PROVE  AuthInv'
    <2>1. op'[r] = o /\ \A q \in Requests : q # r => op'[q] = op[q]
      BY <1>4 DEF TypeOK
    <2>2. QED
      BY <1>1, <1>2, <1>4, <2>1 DEF AuthInv, NoResendAfterMined
  <1>5. CASE Build(r)
    <2> DEFINE o == [by |-> r, authNonce |-> userNonce[SenderOf[r]]]
    <2>1. SenderOf[r] \in Senders
      BY ConstantsAssumption
    <2>2. op' = [op EXCEPT ![r] = o]
      BY <1>5 DEF Build, UserNonceViews
    <2>3. userNonce[SenderOf[r]] \in Nat
      BY <2>1 DEF TypeOK
    <2>4. o \in UserOps
      BY <2>3 DEF UserOps
    <2>5. o.authNonce <= userNonce[SenderOfOp(o)]
      BY <2>3 DEF SenderOfOp
    <2> HIDE DEF o
    <2>6. QED
      BY <1>4, <2>2, <2>4, <2>5
  <1>6. ASSUME NEW q \in Requests, Resubmit(r, q)
        PROVE  AuthInv'
    <2>1. op' = [op EXCEPT ![r] = op[q]]
      BY <1>6 DEF Resubmit
    <2>2. /\ op[q] \in UserOps \cup {NoOp}
          /\ op[q] # NoOp => op[q].authNonce <= userNonce[SenderOfOp(op[q])]
      BY AuthTypes DEF AuthInv
    <2>3. QED
      BY <1>4, <2>1, <2>2
  <1>7. QED
    BY <1>3, <1>5, <1>6 DEF Client, BuildFails

\* Getting the mutex starts the count anew, for a call that has nothing at the
\* node.
LEMMA AuthLock ==
  ASSUME TypeOK, ServedInv, AuthInv, NEW r \in Requests, Lock(r)
  PROVE  AuthInv'
  <1>1. /\ pc[r] = "lock" /\ pc' = [pc EXCEPT ![r] = "auth"]
        /\ turn' = [turn EXCEPT ![r] = mined]
        /\ UNCHANGED <<op, ledger, mined, userNonce>>
    BY DEF Lock, Goto, nodeVars
  <1>2. /\ turn'[r] = mined /\ pc'[r] = "auth"
        /\ \A q \in Requests : q # r => turn'[q] = turn[q] /\ pc'[q] = pc[q]
    BY <1>1 DEF TypeOK
  <1>3. \A i \in 1..Len(ledger) : ledger[i].req \in Requests /\ ledger[i].req # r
    BY <1>1 DEF ServedInv
  <1>4. NoResendAfterMined'
    BY <1>1, <1>2, <1>3 DEF AuthInv, NoResendAfterMined
  <1>5. mined \in Nat
    BY AuthTypes
  <1>6. QED
    BY <1>1, <1>2, <1>4, <1>5 DEF AuthInv

\* The check itself: the account's nonce is beyond all that is in a block.
LEMMA AuthCheck ==
  ASSUME Faults = {}, TypeOK, AuthInv, NEW r \in Requests, AuthNonceFresh(r)
  PROVE  AuthInv'
  <1>1. /\ pc[r] = "auth" /\ pc' = [pc EXCEPT ![r] = "fees"]
        /\ op[r].authNonce = userNonce[SenderOfOp(op[r])]
        /\ UNCHANGED <<op, turn, ledger, mined, userNonce>>
    BY DEF AuthNonceFresh, Goto, UserNonceViews, nodeVars
  <1>2. \A i \in 1..turn[r] :
           SameUser(ledger[i].op, op[r])
              => ledger[i].op.authNonce < op[r].authNonce
    <2>1. \A i \in 1..turn[r] : i \in 1..Len(ledger) /\ i <= mined
      BY AuthTypes DEF AuthInv
    <2>2. QED
      BY <1>1, <2>1 DEF AuthInv, SameUser
  <1>3. \A q \in Requests : q # r => pc'[q] = pc[q]
    BY <1>1 DEF TypeOK
  <1>4. QED
    BY <1>1, <1>2, <1>3 DEF AuthInv, NoResendAfterMined

\* Every step with a consistent node keeps AuthInv.
LEMMA AuthInvStep ==
  ASSUME Faults = {}, TypeOK, ServedInv, AuthInv, [Next]_vars
  PROVE  AuthInv'
  <1> DEFINE Past == {"fees", "nonce", "send"}
  <1>1. ASSUME NEW r \in Requests, Client(r)
        PROVE  AuthInv'
    BY <1>1, AuthClient
  <1>2. ASSUME NEW r \in Requests, Lock(r)
        PROVE  AuthInv'
    BY <1>2, AuthLock
  <1>3. ASSUME NEW r \in Requests, AuthNonceFresh(r)
        PROVE  AuthInv'
    BY <1>3, AuthCheck
  <1>4. ASSUME NEW r \in Requests,
               \/ Preflight(r)
               \/ PreflightFails(r)
               \/ AuthNonceStale(r)
               \/ CallFails(r)
               \/ ResolveFees(r)
               \/ PrepareAttempt(r)
        PROVE  AuthInv'
    <2>1. /\ \E p : /\ pc' = [pc EXCEPT ![r] = p]
                    /\ p \in Past => pc[r] \in Past
          /\ UNCHANGED <<op, turn, ledger, mined, userNonce>>
      BY <1>4 DEF Preflight, PreflightFails, AuthNonceStale, CallFails,
                  ResolveFees, PrepareAttempt, Goto, Reply, nodeVars
    <2>2. \A q \in Requests : pc'[q] \in Past => pc[q] \in Past
      BY <2>1 DEF TypeOK
    <2>3. QED
      BY <2>1, <2>2, AuthFrame
  <1>5. ASSUME NEW r \in Requests, SendConflicts(r) \/ SendRefused(r)
        PROVE  AuthInv'
    <2>1. /\ pc[r] = "send"
          /\ \E err : AfterSendError(r, err)
          /\ UNCHANGED <<op, turn, ledger, mined, userNonce>>
      BY <1>5 DEF SendConflicts, SendRefused, nodeVars
    <2>2. \A q \in Requests : pc'[q] \in Past => pc[q] \in Past
      BY <2>1, ErrorMoves DEF TypeOK
    <2>3. QED
      BY <2>1, <2>2, AuthFrame
  <1>6. ASSUME NEW r \in Requests, SendAccepted(r) \/ SendAnswerLost(r)
        PROVE  AuthInv'
    <2>1. /\ pc[r] = "send"
          /\ Enqueue(SignedTransaction(r))
          /\ UNCHANGED <<op, turn, mined, userNonce>>
          /\ pc' = [pc EXCEPT ![r] = "done"]
      BY <1>6 DEF SendAccepted, SendAnswerLost, AfterSendError, Reply,
                  IsRetryableSendError
    <2>2. \A q \in Requests : pc'[q] \in Past => pc[q] \in Past
      BY <2>1 DEF TypeOK
    <2>3. QED
      BY <2>1, <2>2, AuthSend
  <1>7. ASSUME NEW r \in Requests, SendTwice(r) \/ SendDelayed(r)
        PROVE  FALSE
    BY <1>7 DEF SendTwice, SendDelayed
  <1>8. ASSUME NEW t \in wire
        PROVE  FALSE
    BY <1>8 DEF ServedInv
  <1>9. CASE Mine
    BY <1>9, AuthMine
  <1>10. ASSUME NEW s \in Senders, UserTransaction(s)
         PROVE  AuthInv'
    <2>1. /\ UNCHANGED <<pc, op, turn, ledger, mined>>
          /\ userNonce' = [userNonce EXCEPT ![s] = userNonce[s] + 1]
      BY <1>10 DEF UserTransaction, callVars
    <2>2. \A u \in Senders : /\ userNonce[u] \in Nat
                             /\ userNonce'[u] \in {userNonce[u], userNonce[u] + 1}
      BY <2>1 DEF TypeOK
    <2>3. \A o \in UserOps \cup {NoOp} : o # NoOp =>
             /\ o.authNonce <= userNonce[SenderOfOp(o)]
                   => o.authNonce <= userNonce'[SenderOfOp(o)]
             /\ o.authNonce < userNonce[SenderOfOp(o)]
                   => o.authNonce < userNonce'[SenderOfOp(o)]
      BY <2>2, OpType
    <2>4. QED
      BY <2>1, <2>3, AuthTypes DEF AuthInv, NoResendAfterMined
  <1>11. CASE ForeignTransaction
    BY <1>11 DEF ForeignTransaction
  <1>12. CASE UNCHANGED vars
    BY <1>12 DEF vars, callVars, nodeVars, AuthInv, NoResendAfterMined
  <1>13. QED
    BY <1>1, <1>2, <1>3, <1>4, <1>5, <1>6, <1>7, <1>8, <1>9, <1>10, <1>11,
       <1>12
       DEF Next, Serve, Environment, AllAnswered

\* However many calls compete with one authorization: once a transaction that
\* carries it is in a block, no call that gets the mutex later pays for it.
THEOREM ResendSafety ==
  ASSUME Faults = {}
  PROVE  Spec => []NoResendAfterMined
  <1>1. Init => AuthInv
    BY ConstantsAssumption DEF Init, AuthInv, NoResendAfterMined
  <1>2. AuthInv => NoResendAfterMined
    BY DEF AuthInv
  <1>3. TypeOK /\ ServedInv /\ AuthInv /\ [Next]_vars => AuthInv'
    BY AuthInvStep
  <1>4. QED
    BY <1>1, <1>2, <1>3, TypeCorrect, ServedAlways, PTL DEF Spec

=============================================================================
