--------------------------- MODULE GatewayProofs ---------------------------
(***************************************************************************)
(* Theorems about Gateway for every configuration and every set of calls.  *)
(* What a call is answered is what Dispatch makes of its request and of    *)
(* the full registry, so that the properties of replies come down to facts *)
(* about the handlers.                                                     *)
(***************************************************************************)
EXTENDS Gateway, TLAPS

-----------------------------------------------------------------------------
\* The handlers

Outcomes == {Good, Empty, ErrorCode, GrpcError, Panicked}

\* What a query handler may answer: data only where the node had it, and with
\* the exceptions no success after a failed call.
Founded(chain, method, answer, outcome) ==
    /\ outcome \in Outcomes
    /\ <<chain, method>> \notin Unfounded =>
          /\ outcome = Good  => answer = "found"
          /\ outcome = Empty => answer # "error"

LEMMA EthIsFounded ==
  ASSUME NEW a \in [1..3 -> Answers], NEW shape \in Shapes,
         NEW method \in QueriesOf("ethereum")
  PROVE  Founded("ethereum", method, a[1], EthHandle(method, a, shape))
  BY DEF Founded, Outcomes, Good, Empty, ErrorCode, GrpcError, Panicked, Answers,
         Unfounded, Stubs, QueriesOf, Queries, Sponsored, EthHandle, OrElse,
         EthGetLastestBlock, EthGetBlock, EthGetBatchBlock, EthGetTransactionByHash,
         EthGetTransactionByAddress, EthGetAccountBalance, EthCallContract,
         EthGetAddressApproveList, EthUnsupported

LEMMA BnbIsFounded ==
  ASSUME NEW a \in [1..3 -> Answers], NEW shape \in Shapes,
         NEW method \in QueriesOf("bnb")
  PROVE  Founded("bnb", method, a[1], BnbHandle(method, a, shape))
  BY DEF Founded, Outcomes, Good, Empty, ErrorCode, GrpcError, Panicked, Answers,
         Unfounded, QueriesOf, BnbHandle, OrElse, BnbGetTransactionByAddress,
         BnbGetAccountBalance, BnbCallContract, BnbGetAddressApproveList

LEMMA BtcIsFounded ==
  ASSUME NEW a \in [1..3 -> Answers], NEW shape \in Shapes,
         NEW method \in QueriesOf("bitcoin")
  PROVE  Founded("bitcoin", method, a[1], BtcHandle(method, a, shape))
  <1> USE DEF Founded, Outcomes, Good, Empty, ErrorCode, GrpcError, Panicked
  <1>1. a[1] = "found" \/ a[1] = "null" \/ a[1] = "error"
    BY DEF Answers
  <1>2. CASE method \in BtcUnsupported
    BY <1>1, <1>2 DEF BtcHandle, BtcUnsupported
  <1>3. CASE method = "GetBlock"
    BY <1>1, <1>3 DEF BtcHandle, BtcUnsupported, BtcGetBlock, Unfounded
  <1>4. CASE method \in {"GetLastestBlock", "GetTransactionByHash"}
    BY <1>1, <1>4 DEF BtcHandle, BtcUnsupported, BtcGetLastestBlock,
                     BtcGetTransactionByHash, OrElse
  <1>5. CASE method = "GetTransactionByAddress"
    BY <1>1, <1>5 DEF BtcHandle, BtcUnsupported, BtcGetTransactionByAddress
  <1>6. CASE method = "GetAccountBalance"
    BY <1>1, <1>6 DEF BtcHandle, BtcUnsupported, BtcGetAccountBalance
  <1>7. QED
    BY <1>2, <1>3, <1>4, <1>5, <1>6 DEF QueriesOf, Queries, BtcUnsupported

LEMMA TronIsFounded ==
  ASSUME NEW a \in [1..3 -> Answers], NEW shape \in Shapes,
         NEW method \in QueriesOf("tron")
  PROVE  Founded("tron", method, a[1], TronHandle(method, a, shape))
  <1> USE DEF Founded, Outcomes, Good, Empty, ErrorCode, GrpcError, Panicked
  <1>1. a[1] = "found" \/ a[1] = "null" \/ a[1] = "error"
    BY DEF Answers
  <1>2. CASE method \in Stubs
    BY <1>1, <1>2 DEF TronHandle, Stubs, Stub, Sponsored, Unfounded
  <1>3. CASE method = "GetLastestBlock"
    BY <1>1, <1>3 DEF TronHandle, Stubs, Sponsored, TronGetLastestBlock, OrZeros
  <1>4. CASE method = "GetTransactionByHash"
    BY <1>1, <1>4 DEF TronHandle, Stubs, Sponsored, TronGetTransactionByHash, OrZeros
  <1>5. CASE method = "GetTransactionByAddress"
    BY <1>1, <1>5 DEF TronHandle, Stubs, Sponsored, TronGetTransactionByAddress, OrElse
  <1>6. CASE method = "GetAccountBalance"
    BY <1>1, <1>6 DEF TronHandle, Stubs, Sponsored, TronGetAccountBalance, TronBalanceOfCoin,
                     TronBalanceOfResource, TronBalanceOfToken, OrZeros
  <1>7. QED
    BY <1>2, <1>3, <1>4, <1>5, <1>6 DEF QueriesOf, Queries, Stubs, Sponsored

LEMMA SolIsFounded ==
  ASSUME NEW a \in [1..3 -> Answers], NEW shape \in Shapes,
         NEW method \in QueriesOf("solana")
  PROVE  Founded("solana", method, a[1], SolHandle(method, a, shape))
  <1> USE DEF Founded, Outcomes, Good, Empty, ErrorCode, GrpcError, Panicked
  <1>1. a[1] = "found" \/ a[1] = "null" \/ a[1] = "error"
    BY DEF Answers
  <1>2. CASE method \in Stubs
    BY <1>1, <1>2 DEF SolHandle, Stubs, Stub, Sponsored, Unfounded
  <1>3. CASE method = "GetLastestBlock"
    BY <1>1, <1>3 DEF SolHandle, Stubs, Sponsored, SolGetLastestBlock, OrElse
  <1>4. CASE method = "GetBlock"
    BY <1>1, <1>4 DEF SolHandle, Stubs, Sponsored, SolGetBlock, OrZeros
  <1>5. CASE method = "GetTransactionByHash"
    BY <1>1, <1>5 DEF SolHandle, Stubs, Sponsored, SolGetTransactionByHash, OrElse
  <1>6. CASE method = "GetTransactionByAddress"
    BY <1>1, <1>6 DEF SolHandle, Stubs, Sponsored, SolGetTransactionByAddress, OrZeros
  <1>7. CASE method = "GetAccountBalance"
    BY <1>1, <1>7 DEF SolHandle, Stubs, Sponsored, SolGetAccountBalance, SolBalanceOfCoin,
                     SolBalanceOfToken, OrElse, OrZeros
  <1>8. QED
    BY <1>2, <1>3, <1>4, <1>5, <1>6, <1>7 DEF QueriesOf, Queries, Stubs, Sponsored

\* Whatever the adaptor, a query is answered from what the node said.
LEMMA QueryIsFounded ==
  ASSUME NEW chain \in Chains, NEW method \in QueriesOf(chain),
         NEW a \in [1..3 -> Answers], NEW shape \in Shapes
  PROVE  Founded(chain, method, a[1], Handle(chain, method, a, shape))
  BY EthIsFounded, BnbIsFounded, BtcIsFounded, TronIsFounded, SolIsFounded
     DEF Handle, Chains

\* A list has one answer for each item, and a malformed item a bad one.
ItemByItem(shapes, items) ==
    /\ Len(items) = Len(shapes)
    /\ \A i \in DOMAIN shapes : shapes[i] = "malformed" => items[i] = Bad

LEMMA ListIsItemByItem ==
  ASSUME NEW chain \in Chains, NEW method \in Lists, NEW shapes \in Seq(Shapes),
         <<chain, method>> # <<"bitcoin", "ValidAddresses">>
  PROVE  ItemByItem(shapes, HandleList(chain, method, shapes))
  <1> DEFINE items == HandleList(chain, method, shapes)
  <1>1. /\ DOMAIN items = DOMAIN shapes
        /\ \A i \in DOMAIN shapes : shapes[i] = "malformed" => items[i] = Bad
    BY DEF Chains, Lists, HandleList, BtcConvertAddresses, ConvertItem, ValidItem,
           EthConvertAddress, BnbConvertAddress, TronConvertAddress, SolConvertAddress,
           EthValidAddress, BnbValidAddress, TronValidAddress, SolValidAddress
  <1>2. Len(items) = Len(shapes)
    <2>1. DOMAIN items = 1..Len(shapes) /\ Len(shapes) \in Nat
      BY <1>1
    <2> HIDE DEF items
    <2>2. QED
      BY <2>1
  <1>3. QED
    BY <1>1, <1>2 DEF ItemByItem

\* Bitcoin's SendTransaction reports as sent what the node confirmed.
LEMMA SendIsItemByItem ==
  ASSUME NEW shapes \in Seq(Shapes), NEW a \in [DOMAIN shapes -> Answers]
  PROVE  /\ ItemByItem(shapes, BtcSendTransaction(a, shapes))
         /\ \A i \in DOMAIN BtcSendTransaction(a, shapes) :
               BtcSendTransaction(a, shapes)[i] = Good => a[i] = "found"
  <1> DEFINE items == BtcSendTransaction(a, shapes)
  <1>1. /\ DOMAIN items = DOMAIN shapes
        /\ \A i \in DOMAIN shapes :
              /\ shapes[i] = "malformed" => items[i] = Bad
              /\ items[i] = Good => a[i] = "found"
    BY DEF BtcSendTransaction, BtcSendItem, Good, Bad
  <1>2. Len(items) = Len(shapes)
    <2>1. DOMAIN items = 1..Len(shapes) /\ Len(shapes) \in Nat
      BY <1>1
    <2> HIDE DEF items
    <2>2. QED
      BY <2>1
  <1>3. QED
    BY <1>1, <1>2 DEF ItemByItem


-----------------------------------------------------------------------------
\* The inductive invariant

\* The chains the service answers for once it serves.
Adaptors == Range(Configured) \cap Supported

\* The command, the goroutine that serves and the calls start in this order;
\* nothing is served before every chain of the configuration was looked at.
OrderInv ==
    /\ main \in {"setup", "start"} => server = "none"
    /\ exit = "panic" => server = "none"
    /\ server \in {"serving", "returned"} => dial.chain \notin DOMAIN Configured
    /\ \A c \in Calls : phase[c] # "none" => /\ server = "serving"
                                             /\ request[c] \in Requests[c]

\* The registry has the adaptors of the chains looked at so far.
Seen == {Configured[i] : i \in {j \in DOMAIN Configured : j < dial.chain}}

RegistryInv == registry = Seen \cap Supported

\* The sleeps alone, of 1, 2 and 4 seconds, bring the third attempt past the
\* deadline of five.
DialInv ==
    /\ dial \in [chain : 1..Len(Configured) + 1, attempt : 0..3, elapsed : 0..13]
    /\ dial.attempt = 0 => dial.elapsed = 0
    /\ dial.attempt = 1 => dial.elapsed \in 1..6
    /\ dial.attempt = 2 => dial.elapsed \in 3..11
    /\ dial.attempt = 3 => dial.elapsed \in 7..13

\* What the interceptor sends on.
Recovered(r) == IF r.outcome = Panicked THEN JustSaid("codes.Internal") ELSE r

CallInv(c) ==
    phase[c] = "answered" =>
        IF request[c].token
        THEN \E r \in Dispatch(request[c]) : reply[c] = Recovered(r)
        ELSE reply[c] = JustSaid("codes.PermissionDenied")

CallsInv ==
    /\ request = [c \in Calls |-> request[c]]
    /\ reply = [c \in Calls |-> reply[c]]
    /\ \A c \in Calls : CallInv(c)

IInv == TypeOK /\ OrderInv /\ RegistryInv /\ DialInv /\ CallsInv

-----------------------------------------------------------------------------
\* Steps

\* Answers stand while the registry does.
LEMMA CallsStand ==
  ASSUME IInv, UNCHANGED <<registry, request, reply>>,
         \A c \in Calls : phase'[c] = "answered" => phase[c] = "answered"
  PROVE  CallsInv'
  <1>1. \A r : Dispatch(r)' = Dispatch(r)
    BY DEF Dispatch, preHandler
  <1>2. ASSUME NEW c \in Calls
        PROVE  CallInv(c)'
    BY <1>1 DEF IInv, CallsInv, CallInv
  <1>3. QED
    BY <1>2 DEF IInv, CallsInv

LEMMA ExitWhat ==
  ASSUME TypeOK, NEW how, Exit(how)
  PROVE  /\ exit' = how
         /\ phase' \in [Calls -> {"none", "running", "answered", "cut off"}]
         /\ \A c \in Calls : phase'[c] = "answered" => phase[c] = "answered"
         /\ \A c \in Calls : phase'[c] # "none" => phase[c] # "none"
  BY DEF Exit, TypeOK

\* Signals and the goroutines that wait for them touch nothing else.
LEMMA SignalKeeps ==
  ASSUME IInv, Signal \/ \E i \in 1..2 : BlockOnInterruptsContext(i)
  PROVE  IInv'
  <1>1. UNCHANGED <<processVars, serverVars, callVars>>
    BY DEF Signal, BlockOnInterruptsContext
  <1>2. /\ OrderInv' /\ RegistryInv' /\ DialInv' /\ CallsInv'
    BY <1>1, CallsStand
       DEF processVars, serverVars, callVars, IInv, OrderInv, RegistryInv, Seen, DialInv
  <1>3. TypeOK'
    <2>1. CASE Signal
      <3>1. signals' \in 0..MaxSignals
        <4>1. signals \in 0..MaxSignals /\ MaxSignals \in Nat
          BY ConstantsAssumption DEF IInv, TypeOK
        <4>2. signals < MaxSignals /\ signals' = signals + 1
          BY <2>1 DEF Signal
        <4>3. QED
          BY <4>1, <4>2
      <3>2. buffer' \in [1..2 -> BOOLEAN]
        BY <2>1 DEF Signal, IInv, TypeOK, Waiting
      <3>3. heard' \in BOOLEAN
        BY <2>1 DEF Signal, IInv, TypeOK, Waiting
      <3>4. QED
        BY <1>1, <2>1, <3>1, <3>2, <3>3
           DEF Signal, IInv, TypeOK, processVars, serverVars, callVars
    <2>2. ASSUME NEW i \in 1..2, BlockOnInterruptsContext(i)
          PROVE  TypeOK'
      BY <1>1, <2>2
         DEF BlockOnInterruptsContext, IInv, TypeOK, processVars, serverVars, callVars
    <2>3. QED
      BY <2>1, <2>2
  <1>4. QED
    BY <1>2, <1>3 DEF IInv

LEMMA CommandKeeps ==
  ASSUME IInv, Command
  PROVE  IInv'
  <1>1. UNCHANGED <<registry, dial, request, reply>>
    BY DEF Command, Setup, Start, AppDone, Stop, Return, serverVars, callVars
  <1>2. /\ phase' \in [Calls -> {"none", "running", "answered", "cut off"}]
        /\ \A c \in Calls : phase'[c] = "answered" => phase[c] = "answered"
        /\ \A c \in Calls : phase'[c] # "none" => phase[c] # "none"
    <2>1. (\E how : Exit(how)) \/ UNCHANGED phase
      BY DEF Command, Setup, Start, AppDone, Stop, Return, callVars
    <2>2. QED
      BY <2>1, ExitWhat DEF IInv, TypeOK
  <1>3. CallsInv'
    BY <1>1, <1>2, CallsStand
  <1>4. RegistryInv' /\ DialInv'
    BY <1>1 DEF IInv, RegistryInv, Seen, DialInv
  <1>5. OrderInv'
    <2>1. CASE Setup \/ Start
      <3>1. server = "none" /\ \A c \in Calls : phase[c] = "none"
        BY <2>1 DEF Setup, Start, IInv, OrderInv
      <3>2. /\ server' \in {"none", "dial"}
            /\ exit' = "panic" => server' = "none"
            /\ main' \in {"setup", "start"} => server' = "none"
        BY <2>1, <3>1 DEF Setup, Start, IInv, OrderInv, serverVars, Exit, Running
      <3>3. QED
        BY <1>1, <1>2, <3>1, <3>2 DEF OrderInv
    <2>2. CASE AppDone \/ Stop \/ Return
      <3>1. /\ server' = server /\ exit' # "panic"
            /\ main' \notin {"setup", "start"}
        BY <2>2 DEF AppDone, Stop, Return, serverVars, Exit, Running
      <3>2. QED
        BY <1>1, <1>2, <3>1 DEF IInv, OrderInv
    <2>3. QED
      BY <2>1, <2>2 DEF Command
  <1>6. TypeOK'
    <2>1. /\ main' \in {"setup", "start", "wait", "stop", "return"}
          /\ exit' \in {"running", "ended", "failed", "panic"}
          /\ server' \in {"none", "dial", "serving", "returned"}
          /\ stopped' \in BOOLEAN
      BY DEF Command, Setup, Start, AppDone, Stop, Return, serverVars, Exit,
             IInv, TypeOK
    <2>2. /\ UNCHANGED <<buffer, signals, heard, appDone>>
          /\ waiter' \in [1..2 -> {"none", "created", "registered", "selecting", "done"}]
      BY DEF Command, Setup, Start, AppDone, Stop, Return, signalVars, IInv, TypeOK
    <2>3. QED
      BY <1>1, <1>2, <2>1, <2>2 DEF IInv, TypeOK
  <1>7. QED
    BY <1>3, <1>4, <1>5, <1>6 DEF IInv


\* Looking at one more chain.
LEMMA SeenGrows ==
  ASSUME IInv, dial.chain \in DOMAIN Configured, dial'.chain = dial.chain + 1
  PROVE  Seen' = Seen \cup {Configured[dial.chain]}
  <1>1. DOMAIN Configured = 1..Len(Configured) /\ Len(Configured) \in Nat
    BY ConstantsAssumption
  <1>2. dial.chain \in 1..Len(Configured)
    BY <1>1
  <1>3. \A j \in DOMAIN Configured : j < dial.chain + 1 <=> j < dial.chain \/ j = dial.chain
    BY <1>1, <1>2
  <1>4. QED
    BY <1>3 DEF Seen

LEMMA ConnectKeeps ==
  ASSUME IInv, NewChainDispatcher
  PROVE  IInv'
  <1> DEFINE k == dial.chain
             c == Configured[k]
  <1>1. /\ server = "dial" /\ exit = "running" /\ k \in DOMAIN Configured
        /\ UNCHANGED <<command, main, stopped, signalVars, server, request, reply>>
    BY DEF NewChainDispatcher, Running
  <1>2. \A d \in Calls : phase[d] = "none"
    BY <1>1 DEF IInv, OrderInv
  <1>3. /\ k \in 1..Len(Configured) /\ Len(Configured) \in Nat
        /\ DOMAIN Configured = 1..Len(Configured)
    BY <1>1, ConstantsAssumption
  <1>4. \/ Adopt(c) /\ c \in Supported
        \/ /\ MayTry /\ UNCHANGED <<registry, exit, phase>>
           /\ \E s \in AttemptTakes :
                 dial' = [dial EXCEPT !.attempt = @ + 1,
                                      !.elapsed = @ + s +
                     (IF dial.attempt + 1 < DialAttempts THEN Duration(dial.attempt) ELSE 0)]
        \/ Exit("failed") /\ UNCHANGED <<registry, dial>>
        \/ /\ dial' = [dial EXCEPT !.chain = @ + 1] /\ c \notin Supported
           /\ UNCHANGED <<registry, exit, phase>>
    BY <1>1, ConstantsAssumption DEF NewChainDispatcher, DialEthClient, HasFactory
  <1>5. /\ exit' \in {"running", "failed"}
        /\ phase' \in [Calls -> {"none", "running", "answered", "cut off"}]
        /\ \A d \in Calls : phase'[d] = "none"
    <2>1. Exit("failed") \/ UNCHANGED <<exit, phase>>
      BY <1>4 DEF Adopt
    <2>2. QED
      BY <1>1, <1>2, <2>1, ExitWhat DEF IInv, TypeOK
  <1>6. OrderInv'
    BY <1>1, <1>5 DEF IInv, OrderInv
  <1>7. CallsInv'
    BY <1>1, <1>5 DEF IInv, CallsInv, CallInv
  <1>8. DialInv' /\ RegistryInv' /\ registry' \subseteq Supported
    <2>1. CASE Adopt(c) /\ c \in Supported
      <3>1. dial' = [chain |-> k + 1, attempt |-> 0, elapsed |-> 0]
        BY <2>1 DEF Adopt, NoDial
      <3>2. DialInv'
        BY <1>3, <3>1 DEF DialInv
      <3>3. registry' = registry \cup {c} /\ Seen' = Seen \cup {c}
        BY <1>1, <2>1, <3>1, SeenGrows DEF Adopt
      <3>4. QED
        BY <2>1, <3>2, <3>3 DEF IInv, TypeOK, RegistryInv
    <2>2. CASE /\ MayTry /\ UNCHANGED <<registry, exit, phase>>
               /\ \E s \in AttemptTakes :
                     dial' = [dial EXCEPT !.attempt = @ + 1,
                                          !.elapsed = @ + s +
                         (IF dial.attempt + 1 < DialAttempts
                          THEN Duration(dial.attempt) ELSE 0)]
      <3>1. PICK s \in 0..5 :
               /\ dial.elapsed < 5
               /\ dial' = [dial EXCEPT !.attempt = @ + 1,
                                       !.elapsed = @ + s +
                     (IF dial.attempt + 1 < 5 THEN Duration(dial.attempt) ELSE 0)]
        BY <2>2 DEF MayTry, AttemptTakes, DialTimeout, DialAttempts
      <3>2. /\ dial \in [chain : 1..Len(Configured) + 1, attempt : 0..3, elapsed : 0..13]
            /\ dial.attempt \in 0..2
        BY <3>1 DEF IInv, DialInv
      <3>3. /\ dial'.chain = dial.chain
            /\ dial'.attempt = dial.attempt + 1
            /\ dial'.elapsed = dial.elapsed + s + Duration(dial.attempt)
        BY <3>1, <3>2
      <3>8. dial' = [chain |-> dial'.chain, attempt |-> dial'.attempt,
                     elapsed |-> dial'.elapsed]
        <4>1. dial = [chain |-> dial.chain, attempt |-> dial.attempt,
                      elapsed |-> dial.elapsed]
          BY <3>2
        <4>2. \E x, y : dial' = [dial EXCEPT !.attempt = x, !.elapsed = y]
          BY <3>1
        <4>3. QED
          BY <4>1, <4>2
      <3>4. Duration(0) = 1 /\ Duration(1) = 2 /\ Duration(2) = 4
        <4>1. 2^0 = 1 /\ 2^1 = 2 /\ 2^2 = 4
          OBVIOUS
        <4>2. QED
          BY <4>1 DEF Duration
      <3>5. \/ dial.attempt = 0 /\ dial'.attempt = 1 /\ dial'.elapsed \in 1..6
            \/ dial.attempt = 1 /\ dial'.attempt = 2 /\ dial'.elapsed \in 3..11
            \/ dial.attempt = 2 /\ dial'.attempt = 3 /\ dial'.elapsed \in 7..13
        <4>1. CASE dial.attempt = 0
          BY <3>1, <3>3, <3>4, <4>1 DEF IInv, DialInv
        <4>2. CASE dial.attempt = 1
          BY <3>1, <3>3, <3>4, <4>2 DEF IInv, DialInv
        <4>3. CASE dial.attempt = 2
          BY <3>1, <3>3, <3>4, <4>3 DEF IInv, DialInv
        <4>4. QED
          BY <3>2, <4>1, <4>2, <4>3
      <3>6. DialInv'
        <4>1. dial' \in [chain : 1..Len(Configured) + 1, attempt : 0..3, elapsed : 0..13]
          BY <3>2, <3>3, <3>5, <3>8
        <4>2. QED
          BY <3>5, <4>1 DEF DialInv
      <3>7. QED
        BY <2>2, <3>3, <3>6 DEF IInv, TypeOK, RegistryInv, Seen
    <2>3. CASE Exit("failed") /\ UNCHANGED <<registry, dial>>
      BY <2>3 DEF IInv, TypeOK, DialInv, RegistryInv, Seen
    <2>4. CASE /\ dial' = [dial EXCEPT !.chain = @ + 1] /\ c \notin Supported
               /\ UNCHANGED <<registry, exit, phase>>
      <3>1. /\ dial'.chain = k + 1
            /\ dial' = [chain |-> k + 1, attempt |-> dial.attempt,
                        elapsed |-> dial.elapsed]
        BY <2>4 DEF IInv, DialInv
      <3>2. DialInv'
        BY <1>3, <3>1 DEF IInv, DialInv
      <3>3. Seen' = Seen \cup {c}
        BY <1>1, <3>1, SeenGrows
      <3>4. QED
        BY <2>4, <3>2, <3>3 DEF IInv, TypeOK, RegistryInv
    <2>5. QED
      BY <1>4, <2>1, <2>2, <2>3, <2>4
  <1>9. TypeOK'
    BY <1>1, <1>5, <1>8 DEF IInv, TypeOK, DialInv, signalVars
  <1>10. QED
    BY <1>6, <1>7, <1>8, <1>9 DEF IInv

LEMMA ListenKeeps ==
  ASSUME IInv, Listen
  PROVE  IInv'
  <1>1. /\ UNCHANGED <<processVars, signalVars, registry, dial, callVars>>
        /\ server = "dial" /\ server' \in {"serving", "returned"} /\ exit = "running"
        /\ dial.chain \notin DOMAIN Configured
    BY DEF Listen, Running
  <1>2. CallsInv'
    BY <1>1, CallsStand DEF callVars
  <1>3. OrderInv'
    BY <1>1 DEF IInv, OrderInv, processVars, callVars
  <1>4. RegistryInv' /\ DialInv'
    BY <1>1 DEF IInv, RegistryInv, Seen, DialInv
  <1>5. TypeOK'
    BY <1>1 DEF IInv, TypeOK, processVars, signalVars, callVars
  <1>6. QED
    BY <1>2, <1>3, <1>4, <1>5 DEF IInv

LEMMA ArriveKeeps ==
  ASSUME IInv, NEW c \in Calls, Arrive(c)
  PROVE  IInv'
  <1>1. /\ UNCHANGED <<processVars, signalVars, serverVars, reply>>
        /\ server = "serving" /\ phase' = [phase EXCEPT ![c] = "running"]
    BY DEF Arrive
  <1>2. PICK r \in Requests[c] : request' = [request EXCEPT ![c] = r]
    BY DEF Arrive
  <1>3. /\ phase' \in [Calls -> {"none", "running", "answered", "cut off"}]
        /\ phase'[c] = "running" /\ \A d \in Calls \ {c} : phase'[d] = phase[d]
    BY <1>1 DEF IInv, TypeOK
  <1>4. /\ request' = [d \in Calls |-> request'[d]]
        /\ request'[c] = r /\ \A d \in Calls \ {c} : request'[d] = request[d]
    BY <1>2 DEF IInv, CallsInv
  <1>5. CallsInv'
    <2>1. \A x : Dispatch(x)' = Dispatch(x)
      BY <1>1 DEF Dispatch, preHandler, serverVars
    <2>2. ASSUME NEW d \in Calls
          PROVE  CallInv(d)'
      BY <1>1, <1>3, <1>4, <2>1 DEF IInv, CallsInv, CallInv
    <2>3. QED
      BY <1>1, <1>4, <2>2 DEF IInv, CallsInv
  <1>6. OrderInv'
    BY <1>1, <1>3, <1>4 DEF IInv, OrderInv, processVars, serverVars
  <1>7. RegistryInv' /\ DialInv'
    BY <1>1 DEF IInv, RegistryInv, Seen, DialInv, serverVars
  <1>8. TypeOK'
    BY <1>1, <1>3 DEF IInv, TypeOK, processVars, signalVars, serverVars
  <1>9. QED
    BY <1>5, <1>6, <1>7, <1>8 DEF IInv

\* A panic of the handler is an error of its call.
LEMMA AnswerWhat ==
  ASSUME NEW c \in Calls, NEW r, Answer(c, r)
  PROVE  /\ reply' = [reply EXCEPT ![c] = Recovered(r)]
         /\ phase' = [phase EXCEPT ![c] = "answered"]
         /\ UNCHANGED exit
  BY DEF Answer, Recover, Recovered

LEMMA ServeKeeps ==
  ASSUME IInv, NEW c \in Calls, Serve(c)
  PROVE  IInv'
  <1>1. /\ phase[c] = "running"
        /\ UNCHANGED <<command, main, stopped, signalVars, serverVars, request>>
    BY DEF Serve
  <1>2. PICK r : /\ Answer(c, r)
                 /\ IF request[c].token THEN r \in Dispatch(request[c])
                                        ELSE r = JustSaid("codes.PermissionDenied")
    BY DEF Serve
  <1>3. Recovered(JustSaid("codes.PermissionDenied")) = JustSaid("codes.PermissionDenied")
    BY DEF Recovered, JustSaid, Reply, Panicked
  <1>4. /\ phase' \in [Calls -> {"none", "running", "answered", "cut off"}]
        /\ phase'[c] = "answered" /\ \A d \in Calls \ {c} : phase'[d] = phase[d]
    BY <1>2, AnswerWhat DEF IInv, TypeOK
  <1>5. /\ reply' = [d \in Calls |-> reply'[d]] /\ UNCHANGED exit
        /\ reply'[c] = Recovered(r) /\ \A d \in Calls \ {c} : reply'[d] = reply[d]
    BY <1>2, AnswerWhat DEF IInv, CallsInv
  <1>6. CallsInv'
    <2>1. \A x : Dispatch(x)' = Dispatch(x)
      BY <1>1 DEF Dispatch, preHandler, serverVars
    <2>2. CallInv(c)'
      BY <1>1, <1>2, <1>3, <1>5, <2>1 DEF CallInv
    <2>3. ASSUME NEW d \in Calls \ {c}
          PROVE  CallInv(d)'
      BY <1>1, <1>4, <1>5, <2>1 DEF IInv, CallsInv, CallInv
    <2>4. QED
      BY <1>1, <1>5, <2>2, <2>3 DEF IInv, CallsInv
  <1>7. OrderInv'
    BY <1>1, <1>4, <1>5 DEF IInv, OrderInv, serverVars
  <1>8. RegistryInv' /\ DialInv'
    BY <1>1 DEF IInv, RegistryInv, Seen, DialInv, serverVars
  <1>9. TypeOK'
    BY <1>1, <1>4, <1>5 DEF IInv, TypeOK, signalVars, serverVars
  <1>10. QED
    BY <1>6, <1>7, <1>8, <1>9 DEF IInv

LEMMA GatewayInvStep == IInv /\ [Next]_vars => IInv'
  <1> SUFFICES ASSUME IInv, [Next]_vars PROVE IInv'
    OBVIOUS
  <1>1. CASE UNCHANGED vars
    <2>1. UNCHANGED <<processVars, signalVars, serverVars, callVars>>
      BY <1>1 DEF vars
    <2>2. CallsInv'
      BY <2>1, CallsStand DEF serverVars, callVars
    <2>3. TypeOK' /\ OrderInv'
      BY <2>1 DEF IInv, TypeOK, OrderInv, processVars, signalVars, serverVars, callVars
    <2>4. RegistryInv' /\ DialInv'
      BY <2>1 DEF IInv, RegistryInv, Seen, DialInv, processVars, signalVars, serverVars, callVars
    <2>5. QED
      BY <2>2, <2>3, <2>4 DEF IInv
  <1>2. CASE Next
    BY <1>2, SignalKeeps, CommandKeeps, ConnectKeeps, ListenKeeps, ArriveKeeps, ServeKeeps
       DEF Next, Server
  <1>3. QED
    BY <1>1, <1>2

LEMMA GatewayInvInit == Init => IInv
  <1> SUFFICES ASSUME Init PROVE IInv
    OBVIOUS
  <1>1. DOMAIN Configured = 1..Len(Configured) /\ Len(Configured) \in Nat
    BY ConstantsAssumption
  <1>2. TypeOK
    <2>1. MaxSignals \in Nat
      BY ConstantsAssumption
    <2>2. <<"created", "none">> \in
             [1..2 -> {"none", "created", "registered", "selecting", "done"}]
      OBVIOUS
    <2>3. <<FALSE, FALSE>> \in [1..2 -> BOOLEAN]
      <3>1. \A S : \A x \in S : <<x, x>> \in [1..2 -> S]
        OBVIOUS
      <3>2. FALSE \in BOOLEAN
        OBVIOUS
      <3>3. QED
        BY <3>1, <3>2, Zenon
    <2>4. dial.chain \in 1..Len(Configured) + 1
      BY <1>1 DEF Init, NoDial
    <2>5. waiter = <<"created", "none">> /\ buffer = <<FALSE, FALSE>>
      BY DEF Init
    <2>6. /\ waiter \in [1..2 -> {"none", "created", "registered", "selecting", "done"}]
          /\ buffer \in [1..2 -> BOOLEAN]
      BY <2>2, <2>3, <2>5, Zenon
    <2>7. {heard, appDone, stopped} \subseteq BOOLEAN
      BY DEF Init
    <2>8. phase \in [Calls -> {"none", "running", "answered", "cut off"}]
      BY DEF Init
    <2>9. /\ signals \in 0..MaxSignals /\ registry \subseteq Supported
          /\ main = "setup" /\ exit = "running" /\ server = "none"
      BY <2>1 DEF Init
    <2>10. QED
      BY <2>4, <2>6, <2>7, <2>8, <2>9 DEF TypeOK
  <1>3. OrderInv
    BY DEF Init, OrderInv
  <1>4. RegistryInv
    BY <1>1 DEF Init, RegistryInv, Seen, NoDial
  <1>5. DialInv
    BY <1>1 DEF Init, DialInv, NoDial
  <1>6. CallsInv
    BY DEF Init, CallsInv, CallInv
  <1>7. QED
    BY <1>2, <1>3, <1>4, <1>5, <1>6 DEF IInv

LEMMA GatewayInvHolds == Spec => []IInv
  BY GatewayInvInit, GatewayInvStep, PTL DEF Spec


-----------------------------------------------------------------------------
\* What a service that has looked at every chain answers

\* A call served finds every adaptor in the registry.
LEMMA RegistryIsFull ==
  ASSUME IInv, server = "serving"
  PROVE  registry = Adaptors
  <1>1. DOMAIN Configured = 1..Len(Configured) /\ Len(Configured) \in Nat
    BY ConstantsAssumption
  <1>2. dial.chain = Len(Configured) + 1
    BY <1>1 DEF IInv, OrderInv, DialInv
  <1>3. Seen = Range(Configured)
    BY <1>1, <1>2 DEF Seen, Range
  <1>4. QED
    BY <1>3 DEF IInv, RegistryInv, Adaptors

\* What is true of the reply r to request q.
RefusedRight(q, r) == r.outcome = "unsupported" <=> q.chain \notin Adaptors

NodeSaidSo(q, r) ==
    r.node # <<>> /\ <<q.chain, q.method>> \notin Unfounded
    => IF q.method = "SendTransaction"
       THEN \A i \in DOMAIN r.items : r.items[i] = Good => r.node[i] = "found"
       ELSE /\ r.outcome = Good  => r.node[1] = "found"
            /\ r.outcome = Empty => r.node[1] # "error"

ListRight(q, r) ==
    /\ r.outcome = Good
    /\ q.method \in Lists \cup {"SendTransaction"}
    /\ <<q.chain, q.method>> # <<"bitcoin", "ValidAddresses">>
    => ItemByItem(q.shapes, r.items)

Right(q, r) == RefusedRight(q, r) /\ NodeSaidSo(q, r) /\ ListRight(q, r)

LEMMA ReplyParts ==
  ASSUME NEW o, NEW i, NEW n
  PROVE  Reply(o, i, n).outcome = o /\ Reply(o, i, n).items = i /\ Reply(o, i, n).node = n
  BY DEF Reply

LEMMA SaidParts ==
  ASSUME NEW o
  PROVE  JustSaid(o).outcome = o /\ JustSaid(o).node = <<>>
  BY ReplyParts DEF JustSaid

\* Every handler of the dispatcher answers so.
LEMMA DispatchIsRight ==
  ASSUME registry = Adaptors, NEW c \in Calls, NEW q \in Requests[c],
         q.method # "GetSupportChains", NEW r \in Dispatch(q)
  PROVE  Right(q, r)
  <1>1. q.shapes \in Seq(Shapes) /\ q.shapes # <<>> /\ Answered(q)
    BY ConstantsAssumption
  <1>2. CASE q.chain \notin Adaptors
    <2>1. r = JustSaid("unsupported")
      BY <1>2 DEF Dispatch, preHandler
    <2>2. QED
      BY <1>2, <2>1, SaidParts
         DEF Right, RefusedRight, NodeSaidSo, ListRight, Good, Empty
  <1>3. CASE q.chain \in Adaptors
    <2>1. q.chain \in Chains /\ q.chain \in Supported
      BY <1>3, ConstantsAssumption DEF Adaptors
    <2>2. CASE q.method \in Lists
      <3> DEFINE items == HandleList(q.chain, q.method, q.shapes)
      <3>1. r = ReplyToList(q)
        BY <1>3, <2>2 DEF Dispatch, preHandler, Lists
      <3>2. CASE \E i \in DOMAIN items : items[i] = Panicked
        <4>1. r = JustSaid(Panicked)
          BY <3>1, <3>2 DEF ReplyToList
        <4>2. QED
          BY <1>3, <4>1, SaidParts
             DEF Right, RefusedRight, NodeSaidSo, ListRight, Good, Panicked
      <3>3. CASE ~\E i \in DOMAIN items : items[i] = Panicked
        <4>1. r = Reply(Good, items, <<>>)
          BY <3>1, <3>3 DEF ReplyToList
        <4>2. ListRight(q, r)
          BY <1>1, <2>1, <2>2, <4>1, ReplyParts, ListIsItemByItem DEF ListRight
        <4>3. QED
          BY <1>3, <4>1, <4>2, ReplyParts DEF Right, RefusedRight, NodeSaidSo, Good
      <3>4. QED
        BY <3>2, <3>3
    <2>3. CASE q.method = "SendTransaction"
      <3>1. PICK a \in [DOMAIN q.shapes -> Answers] :
               r = Reply(Good, BtcSendTransaction(a, q.shapes), a)
        BY <1>3, <2>3 DEF Dispatch, preHandler, Lists, ReplyToSend
      <3>2. ListRight(q, r) /\ NodeSaidSo(q, r)
        BY <1>1, <2>3, <3>1, ReplyParts, SendIsItemByItem DEF ListRight, NodeSaidSo
      <3>3. QED
        BY <1>3, <3>1, <3>2, ReplyParts DEF Right, RefusedRight, Good
    <2>4. CASE q.method \notin Lists /\ q.method # "SendTransaction"
      <3>1. q.method \in QueriesOf(q.chain)
        BY <1>1, <2>1, <2>4 DEF Answered
      <3>2. PICK a \in [1..3 -> Answers] :
               r = Reply(Handle(q.chain, q.method, a, q.shapes[1]), <<>>, <<a[1]>>)
        BY <1>3, <2>4 DEF Dispatch, preHandler, ReplyToQuery
      <3>3. q.shapes[1] \in Shapes
        BY <1>1
      <3>4. Founded(q.chain, q.method, a[1], r.outcome)
        BY <2>1, <3>1, <3>2, <3>3, ReplyParts, QueryIsFounded
      <3>5. r.node = <<a[1]>>
        BY <3>2, ReplyParts
      <3>6. r.outcome \in Outcomes /\ "unsupported" \notin Outcomes
        BY <3>4 DEF Founded, Outcomes, Good, Empty, ErrorCode, GrpcError, Panicked
      <3>7. NodeSaidSo(q, r)
        BY <2>4, <3>4, <3>5 DEF NodeSaidSo, Founded
      <3>8. QED
        BY <1>3, <2>4, <3>6, <3>7 DEF Right, RefusedRight, ListRight
    <2>5. QED
      BY <2>2, <2>3, <2>4
  <1>4. QED
    BY <1>2, <1>3

\* And so does the interceptor, when it turns a panic into an error.
LEMMA RecoveredIsRight ==
  ASSUME NEW q, NEW r, Right(q, r)
  PROVE  Right(q, Recovered(r))
  <1>1. CASE r.outcome = Panicked
    <2>1. Recovered(r) = JustSaid("codes.Internal") /\ q.chain \in Adaptors
      BY <1>1 DEF Recovered, Right, RefusedRight, Panicked
    <2>2. QED
      BY <2>1, SaidParts DEF Right, RefusedRight, NodeSaidSo, ListRight, Good, Empty
  <1>2. QED
    BY <1>1 DEF Recovered

\* What was answered to a call that was let in and names a chain.
LEMMA ReplyIsRight ==
  ASSUME IInv, NEW c \in Calls, phase[c] = "answered", request[c].token,
         request[c].method # "GetSupportChains"
  PROVE  Right(request[c], reply[c])
  <1>1. registry = Adaptors /\ request[c] \in Requests[c]
    BY RegistryIsFull DEF IInv, OrderInv
  <1>2. PICK r \in Dispatch(request[c]) : reply[c] = Recovered(r)
    BY DEF IInv, CallsInv, CallInv
  <1>3. QED
    BY <1>1, <1>2, DispatchIsRight, RecoveredIsRight

\* The list of chains asks no node, and neither does a refusal.
LEMMA ElseNoNode ==
  ASSUME IInv, NEW c \in Calls, phase[c] = "answered",
         ~request[c].token \/ request[c].method = "GetSupportChains"
  PROVE  /\ reply[c].node = <<>>
         /\ reply[c].outcome = Good => request[c].method = "GetSupportChains"
  <1>1. CASE ~request[c].token
    BY <1>1, SaidParts DEF IInv, CallsInv, CallInv, Good
  <1>2. CASE request[c].token /\ request[c].method = "GetSupportChains"
    <2>1. reply[c] = Recovered(Reply(Good, Configured, <<>>))
      BY <1>2 DEF IInv, CallsInv, CallInv, Dispatch
    <2>2. QED
      BY <1>2, <2>1, ReplyParts DEF Recovered, Good, Panicked
  <1>3. QED
    BY <1>1, <1>2

-----------------------------------------------------------------------------
\* Results

\* The command, its goroutines, the registry and the calls stay what they may
\* be, in whatever order signals, connections and calls come.
THEOREM GatewayTypesHold == Spec => []TypeOK
  <1>1. IInv => TypeOK
    BY DEF IInv
  <1>2. QED
    BY <1>1, GatewayInvHolds, PTL

\* DialEthClient gives up after at most three attempts and in less than 14
\* seconds, past its deadline of 5 where an attempt or a sleep is under way then.
THEOREM DialIsBounded == Spec => []DialEndsInTime
  <1>1. IInv => DialEndsInTime
    BY DEF IInv, DialInv, DialEndsInTime, DialTimeout
  <1>2. QED
    BY <1>1, GatewayInvHolds, PTL

\* The interceptor's recover keeps a handler's panic to its call.
THEOREM PanicIsConfined == Spec => []PanicStaysInCall
  <1>1. IInv => PanicStaysInCall
    BY DEF IInv, OrderInv, PanicStaysInCall
  <1>2. QED
    BY <1>1, GatewayInvHolds, PTL

\* NewChainDispatcher fills the registry before the first call, so preHandler
\* refuses exactly the chains that are not configured or have no factory.
THEOREM RefusalIsRight == Spec => []RefusedIffUnsupported
  <1>1. IInv => RefusedIffUnsupported
    BY ReplyIsRight DEF RefusedIffUnsupported, Right, RefusedRight, Adaptors
  <1>2. QED
    BY <1>1, GatewayInvHolds, PTL

\* Of the five adaptors' query handlers, those that answer with a success had
\* it from their node, with the exceptions that Unfounded names.
THEOREM SuccessIsFounded == Spec => []SuccessIsOfTheNode
  <1>1. IInv => SuccessIsOfTheNode
    <2> SUFFICES ASSUME IInv, NEW c \in Calls, phase[c] = "answered",
                        reply[c].node # <<>>
                 PROVE  NodeSaidSo(request[c], reply[c])
      BY DEF SuccessIsOfTheNode, NodeSaidSo
    <2>1. request[c].token /\ request[c].method # "GetSupportChains"
      BY ElseNoNode
    <2>2. QED
      BY <2>1, ReplyIsRight DEF Right
  <1>2. QED
    BY <1>1, GatewayInvHolds, PTL

\* ConvertAddresses, ValidAddresses and Bitcoin's SendTransaction answer item
\* by item.
THEOREM ListsAreAnswered == Spec => []OneAnswerPerItem
  <1>1. IInv => OneAnswerPerItem
    <2> SUFFICES ASSUME IInv, NEW c \in Calls, phase[c] = "answered",
                        reply[c].outcome = Good,
                        request[c].method \in Lists \cup {"SendTransaction"},
                        <<request[c].chain, request[c].method>>
                           # <<"bitcoin", "ValidAddresses">>
                 PROVE  ItemByItem(request[c].shapes, reply[c].items)
      BY DEF OneAnswerPerItem, ItemByItem
    <2>1. request[c].token /\ request[c].method # "GetSupportChains"
      BY ElseNoNode DEF Lists
    <2>2. QED
      BY <2>1, ReplyIsRight DEF Right, ListRight
  <1>2. QED
    BY <1>1, GatewayInvHolds, PTL

=============================================================================
