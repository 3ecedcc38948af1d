------------------------------ MODULE Gateway ------------------------------
(***************************************************************************)
(* The process around the adaptors: the command that starts and stops the  *)
(* service (common/cliapp/lifecycle.go, common/opio/interrupts.go), the    *)
(* goroutine that connects to the nodes and serves (services/grpc,         *)
(* chaindispatcher, common/retry), and the calls it serves, each in a      *)
(* goroutine of its own behind the interceptor.                            *)
(***************************************************************************)
EXTENDS ReadHandlers, Functions

CONSTANTS
    Configured,   \* the chains of the configuration, in order
    Supported,    \* those the dispatcher has a factory for
    Dialed,       \* those whose factory connects to a node with DialEthClient
    Calls,        \* calls of clients
    Requests,     \* what each may ask for
    MaxSignals    \* bound: signals the process receives

DialTimeout  == 5     \* seconds: defaultDialTimeout, and that of IsURLAvailable
DialAttempts == 5     \* defaultDialAttempts

Lists == {"ConvertAddresses", "ValidAddresses"}

\* The requests that this module answers; those that build, sign or send are
\* answered in the adaptors' own modules, save Bitcoin's.
Answered(r) ==
    \/ r.chain \notin Supported
    \/ r.method \in QueriesOf(r.chain) \cup Lists \cup {"GetSupportChains"}
    \/ r.chain = "bitcoin" /\ r.method = "SendTransaction"

ASSUME ConstantsAssumption ==
    /\ Configured \in Seq(Range(Configured))
    /\ Supported \subseteq Chains
    /\ Dialed \subseteq Supported
    /\ MaxSignals \in Nat
    /\ \A c \in Calls : \A r \in Requests[c] :
          r.token \in BOOLEAN /\ r.shapes \in Seq(Shapes) \ {<<>>} /\ Answered(r)

VARIABLES
    command,   \* "rpc" or "api"
    main,      \* where lifecycleCmd is
    exit,      \* how the process ended
    waiter,    \* the goroutines that wait for a signal: the first and the second
    buffer,    \* whether their channels hold a signal
    signals,   \* signals received
    heard,     \* history: one of them found the first channel registered
    appDone,   \* appCtx is cancelled
    stopped,   \* the flag that Stop sets
    server,    \* where the goroutine of Start is
    registry,  \* the chains the dispatcher has an adaptor for
    dial,      \* the connection being made: attempts begun, seconds gone
    request,   \* what each call asks for: [token, chain, method, shapes], where
               \* shapes are its items, one for a method that takes no list
    phase,     \* where each call is
    reply      \* its outcome, the items of a list, and what the node answered

processVars == <<command, main, exit, stopped>>
signalVars  == <<waiter, buffer, signals, heard, appDone>>
serverVars  == <<server, registry, dial>>
callVars    == <<request, phase, reply>>
vars        == <<processVars, signalVars, serverVars, callVars>>

Running == exit = "running"

-----------------------------------------------------------------------------
NoDial   == [chain |-> 1, attempt |-> 0, elapsed |-> 0]
NoCall   == [token |-> FALSE, chain |-> "none", method |-> "none", shapes |-> <<>>]

Reply(outcome, items, node) == [outcome |-> outcome, items |-> items, node |-> node]
JustSaid(outcome)           == Reply(outcome, <<>>, <<>>)

\* Those with a lifecycle; "version" prints and ends.
Commands == {"rpc", "api"}

Init ==
    /\ command \in Commands
    /\ main = "setup"
    /\ exit = "running"
    /\ waiter = <<"created", "none">>
    /\ buffer = <<FALSE, FALSE>>
    /\ signals = 0
    /\ heard = FALSE
    /\ appDone = FALSE
    /\ stopped = FALSE
    /\ server = "none"
    /\ registry = {}
    /\ dial = NoDial
    /\ request = [c \in Calls |-> NoCall]
    /\ phase = [c \in Calls |-> "none"]
    /\ reply = [c \in Calls |-> JustSaid("none")]

\* The end of the process takes every goroutine with it.
Exit(how) ==
    /\ exit' = how
    /\ phase' = [c \in Calls |-> IF phase[c] = "running" THEN "cut off" ELSE phase[c]]

-----------------------------------------------------------------------------
\* Signals.  The catcher that main installs is always registered, so that no
\* signal ends the process by itself; it is never read.

Waiting(i) == waiter[i] \in {"registered", "selecting"}

\* A slip: the channel has no buffer, and a signal between Notify and select
\* finds nobody.
SignalUnbuffered ==
    /\ Running
    /\ signals < MaxSignals
    /\ signals' = signals + 1
    /\ buffer' = [i \in 1..2 |-> buffer[i] \/ waiter[i] = "selecting"]
    /\ heard' = (heard \/ Waiting(1))
    /\ UNCHANGED <<waiter, appDone, processVars, serverVars, callVars>>

Signal ==
    /\ Running
    /\ signals < MaxSignals
    /\ signals' = signals + 1
    /\ buffer' = [i \in 1..2 |-> buffer[i] \/ Waiting(i)]
    /\ heard' = (heard \/ Waiting(1))
    /\ UNCHANGED <<waiter, appDone, processVars, serverVars, callVars>>

\* BlockOnInterruptsContext: Notify, then select on the channel or the context.
\* The first waits on appCtx, which it alone cancels; the second on stopCtx.
BlockOnInterruptsContext(i) ==
    /\ Running
    /\ \/ /\ waiter[i] = "created"
          /\ waiter' = [waiter EXCEPT ![i] = "registered"]
          /\ UNCHANGED <<buffer, appDone>>
       \/ /\ waiter[i] = "registered"
          /\ waiter' = [waiter EXCEPT ![i] = "selecting"]
          /\ UNCHANGED <<buffer, appDone>>
       \/ /\ waiter[i] = "selecting" /\ buffer[i]
          /\ waiter' = [waiter EXCEPT ![i] = "done"]
          /\ buffer' = [buffer EXCEPT ![i] = FALSE]
          /\ appDone' = (appDone \/ i = 1)
    /\ UNCHANGED <<signals, heard, processVars, serverVars, callVars>>

-----------------------------------------------------------------------------
\* lifecycleCmd

\* NewConfig reads the file; it may be missing or not be YAML.
NewConfig == {"config", "failed"}

Setup ==
    /\ Running /\ main = "setup"
    /\ \E config \in NewConfig :
          IF command = "rpc" /\ config = "failed"
          THEN Exit("failed") /\ UNCHANGED main
          ELSE main' = "start" /\ UNCHANGED <<exit, phase>>
    /\ UNCHANGED <<command, stopped, signalVars, serverVars, request, reply>>

\* GrpcService.Start launches the goroutine; the "api" command has no
\* lifecycle to call Start of.
Start ==
    /\ Running /\ main = "start"
    /\ IF command = "api"
       THEN Exit("panic") /\ UNCHANGED <<main, server>>
       ELSE main' = "wait" /\ server' = "dial" /\ UNCHANGED <<exit, phase>>
    /\ UNCHANGED <<command, stopped, signalVars, registry, dial, request, reply>>

AppDone ==
    /\ Running /\ main = "wait" /\ appDone
    /\ main' = "stop"
    /\ waiter' = [waiter EXCEPT ![2] = "created"]
    /\ UNCHANGED <<command, exit, stopped, buffer, signals, heard, appDone,
                   serverVars, callVars>>

\* GrpcService.Stop sets a flag that the goroutine does not read.
Stop ==
    /\ Running /\ main = "stop"
    /\ stopped' = TRUE
    /\ main' = "return"
    /\ UNCHANGED <<command, exit, signalVars, serverVars, callVars>>

Return ==
    /\ Running /\ main = "return"
    /\ Exit("ended")
    /\ UNCHANGED <<command, main, stopped, signalVars, serverVars, request, reply>>

-----------------------------------------------------------------------------
\* The goroutine of Start: NewChainDispatcher, listen, serve

Adopt(c) ==
    /\ registry' = registry \cup {c}
    /\ dial' = [NoDial EXCEPT !.chain = dial.chain + 1]
    /\ UNCHANGED <<exit, phase>>

\* The seconds an attempt takes, and those retry.Do sleeps after it; the
\* jitter of a quarter of a second is rounded down.
AttemptTakes  == 0..DialTimeout
Duration(i)   == IF 2^i > 10 THEN 10 ELSE 2^i

\* A slip: retry.Do without the look at its context.
DialWithoutDeadline(c) ==
    \/ Adopt(c)
    \/ /\ dial.attempt < DialAttempts
       /\ \E s \in AttemptTakes :
             dial' = [dial EXCEPT !.attempt = @ + 1,
                                  !.elapsed = @ + s + Duration(dial.attempt)]
       /\ UNCHANGED <<registry, exit, phase>>
    \/ dial.attempt = DialAttempts /\ Exit("failed") /\ UNCHANGED <<registry, dial>>

\* retry.Do looks at its context and at its attempts before each of them.
MayTry == dial.elapsed < DialTimeout /\ dial.attempt < DialAttempts

\* One turn of retry.Do in DialEthClient.  IsURLAvailable does not see the
\* context, which is looked at between the attempts alone.
DialEthClient(c) ==
    \/ MayTry /\ Adopt(c)
    \/ /\ MayTry
       /\ \E s \in AttemptTakes :
             dial' = [dial EXCEPT !.attempt = @ + 1,
                                  !.elapsed = @ + s +
                 (IF dial.attempt + 1 < DialAttempts THEN Duration(dial.attempt) ELSE 0)]
       /\ UNCHANGED <<registry, exit, phase>>
    \/ /\ ~MayTry
       /\ Exit("failed")                                        \* log.Crit
       /\ UNCHANGED <<registry, dial>>

\* A slip: a chain without a factory is entered with a nil adaptor.
EveryChain(c) == TRUE

HasFactory(c) == c \in Supported

\* The loop over the configured chains; one without a factory is logged.
NewChainDispatcher ==
    /\ Running /\ server = "dial"
    /\ dial.chain \in DOMAIN Configured
    /\ LET c == Configured[dial.chain]
       IN  \/ c \in Dialed /\ DialEthClient(c)
           \/ c \notin Dialed /\ HasFactory(c) /\ Adopt(c)
           \/ HasFactory(c) /\ Exit("failed") /\ UNCHANGED <<registry, dial>>
           \/ /\ ~HasFactory(c)
              /\ dial' = [dial EXCEPT !.chain = @ + 1]
              /\ UNCHANGED <<registry, exit, phase>>
    /\ UNCHANGED <<command, main, stopped, signalVars, server, request, reply>>

\* A slip: the adaptors are made while calls are already served.
ListenFirst ==
    /\ Running /\ server = "dial"
    /\ server' \in {"serving", "returned"}
    /\ UNCHANGED <<processVars, signalVars, registry, dial, callVars>>

\* A goroutine that cannot listen returns; the command goes on waiting.
Listen ==
    /\ Running /\ server = "dial"
    /\ dial.chain \notin DOMAIN Configured
    /\ server' \in {"serving", "returned"}
    /\ UNCHANGED <<processVars, signalVars, registry, dial, callVars>>

-----------------------------------------------------------------------------
\* Calls

Arrive(c) ==
    /\ Running /\ server = "serving"
    /\ phase[c] = "none"
    /\ phase' = [phase EXCEPT ![c] = "running"]
    /\ \E r \in Requests[c] : request' = [request EXCEPT ![c] = r]
    /\ UNCHANGED <<processVars, signalVars, serverVars, reply>>

\* A slip: the interceptor without its deferred recover.
PanicUnrecovered(c) ==
    /\ Exit("panic")
    /\ UNCHANGED reply

\* The interceptor's recover turns a panic into an error of this one call.
Recover(c) ==
    /\ reply' = [reply EXCEPT ![c] = JustSaid("codes.Internal")]
    /\ phase' = [phase EXCEPT ![c] = "answered"]
    /\ UNCHANGED exit

Answer(c, r) ==
    \/ r.outcome = Panicked /\ Recover(c)
    \/ /\ r.outcome # Panicked
       /\ reply' = [reply EXCEPT ![c] = r]
       /\ phase' = [phase EXCEPT ![c] = "answered"]
       /\ UNCHANGED exit

preHandler(r) == r.chain \in registry

\* Those of a list of addresses ask no node.
ReplyToList(r) ==
    LET items == HandleList(r.chain, r.method, r.shapes)
    IN  IF \E i \in DOMAIN items : items[i] = Panicked
        THEN JustSaid(Panicked) ELSE Reply(Good, items, <<>>)

ReplyToSend(r) ==
    {Reply(Good, BtcSendTransaction(a, r.shapes), a) :
        a \in [DOMAIN r.shapes -> Answers]}

\* Of the node's answers, that of the first kind of call is kept.
ReplyToQuery(r) ==
    {Reply(Handle(r.chain, r.method, a, r.shapes[1]), <<>>, <<a[1]>>) :
        a \in [1..3 -> Answers]}

\* What the handlers of the dispatcher answer.  A chain that is not in the
\* registry has a nil adaptor.
Dispatch(r) ==
    IF r.method = "GetSupportChains" THEN {Reply(Good, Configured, <<>>)}
    ELSE IF ~preHandler(r) THEN {JustSaid("unsupported")}
    ELSE IF r.chain \notin registry THEN {JustSaid(Panicked)}
    ELSE CASE r.method \in Lists         -> {ReplyToList(r)}
           [] r.method = "SendTransaction" -> ReplyToSend(r)
           [] OTHER                        -> ReplyToQuery(r)

\* Interceptor and handler.
Serve(c) ==
    /\ Running
    /\ phase[c] = "running"
    /\ IF request[c].token
       THEN \E r \in Dispatch(request[c]) : Answer(c, r)
       ELSE Answer(c, JustSaid("codes.PermissionDenied"))
    /\ UNCHANGED <<command, main, stopped, signalVars, serverVars, request>>

-----------------------------------------------------------------------------
Command == Setup \/ Start \/ AppDone \/ Stop \/ Return
Server  == NewChainDispatcher \/ Listen

Next ==
    \/ Signal
    \/ \E i \in 1..2 : BlockOnInterruptsContext(i)
    \/ Command
    \/ Server
    \/ \E c \in Calls : Arrive(c) \/ Serve(c)

\* Goroutines that can run do; clients and signals are free.
Fairness ==
    /\ WF_vars(Command) /\ WF_vars(Server)
    /\ \A i \in 1..2 : WF_vars(BlockOnInterruptsContext(i))
    /\ \A c \in Calls : WF_vars(Serve(c))

Spec == Init /\ [][Next]_vars /\ Fairness

-----------------------------------------------------------------------------
\* Properties

\* The state of the command, its goroutines and the calls stays what it may be.
TypeOK ==
    /\ main \in {"setup", "start", "wait", "stop", "return"}
    /\ exit \in {"running", "ended", "failed", "panic"}
    /\ waiter \in [1..2 -> {"none", "created", "registered", "selecting", "done"}]
    /\ buffer \in [1..2 -> BOOLEAN]
    /\ signals \in 0..MaxSignals
    /\ {heard, appDone, stopped} \subseteq BOOLEAN
    /\ server \in {"none", "dial", "serving", "returned"}
    /\ registry \subseteq Supported
    /\ dial.chain \in 1..Len(Configured) + 1
    /\ phase \in [Calls -> {"none", "running", "answered", "cut off"}]

\* A call whose handler panics takes no other call and no connection with it:
\* a service that serves never ends by a panic (Interceptor's recover).
PanicStaysInCall == server = "serving" => exit # "panic"

\* A caller is told that its chain is not supported exactly when the
\* configuration lists no supported chain of that name: all adaptors are in
\* the registry before the first call, and none is called that is not there.
RefusedIffUnsupported ==
    \A c \in Calls :
        phase[c] = "answered" /\ request[c].token
                              /\ request[c].method # "GetSupportChains"
        => (reply[c].outcome = "unsupported"
            <=> request[c].chain \notin Range(Configured) \cap Supported)

\* The handlers whose success says nothing of the node: the error of getblock is
\* dropped (bitcoin.go:187), and the others ask nobody.
Unfounded == {<<"bitcoin", "GetBlock">>}
             \cup ({"ethereum", "bnb"} \X {"GetAddressApproveList"})
             \cup ({"tron", "solana"} \X Stubs)

\* What is answered as a success was said by the node: with those exceptions no
\* failed call to it turns into a success, data is listed only where the node
\* had it, and no Bitcoin transaction is reported sent that the node did not
\* confirm under its own hash.
SuccessIsOfTheNode ==
    \A c \in Calls :
        LET r == reply[c]
        IN  /\ phase[c] = "answered"
            /\ r.node # <<>>
            /\ <<request[c].chain, request[c].method>> \notin Unfounded
            => IF request[c].method = "SendTransaction"
               THEN \A i \in DOMAIN r.items : r.items[i] = Good => r.node[i] = "found"
               ELSE /\ r.outcome = Good  => r.node[1] = "found"
                    /\ r.outcome = Empty => r.node[1] # "error"

\* A list is answered item by item: the i-th answer is that of the i-th item,
\* and one bad item spoils no other.  Bitcoin's ValidAddresses answers none.
OneAnswerPerItem ==
    \A c \in Calls :
        /\ phase[c] = "answered" /\ reply[c].outcome = Good
        /\ request[c].method \in Lists \cup {"SendTransaction"}
        /\ <<request[c].chain, request[c].method>> # <<"bitcoin", "ValidAddresses">>
        => /\ Len(reply[c].items) = Len(request[c].shapes)
           /\ \A i \in DOMAIN request[c].shapes :
                 request[c].shapes[i] = "malformed" => reply[c].items[i] = Bad

\* A node that cannot be reached ends the start in bounded time, though not by
\* its deadline of 5 seconds, which is looked at between attempts only: there is
\* room for three of the five attempts, the last of which may begin in the last
\* second, takes five, and is followed by a sleep of 4.
DialEndsInTime == dial.attempt <= 3 /\ dial.elapsed < DialTimeout + DialTimeout + 4

\* Once a signal finds the command's goroutine registered, the process ends.
SignalEndsProgram == heard ~> exit # "running"

\* lifecycle.go:19: "Stop stops a service gracefully."  The calls that run when
\* the command stops the service would be answered.
StopIsGraceful == \A c \in Calls : exit = "ended" => phase[c] # "cut off"

=============================================================================
