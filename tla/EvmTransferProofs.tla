-------------------------- MODULE EvmTransferProofs --------------------------
(***************************************************************************)
(* Theorems about EvmTransfer for every set of wallets, accounts, batches  *)
(* and fee quotes.                                                         *)
(***************************************************************************)
EXTENDS EvmTransfer, GasFeesProofs

-----------------------------------------------------------------------------
\* The inductive invariant

\* The batches are those the wallets chose at the start.
BatchInv ==
    /\ chain \in {"bnb", "ethereum"}
    /\ batch \in [Wallets -> UNION {Batches[w] : w \in Wallets}]
    /\ \A w \in Wallets : batch[w] \in Batches[w]

Signing == {"finish", "send", "done"}    \* the calls after the signature

\* The call a wallet is in says how much of its batch each list has.
Progress(w) ==
    /\ Len(built[w]) <= Len(batch[w])
    /\ step[w] = "sign" \/ step[w] \in Signing => Len(built[w]) = Len(batch[w])
    /\ signature[w] = IF step[w] \in Signing THEN built[w] ELSE <<>>
    /\ step[w] \in {"send", "done"} => Len(signed[w]) = Len(batch[w])
    /\ step[w] \notin {"send", "done"} => told[w] = <<>>

\* The server made content c of payload p, with a nonce that was the next one.
MadeOf(p, c) ==
    /\ c.id = p.id
    /\ c.from = p.from
    /\ c.nonce <= Len(pool[p.from])
    /\ chain = "ethereum" => c.fee = DefaultEip1559GasFees

\* What was built is made of the payload in its place.
BuiltOf(w) == \A i \in DOMAIN built[w] : MadeOf(batch[w][i], built[w][i])

\* What was assembled is what its owner signed.
SignedOf(w) ==
    \A i \in DOMAIN signed[w] :
        /\ signed[w][i].content = signature[w][i]
        /\ signed[w][i].sender = batch[w][i].from

\* The node keeps the transactions of an account under their nonces.
PoolInv ==
    \A a \in Accounts : \A k \in DOMAIN pool[a] :
        /\ pool[a][k].from = a
        /\ pool[a][k].nonce = k - 1
        /\ chain = "ethereum" => pool[a][k].fee = DefaultEip1559GasFees

\* What is reported is at the node, or was outbid there.
AtNode(t) == Occupied(t) /\ (\/ pool[t.from][t.nonce + 1] = t
                             \/ Outbids(pool[t.from][t.nonce + 1].fee, t.fee))

ToldOf(w) == \A i \in DOMAIN batch[w] : Reported(w, i) => AtNode(signed[w][i].content)

WalletInv(w) == Progress(w) /\ BuiltOf(w) /\ SignedOf(w) /\ ToldOf(w)

IInv == TypeOK /\ BatchInv /\ PoolInv /\ \A w \in Wallets : WalletInv(w)

-----------------------------------------------------------------------------
\* Data

Made == [id : UNION {{batch[w][i].id : i \in DOMAIN batch[w]} : w \in Wallets},
         from : Accounts, nonce : Nat, fee : FeePairs]

\* A batch is a sequence of payloads.
LEMMA BatchType ==
  ASSUME BatchInv, NEW w \in Wallets
  PROVE  /\ Len(batch[w]) \in Nat
         /\ DOMAIN batch[w] = 1..Len(batch[w])
         /\ \A i \in 1..Len(batch[w]) : batch[w][i].from \in Accounts
  <1>1. batch[w] \in Seq(Range(batch[w]))
    BY ConstantsAssumption DEF BatchInv
  <1>2. \A i \in DOMAIN batch[w] : batch[w][i].from \in Accounts
    BY ConstantsAssumption DEF BatchInv
  <1>3. QED
    BY <1>1, <1>2

\* Either adaptor makes of a payload a content with the nonce that is next
\* and fees that a node accepts.
LEMMA FreshContent ==
  ASSUME TypeOK, BatchInv, NEW w \in Wallets, NEW done,
         Len(done) \in Nat, More(w, done),
         NEW c, \/ chain = "bnb" /\ c = BnbDynamicFeeTx(Payload(w, done))
                \/ chain = "ethereum" /\ c = EthDynamicFeeTx(Payload(w, done))
  PROVE  /\ c \in Made
         /\ MadeOf(Payload(w, done), c)
         /\ c.nonce = Len(pool[c.from])
         /\ c = Content(Payload(w, done), c.fee)
  <1> DEFINE p == Payload(w, done)
  <1>1. /\ Len(done) + 1 \in DOMAIN batch[w]
        /\ p = batch[w][Len(done) + 1]
        /\ p.from \in Accounts
    BY BatchType DEF More, Payload
  <1>2. p.id \in UNION {{batch[v][i].id : i \in DOMAIN batch[v]} : v \in Wallets}
    BY <1>1
  <1>3. Len(pool[p.from]) \in Nat
    <2>1. pool \in [Accounts -> Seq(Contents)]
      BY DEF TypeOK
    <2>2. QED
      BY <1>1, <2>1
  <1>4. quote \in MarketQuotes
    BY ConstantsAssumption DEF TypeOK
  <1>5. PICK fee \in FeePairs : /\ c = Content(p, fee)
                                /\ chain = "ethereum" => fee = DefaultEip1559GasFees
    BY <1>4, DefaultIsFeePair, ResolvedIsFeePair
       DEF BnbDynamicFeeTx, EthDynamicFeeTx
  <1> HIDE DEF p
  <1>6. QED
    BY <1>1, <1>2, <1>3, <1>5 DEF Content, Made, MadeOf, p

\* Being built and being signed are being of a type.
LEMMA MadeType == Made \subseteq Contents
  BY DEF Made, Contents

-----------------------------------------------------------------------------
\* Types

Steps == {"build", "sign", "finish", "send", "done", "gave up"}
SignedTxs == [content : Contents, sender : Accounts]

NodeTypes ==
    /\ pool \in [Accounts -> Seq(Contents)]
    /\ mined \in [Accounts -> Nat]
    /\ \A a \in Accounts : mined[a] <= Len(pool[a])
    /\ quote \in Markets
    /\ moves \in 0..MaxMoves
    /\ failures \in 0..MaxFailures

\* The lists of a wallet are sequences.
LEMMA ListTypes ==
  ASSUME TypeOK, NEW w \in Wallets
  PROVE  /\ step[w] \in Steps
         /\ built[w] \in Seq(Contents)
         /\ signature[w] \in Seq(Contents)
         /\ signed[w] \in Seq(SignedTxs)
         /\ told[w] \in Seq(BOOLEAN)
         /\ Len(signed[w]) <= Len(signature[w])
         /\ Len(told[w]) <= Len(signed[w])
  BY DEF TypeOK, Steps, SignedTxs

LEMMA NodeTypesHold == TypeOK => NodeTypes
  BY DEF TypeOK, NodeTypes

LEMMA ContentsFixed ==
  ASSUME UNCHANGED batch
  PROVE  Contents' = Contents
  BY DEF Contents

\* A step that gives the lists of one wallet other values.
Gives(w, s, b, g, d, t) ==
    /\ step' = [step EXCEPT ![w] = s]
    /\ built' = [built EXCEPT ![w] = b]
    /\ signature' = [signature EXCEPT ![w] = g]
    /\ signed' = [signed EXCEPT ![w] = d]
    /\ told' = [told EXCEPT ![w] = t]

LEMMA GivesWhat ==
  ASSUME TypeOK, NEW w \in Wallets, NEW s, NEW b, NEW g, NEW d, NEW t,
         Gives(w, s, b, g, d, t)
  PROVE  /\ step'[w] = s /\ built'[w] = b /\ signature'[w] = g
         /\ signed'[w] = d /\ told'[w] = t
         /\ \A v \in Wallets \ {w} :
               /\ step'[v] = step[v] /\ built'[v] = built[v]
               /\ signature'[v] = signature[v]
               /\ signed'[v] = signed[v] /\ told'[v] = told[v]
  BY DEF TypeOK, Gives

LEMMA GivesTypes ==
  ASSUME TypeOK, NEW w \in Wallets, UNCHANGED batch, NodeTypes',
         NEW s \in Steps, NEW b \in Seq(Contents), NEW g \in Seq(Contents),
         NEW d \in Seq(SignedTxs), NEW t \in Seq(BOOLEAN),
         Len(d) <= Len(g), Len(t) <= Len(d),
         Gives(w, s, b, g, d, t)
  PROVE  TypeOK'
  <1>1. Contents' = Contents
    BY ContentsFixed
  <1>2. /\ step' \in [Wallets -> Steps]
        /\ built' \in [Wallets -> Seq(Contents)]
        /\ signature' \in [Wallets -> Seq(Contents)]
        /\ signed' \in [Wallets -> Seq(SignedTxs)]
        /\ told' \in [Wallets -> Seq(BOOLEAN)]
    BY DEF TypeOK, Gives, Steps, SignedTxs
  <1>3. \A v \in Wallets : /\ Len(signed'[v]) <= Len(signature'[v])
                           /\ Len(told'[v]) <= Len(signed'[v])
    <2> TAKE v \in Wallets
    <2>1. CASE v = w
      BY <2>1, GivesWhat
    <2>2. CASE v # w
      <3>1. signature'[v] = signature[v] /\ signed'[v] = signed[v] /\ told'[v] = told[v]
        BY <2>2, GivesWhat
      <3>2. Len(signed[v]) <= Len(signature[v]) /\ Len(told[v]) <= Len(signed[v])
        BY DEF TypeOK
      <3>3. QED
        BY <3>1, <3>2
    <2>3. QED
      BY <2>1, <2>2
  <1>4. /\ step' \in [Wallets -> {"build", "sign", "finish", "send", "done", "gave up"}]
        /\ signed' \in [Wallets -> Seq([content : Contents, sender : Accounts])]
    BY <1>2 DEF Steps, SignedTxs
  <1>5. QED
    BY <1>1, <1>2, <1>3, <1>4 DEF TypeOK, NodeTypes

-----------------------------------------------------------------------------
\* What holds of a wallet goes on to hold while its lists stay and the pool
\* keeps what it has.

\* The pool grows, and gives a place away to a better payer only.
PoolGrows ==
    \A a \in Accounts :
        /\ Len(pool[a]) <= Len(pool'[a])
        /\ \A k \in 1..Len(pool[a]) :
              \/ pool'[a][k] = pool[a][k]
              \/ Outbids(pool'[a][k].fee, pool[a][k].fee)

LEMMA AtNodeStays ==
  ASSUME TypeOK, NodeTypes', UNCHANGED batch, PoolGrows, NEW t \in Contents, AtNode(t)
  PROVE  AtNode(t)'
  <1> DEFINE k == t.nonce + 1
             old == pool[t.from][k]
             new == pool'[t.from][k]
  <1>1. t.from \in Accounts /\ t.nonce \in Nat /\ t.fee \in FeePairs
    BY DEF Contents
  <1>2. /\ pool[t.from] \in Seq(Contents) /\ pool'[t.from] \in Seq(Contents)
        /\ Len(pool[t.from]) <= Len(pool'[t.from])
    BY <1>1, ContentsFixed DEF TypeOK, NodeTypes, PoolGrows
  <1>3. k \in 1..Len(pool[t.from]) /\ k \in 1..Len(pool'[t.from])
    BY <1>1, <1>2 DEF AtNode, Occupied
  <1>4. old \in Contents /\ new \in Contents
    BY <1>2, <1>3
  <1>5. new = old \/ Outbids(new.fee, old.fee)
    BY <1>1, <1>3 DEF PoolGrows
  <1>6. old = t \/ Outbids(old.fee, t.fee)
    BY DEF AtNode
  <1>7. old.fee \in FeePairs /\ new.fee \in FeePairs
    BY <1>4 DEF Contents
  <1> HIDE DEF old, new
  <1>8. new = t \/ Outbids(new.fee, t.fee)
    BY <1>1, <1>5, <1>6, <1>7 DEF Outbids, FeePairs
  <1>9. QED
    BY <1>1, <1>2, <1>3, <1>8 DEF AtNode, Occupied, old, new

LEMMA MadeStays ==
  ASSUME TypeOK, UNCHANGED chain, PoolGrows, NEW p, p.from \in Accounts,
         NodeTypes', UNCHANGED batch, NEW c \in Contents, MadeOf(p, c)
  PROVE  MadeOf(p, c)'
  <1>1. /\ pool[p.from] \in Seq(Contents) /\ pool'[p.from] \in Seq(Contents)
        /\ Len(pool[p.from]) <= Len(pool'[p.from])
    BY ContentsFixed DEF TypeOK, NodeTypes, PoolGrows
  <1>2. c.nonce \in Nat
    BY DEF Contents
  <1>3. QED
    BY <1>1, <1>2 DEF MadeOf

Unmoved(w) == UNCHANGED <<step[w], built[w], signature[w], signed[w], told[w]>>

\* What was reported was assembled.
LEMMA ReportedType ==
  ASSUME TypeOK, NEW w \in Wallets, NEW i, Reported(w, i)
  PROVE  /\ i \in 1..Len(signed[w])
         /\ signed[w][i].content \in Contents
  <1>1. /\ told[w] \in Seq(BOOLEAN) /\ signed[w] \in Seq(SignedTxs)
        /\ Len(told[w]) <= Len(signed[w])
    BY ListTypes
  <1>2. i \in 1..Len(signed[w])
    BY <1>1 DEF Reported
  <1>3. signed[w][i] \in SignedTxs
    BY <1>1, <1>2
  <1>4. QED
    BY <1>2, <1>3 DEF SignedTxs

LEMMA WalletFrame ==
  ASSUME TypeOK, BatchInv, NodeTypes', UNCHANGED <<chain, batch>>, PoolGrows,
         NEW w \in Wallets, WalletInv(w), Unmoved(w)
  PROVE  WalletInv(w)'
  <1> USE DEF WalletInv
  <1>1. Progress(w)'
    BY DEF Progress, Unmoved, Signing
  <1>2. BuiltOf(w)'
    <2> SUFFICES ASSUME NEW i \in DOMAIN built[w]
                 PROVE  MadeOf(batch[w][i], built[w][i])'
      BY DEF BuiltOf, Unmoved
    <2>1. /\ built[w] \in Seq(Contents)
          /\ Len(built[w]) <= Len(batch[w])
          /\ Len(batch[w]) \in Nat
          /\ MadeOf(batch[w][i], built[w][i])
      BY ListTypes, BatchType DEF Progress, BuiltOf
    <2>2. built[w][i] \in Contents /\ i \in 1..Len(batch[w])
      BY <2>1
    <2>3. batch[w][i].from \in Accounts
      BY <2>2, BatchType
    <2>4. MadeOf(batch[w][i], built[w][i])'
          <=> (/\ built[w][i].id = batch[w][i].id
               /\ built[w][i].from = batch[w][i].from
               /\ built[w][i].nonce <= Len(pool'[batch[w][i].from])
               /\ chain' = "ethereum" => built[w][i].fee = DefaultEip1559GasFees)
      BY DEF MadeOf, Unmoved
    <2>5. QED
      BY <2>1, <2>2, <2>3, <2>4, MadeStays DEF MadeOf
  <1>3. SignedOf(w)'
    BY DEF SignedOf, Unmoved
  <1>4. ToldOf(w)'
    <2> SUFFICES ASSUME NEW i \in DOMAIN batch[w], Reported(w, i)
                 PROVE  AtNode(signed[w][i].content)'
      BY DEF ToldOf, Reported, Unmoved
    <2> DEFINE t == signed[w][i].content
    <2>1. t \in Contents /\ AtNode(t)
      BY ReportedType DEF ToldOf
    <2>2. \A u \in Contents : AtNode(u) =>
             (/\ u.nonce < Len(pool'[u.from])
              /\ \/ pool'[u.from][u.nonce + 1] = u
                 \/ Outbids(pool'[u.from][u.nonce + 1].fee, u.fee))
      BY AtNodeStays DEF AtNode, Occupied
    <2>3. QED
      BY <2>1, <2>2 DEF Unmoved, AtNode, Occupied
  <1>5. QED
    BY <1>1, <1>2, <1>3, <1>4

-----------------------------------------------------------------------------
\* The steps of a wallet's calls

\* To keep the invariant, a step that gives one wallet other lists and lets
\* the pool grow need only keep what the invariant says of that wallet.
LEMMA GivesKeeps ==
  ASSUME IInv, NEW w \in Wallets, UNCHANGED <<chain, batch>>,
         NodeTypes', PoolInv', PoolGrows, WalletInv(w)',
         NEW s \in Steps, NEW b \in Seq(Contents), NEW g \in Seq(Contents),
         NEW d \in Seq(SignedTxs), NEW t \in Seq(BOOLEAN),
         Len(d) <= Len(g), Len(t) <= Len(d),
         Gives(w, s, b, g, d, t)
  PROVE  IInv'
  <1>1. TypeOK'
    BY GivesTypes DEF IInv
  <1>2. BatchInv'
    BY DEF IInv, BatchInv
  <1>3. ASSUME NEW v \in Wallets, v # w
        PROVE  WalletInv(v)'
    <2>1. Unmoved(v)
      BY <1>3, GivesWhat DEF IInv, Unmoved
    <2>2. QED
      BY <2>1, WalletFrame DEF IInv
  <1>4. QED
    BY <1>1, <1>2, <1>3 DEF IInv

\* Steps that leave the node alone.
LEMMA NodeRests ==
  ASSUME IInv, UNCHANGED <<chain, batch, pool, mined, quote, moves>>,
         failures' \in 0..MaxFailures
  PROVE  NodeTypes' /\ PoolInv' /\ PoolGrows
  <1>1. NodeTypes'
    BY NodeTypesHold, ContentsFixed DEF IInv, NodeTypes
  <1>2. PoolInv'
    BY DEF IInv, PoolInv
  <1>3. PoolGrows
    BY NodeTypesHold DEF IInv, NodeTypes, PoolGrows
  <1>4. QED
    BY <1>1, <1>2, <1>3

\* A call that failed leaves nothing behind.
LEMMA StartOverKeeps ==
  ASSUME IInv, NEW w \in Wallets, step[w] \in {"build", "finish"},
         StartOver(w), failures' \in 0..MaxFailures, UNCHANGED <<chain, batch>>
  PROVE  IInv'
  <1> DEFINE s == IF InOrder(w) THEN "build" ELSE "gave up"
  <1>1. told[w] = <<>>
    BY DEF IInv, WalletInv, Progress
  <1>2. Gives(w, s, <<>>, <<>>, <<>>, <<>>)
    BY <1>1 DEF StartOver, Gives, IInv, TypeOK
  <1>3. NodeTypes' /\ PoolInv' /\ PoolGrows
    BY NodeRests DEF StartOver
  <1>4. /\ s \in Steps /\ s \notin Signing /\ s \notin {"sign", "send", "done"}
    BY DEF Steps, Signing
  <1> HIDE DEF s
  <1>5. /\ step'[w] = s /\ built'[w] = <<>> /\ signature'[w] = <<>>
        /\ signed'[w] = <<>> /\ told'[w] = <<>>
    BY <1>2, GivesWhat DEF IInv
  <1>6. WalletInv(w)'
    <2>1. Progress(w)'
      <3>1. Len(batch[w]) \in Nat
        BY BatchType DEF IInv
      <3>2. QED
        BY <1>4, <1>5, <3>1 DEF Progress
    <2>2. BuiltOf(w)'
      BY <1>5 DEF BuiltOf
    <2>3. SignedOf(w)'
      BY <1>5 DEF SignedOf
    <2>4. ToldOf(w)'
      BY <1>5 DEF ToldOf, Reported
    <2>5. QED
      BY <2>1, <2>2, <2>3, <2>4 DEF WalletInv
  <1>7. /\ <<>> \in Seq(Contents) /\ <<>> \in Seq(SignedTxs) /\ <<>> \in Seq(BOOLEAN)
        /\ Len(<<>>) <= Len(<<>>)
    OBVIOUS
  <1>8. QED
    BY <1>2, <1>3, <1>4, <1>6, <1>7, GivesKeeps

\* BuildUnSignTransaction goes on to the next payload.
LEMMA BuildKeeps ==
  ASSUME IInv, NEW w \in Wallets, NEW c \in Made, MadeOf(Payload(w, built[w]), c),
         BuildUnSigned(w, c), UNCHANGED <<chain, batch>>
  PROVE  IInv'
  <1> DEFINE n == Len(built[w])
             b == Append(built[w], c)
             s == IF Len(b) = Len(batch[w]) THEN "sign" ELSE "build"
  <1>1. /\ n \in Nat /\ Len(batch[w]) \in Nat /\ n < Len(batch[w])
        /\ built[w] \in Seq(Contents) /\ c \in Contents
        /\ step[w] = "build"
    BY ListTypes, BatchType, MadeType DEF IInv, BuildUnSigned, More
  <1>2. /\ b \in Seq(Contents) /\ Len(b) = n + 1
        /\ b[n + 1] = c /\ \A i \in 1..n : b[i] = built[w][i]
    BY <1>1
  <1>3. signature[w] = <<>> /\ signed[w] = <<>> /\ told[w] = <<>>
    <2>1. signature[w] = <<>> /\ told[w] = <<>>
      BY <1>1 DEF IInv, WalletInv, Progress, Signing
    <2>2. QED
      BY <2>1, ListTypes DEF IInv
  <1>4. Gives(w, s, b, <<>>, <<>>, <<>>)
    BY <1>1, <1>3 DEF BuildUnSigned, Gives, IInv, TypeOK
  <1>5. NodeTypes' /\ PoolInv' /\ PoolGrows
    BY NodeRests DEF BuildUnSigned, nodeVars, IInv, TypeOK
  <1>6. /\ s \in Steps /\ s \notin Signing /\ s \notin {"send", "done"}
        /\ s = "sign" => n + 1 = Len(batch[w])
    BY <1>2 DEF Steps, Signing
  <1>7. MadeOf(batch[w][n + 1], c)
    BY DEF Payload
  <1> HIDE DEF n, b, s
  <1>8. /\ step'[w] = s /\ built'[w] = b /\ signature'[w] = <<>>
        /\ signed'[w] = <<>> /\ told'[w] = <<>>
    BY <1>4, GivesWhat DEF IInv
  <1>9. WalletInv(w)'
    <2>1. Progress(w)'
      BY <1>1, <1>2, <1>6, <1>8 DEF Progress
    <2>2. BuiltOf(w)'
      <3>0. UNCHANGED <<chain, batch, pool>> /\ DOMAIN b = 1..n + 1
        BY <1>1, <1>2 DEF BuildUnSigned, nodeVars
      <3> SUFFICES ASSUME NEW i \in 1..n + 1
                   PROVE  MadeOf(batch[w][i], b[i])
        BY <1>8, <3>0 DEF BuiltOf, MadeOf
      <3>1. CASE i = n + 1
        BY <3>1, <1>2, <1>7
      <3>2. CASE i \in 1..n
        BY <3>2, <1>1, <1>2 DEF IInv, WalletInv, BuiltOf, n
      <3>3. QED
        BY <3>1, <3>2, <1>1
    <2>3. SignedOf(w)'
      BY <1>8 DEF SignedOf
    <2>4. ToldOf(w)'
      BY <1>8 DEF ToldOf, Reported
    <2>5. QED
      BY <2>1, <2>2, <2>3, <2>4 DEF WalletInv
  <1>10. /\ <<>> \in Seq(Contents) /\ <<>> \in Seq(SignedTxs) /\ <<>> \in Seq(BOOLEAN)
         /\ Len(<<>>) <= Len(<<>>)
    OBVIOUS
  <1>11. QED
    BY <1>2, <1>4, <1>5, <1>6, <1>9, <1>10, GivesKeeps

\* The owner signs what was built.
LEMMA SignKeeps ==
  ASSUME IInv, NEW w \in Wallets, Sign(w), UNCHANGED <<chain, batch>>
  PROVE  IInv'
  <1>1. step[w] = "sign" /\ built[w] \in Seq(Contents)
    BY ListTypes DEF Sign, IInv
  <1>2. signature[w] = <<>> /\ signed[w] = <<>> /\ told[w] = <<>>
    <2>1. signature[w] = <<>> /\ told[w] = <<>>
      BY <1>1 DEF IInv, WalletInv, Progress, Signing
    <2>2. QED
      BY <2>1, ListTypes DEF IInv
  <1>3. Gives(w, "finish", built[w], built[w], <<>>, <<>>)
    BY <1>2 DEF Sign, Gives, IInv, TypeOK
  <1>4. NodeTypes' /\ PoolInv' /\ PoolGrows
    BY NodeRests DEF Sign, nodeVars, IInv, TypeOK
  <1>5. /\ step'[w] = "finish" /\ built'[w] = built[w] /\ signature'[w] = built[w]
        /\ signed'[w] = <<>> /\ told'[w] = <<>>
    BY <1>3, GivesWhat DEF IInv
  <1>6. WalletInv(w)'
    <2>1. Progress(w)'
      BY <1>1, <1>5 DEF IInv, WalletInv, Progress, Signing
    <2>2. BuiltOf(w)'
      BY <1>5 DEF IInv, WalletInv, BuiltOf, MadeOf, Sign, nodeVars
    <2>3. SignedOf(w)'
      BY <1>5 DEF SignedOf
    <2>4. ToldOf(w)'
      BY <1>5 DEF ToldOf, Reported
    <2>5. QED
      BY <2>1, <2>2, <2>3, <2>4 DEF WalletInv
  <1>7. /\ <<>> \in Seq(SignedTxs) /\ <<>> \in Seq(BOOLEAN) /\ "finish" \in Steps
        /\ Len(<<>>) <= Len(built[w]) /\ Len(<<>>) <= Len(<<>>)
    BY <1>1 DEF Steps
  <1>8. QED
    BY <1>1, <1>3, <1>4, <1>6, <1>7, GivesKeeps

\* BuildSignedTransaction puts together the next transaction.
LEMMA AssembleKeeps ==
  ASSUME IInv, NEW w \in Wallets, NEW c \in Made, c.from = Payload(w, signed[w]).from,
         step[w] = "finish", BuildSigned(w, c), SenderMatches(w, c),
         UNCHANGED <<chain, batch>>
  PROVE  IInv'
  <1> DEFINE n == Len(signed[w])
             x == SignedTx(c, signature[w][n + 1])
             d == Append(signed[w], x)
             s == IF Len(d) = Len(batch[w]) THEN "send" ELSE "finish"
  <1>1. /\ n \in Nat /\ Len(batch[w]) \in Nat /\ n < Len(batch[w])
        /\ signed[w] \in Seq(SignedTxs) /\ c \in Contents
        /\ built[w] \in Seq(Contents) /\ signature[w] = built[w]
        /\ Len(built[w]) = Len(batch[w])
    <2>1. /\ signature[w] = built[w] /\ Len(built[w]) = Len(batch[w])
      BY DEF IInv, WalletInv, Progress, Signing
    <2>2. QED
      BY <2>1, ListTypes, BatchType, MadeType DEF IInv, BuildSigned, More
  <1>2. /\ c = signature[w][n + 1]
        /\ Sender(c, signature[w][n + 1]) = batch[w][n + 1].from
    <2>1. Sender(c, signature[w][n + 1]) = batch[w][n + 1].from
      BY DEF SenderMatches, Payload
    <2>2. batch[w][n + 1].from \in Accounts
      BY <1>1, BatchType DEF IInv
    <2>3. QED
      BY <2>1, <2>2, ConstantsAssumption DEF Sender
  <1>3. /\ x.content = c /\ x.sender = batch[w][n + 1].from /\ x \in SignedTxs
    BY <1>1, <1>2, BatchType DEF SignedTx, SignedTxs, IInv
  <1>4. told[w] = <<>>
    BY DEF IInv, WalletInv, Progress
  <1>5. Gives(w, s, built[w], signature[w], d, <<>>)
    BY <1>1, <1>4 DEF BuildSigned, Gives, IInv, TypeOK
  <1>6. NodeTypes' /\ PoolInv' /\ PoolGrows
    BY NodeRests DEF BuildSigned, nodeVars, IInv, TypeOK
  <1> HIDE DEF x
  <1>7. /\ d \in Seq(SignedTxs) /\ Len(d) = n + 1
        /\ d[n + 1] = x /\ \A i \in 1..n : d[i] = signed[w][i]
    BY <1>1, <1>3
  <1>8. /\ s \in Steps /\ s \in Signing /\ s \notin {"sign", "done"}
        /\ s = "send" => n + 1 = Len(batch[w])
    BY <1>7 DEF Steps, Signing
  <1> HIDE DEF n, d, s
  <1>9. /\ step'[w] = s /\ built'[w] = built[w] /\ signature'[w] = signature[w]
        /\ signed'[w] = d /\ told'[w] = <<>>
    BY <1>5, GivesWhat DEF IInv
  <1>10. WalletInv(w)'
    <2>1. Progress(w)'
      BY <1>1, <1>7, <1>8, <1>9 DEF Progress
    <2>2. BuiltOf(w)'
      BY <1>9 DEF IInv, WalletInv, BuiltOf, MadeOf, BuildSigned, nodeVars
    <2>3. SignedOf(w)'
      <3> SUFFICES ASSUME NEW i \in 1..n + 1
                   PROVE  /\ d[i].content = signature[w][i]
                          /\ d[i].sender = batch[w][i].from
        BY <1>1, <1>7, <1>9 DEF SignedOf
      <3>1. CASE i = n + 1
        BY <3>1, <1>2, <1>3, <1>7
      <3>2. CASE i \in 1..n
        BY <3>2, <1>1, <1>7 DEF IInv, WalletInv, SignedOf, n
      <3>3. QED
        BY <3>1, <3>2, <1>1
    <2>4. ToldOf(w)'
      BY <1>9 DEF ToldOf, Reported
    <2>5. QED
      BY <2>1, <2>2, <2>3, <2>4 DEF WalletInv
  <1>11. <<>> \in Seq(BOOLEAN) /\ Len(<<>>) <= Len(d) /\ Len(d) <= Len(signature[w])
    BY <1>1, <1>7
  <1>12. QED
    BY <1>1, <1>5, <1>6, <1>7, <1>8, <1>10, <1>11, GivesKeeps

\* A transaction that the node accepts gets the place of its nonce.
LEMMA PlaceKeeps ==
  ASSUME IInv, NEW t \in Contents, t.nonce <= Len(pool[t.from]),
         chain = "ethereum" => t.fee = DefaultEip1559GasFees,
         Accepts(t), Place(t), UNCHANGED <<chain, batch, mined, quote, moves, failures>>
  PROVE  NodeTypes' /\ PoolInv' /\ PoolGrows /\ AtNode(t)'
  <1> DEFINE a == t.from
             q == pool[a]
             r == IF Occupied(t) THEN [q EXCEPT ![t.nonce + 1] = t] ELSE Append(q, t)
  <1>1. /\ a \in Accounts /\ t.nonce \in Nat
        /\ q \in Seq(Contents) /\ Len(q) \in Nat
    <2>1. a \in Accounts /\ t.nonce \in Nat
      BY DEF Contents
    <2>2. QED
      BY <2>1, NodeTypesHold DEF IInv, NodeTypes
  <1>2. pool' = [pool EXCEPT ![a] = r]
    BY DEF Place
  <1>3. /\ r \in Seq(Contents) /\ Len(q) <= Len(r) /\ t.nonce < Len(r)
        /\ r[t.nonce + 1] = t
        /\ \A k \in 1..Len(r) : k # t.nonce + 1 => k \in 1..Len(q) /\ r[k] = q[k]
        /\ \A k \in 1..Len(q) : r[k] = q[k] \/ Outbids(r[k].fee, q[k].fee)
    <2>1. CASE Occupied(t)
      <3>1. /\ r = [q EXCEPT ![t.nonce + 1] = t]
            /\ t.nonce + 1 \in 1..Len(q)
            /\ Outbids(t.fee, q[t.nonce + 1].fee)
        BY <1>1, <2>1 DEF Occupied, Accepts
      <3> HIDE DEF r, q
      <3>2. QED
        BY <1>1, <3>1
    <2>2. CASE ~Occupied(t)
      <3>1. r = Append(q, t) /\ t.nonce = Len(q)
        BY <1>1, <2>2 DEF Occupied
      <3> HIDE DEF r, q
      <3>2. QED
        BY <1>1, <3>1
    <2>3. QED
      BY <2>1, <2>2
  <1> HIDE DEF r
  <1>4. /\ pool \in [Accounts -> Seq(Contents)]
        /\ pool'[a] = r /\ \A e \in Accounts \ {a} : pool'[e] = pool[e]
        /\ pool' \in [Accounts -> Seq(Contents)]
    <2>1. pool \in [Accounts -> Seq(Contents)]
      BY NodeTypesHold DEF IInv, NodeTypes
    <2>2. QED
      BY <1>1, <1>2, <1>3, <2>1
  <1>5. NodeTypes'
    <2>1. ASSUME NEW e \in Accounts
          PROVE  mined[e] <= Len(pool'[e])
      <3>1. /\ mined[e] \in Nat /\ mined[e] <= Len(pool[e])
            /\ Len(pool[e]) \in Nat /\ Len(pool'[e]) \in Nat
        BY <1>4, NodeTypesHold DEF IInv, NodeTypes
      <3>2. CASE e = a
        BY <3>1, <3>2, <1>1, <1>3, <1>4
      <3>3. CASE e # a
        BY <3>1, <3>3, <1>4
      <3>4. QED
        BY <3>2, <3>3
    <2>2. QED
      BY <1>4, <2>1, ContentsFixed, NodeTypesHold DEF IInv, NodeTypes
  <1>6. PoolInv'
    <2> SUFFICES ASSUME NEW e \in Accounts, NEW k \in DOMAIN pool'[e]
                 PROVE  /\ pool'[e][k].from = e
                        /\ pool'[e][k].nonce = k - 1
                        /\ chain = "ethereum" => pool'[e][k].fee = DefaultEip1559GasFees
      BY DEF PoolInv
    <2>1. CASE e # a
      BY <2>1, <1>4 DEF IInv, PoolInv
    <2>2. CASE e = a /\ k = t.nonce + 1
      BY <2>2, <1>1, <1>3, <1>4
    <2>3. CASE e = a /\ k # t.nonce + 1
      BY <2>3, <1>1, <1>3, <1>4 DEF IInv, PoolInv
    <2>4. QED
      BY <2>1, <2>2, <2>3
  <1>7. PoolGrows
    <2> SUFFICES ASSUME NEW e \in Accounts
                 PROVE  /\ Len(pool[e]) <= Len(pool'[e])
                        /\ \A k \in 1..Len(pool[e]) :
                              \/ pool'[e][k] = pool[e][k]
                              \/ Outbids(pool'[e][k].fee, pool[e][k].fee)
      BY DEF PoolGrows
    <2>1. CASE e # a
      BY <2>1, <1>4
    <2>2. CASE e = a
      BY <2>2, <1>3, <1>4
    <2>3. QED
      BY <2>1, <2>2
  <1>8. AtNode(t)'
    BY <1>3, <1>4 DEF AtNode, Occupied
  <1>9. QED
    BY <1>5, <1>6, <1>7, <1>8

\* What was assembled was built.
LEMMA AssembledType ==
  ASSUME IInv, NEW w \in Wallets, NEW i \in 1..Len(signed[w])
  PROVE  /\ signed[w][i].content \in Contents
         /\ signed[w][i].content = signature[w][i]
         /\ i \in 1..Len(batch[w])
         /\ MadeOf(batch[w][i], signed[w][i].content)
  <1>1. /\ signed[w] \in Seq(SignedTxs) /\ built[w] \in Seq(Contents)
        /\ signature[w] \in Seq(Contents)
        /\ Len(signed[w]) <= Len(signature[w]) /\ Len(batch[w]) \in Nat
        /\ Len(built[w]) <= Len(batch[w])
    BY ListTypes, BatchType DEF IInv, WalletInv, Progress
  <1>2. signature[w] = built[w]
    BY <1>1 DEF IInv, WalletInv, Progress
  <1>3. /\ i \in DOMAIN built[w] /\ i \in DOMAIN signed[w] /\ i \in 1..Len(batch[w])
        /\ signed[w][i] \in SignedTxs
    BY <1>1, <1>2
  <1>4. signed[w][i].content = built[w][i] /\ MadeOf(batch[w][i], built[w][i])
    BY <1>2, <1>3 DEF IInv, WalletInv, SignedOf, BuiltOf
  <1>5. QED
    BY <1>2, <1>3, <1>4 DEF SignedTxs


\* SendTransaction goes on to the next item.
LEMMA SendKeeps ==
  ASSUME IInv, NEW w \in Wallets, SendItem(w), UNCHANGED <<chain, batch>>
  PROVE  IInv'
  <1>0. PICK n, t : n \in Nat /\ n = Len(told[w]) /\ t = signed[w][n + 1].content
    BY ListTypes DEF IInv
  <1> DEFINE accepted == t.from = signed[w][n + 1].sender /\ Accepts(t)
  <1>1. /\ n \in Nat /\ Len(batch[w]) \in Nat /\ n < Len(batch[w])
        /\ Len(signed[w]) = Len(batch[w]) /\ DOMAIN batch[w] = 1..Len(batch[w])
        /\ told[w] \in Seq(BOOLEAN) /\ step[w] = "send"
        /\ built[w] \in Seq(Contents) /\ signature[w] \in Seq(Contents)
        /\ signed[w] \in Seq(SignedTxs)
    BY <1>0, ListTypes, BatchType DEF IInv, WalletInv, Progress, SendItem, More
  <1>2. /\ t \in Contents /\ MadeOf(batch[w][n + 1], t)
    <2>1. n + 1 \in 1..Len(signed[w])
      BY <1>1
    <2>2. QED
      BY <1>0, <2>1, AssembledType
  <1>3. PICK answered \in BOOLEAN :
           /\ IF accepted THEN Place(t) ELSE UNCHANGED pool
           /\ told' = [told EXCEPT ![w] = Append(@, IsSuccess(accepted, answered))]
           /\ step' = [step EXCEPT ![w] = IF Len(told'[w]) = Len(batch[w])
                                          THEN "done" ELSE @]
    BY <1>0 DEF SendItem
  <1>4. UNCHANGED <<built, signature, signed, mined, quote, moves, failures>>
    BY DEF SendItem
  <1> DEFINE b == IsSuccess(accepted, answered)
             l == Append(told[w], b)
             s == IF Len(l) = Len(batch[w]) THEN "done" ELSE "send"
  <1>5. b \in BOOLEAN /\ (b => accepted)
    BY DEF IsSuccess, Accepts
  <1> HIDE DEF b
  <1>6. /\ l \in Seq(BOOLEAN) /\ Len(l) = n + 1
        /\ l[n + 1] = b /\ \A i \in 1..n : l[i] = told[w][i]
    BY <1>0, <1>1, <1>5
  <1>7. Gives(w, s, built[w], signature[w], signed[w], l)
    BY <1>1, <1>3, <1>4 DEF Gives, IInv, TypeOK, b
  <1>8. /\ NodeTypes' /\ PoolInv' /\ PoolGrows
        /\ b => AtNode(t)'
    <2>1. CASE accepted
      <3>1. /\ t.nonce <= Len(pool[t.from])
            /\ chain = "ethereum" => t.fee = DefaultEip1559GasFees
        BY <1>2 DEF MadeOf
      <3>2. Place(t) /\ Accepts(t)
        BY <1>3, <2>1
      <3>3. QED
        BY <1>2, <1>4, <3>1, <3>2, PlaceKeeps
    <2>2. CASE ~accepted
      <3>1. UNCHANGED <<chain, batch, pool, mined, quote, moves>>
        BY <1>3, <1>4, <2>2
      <3>2. failures' \in 0..MaxFailures
        BY <1>4 DEF IInv, TypeOK
      <3>3. QED
        BY <1>5, <2>2, <3>1, <3>2, NodeRests
    <2>3. QED
      BY <2>1, <2>2
  <1>9. /\ s \in Steps /\ s \in Signing /\ s \in {"send", "done"}
    BY DEF Steps, Signing
  <1> HIDE DEF accepted, s, l
  <1>10. /\ step'[w] = s /\ built'[w] = built[w] /\ signature'[w] = signature[w]
         /\ signed'[w] = signed[w] /\ told'[w] = l
    BY <1>7, GivesWhat DEF IInv
  <1>11. WalletInv(w)'
    <2>1. Progress(w)'
      BY <1>1, <1>9, <1>10 DEF IInv, WalletInv, Progress, Signing
    <2>2. BuiltOf(w)'
      <3> SUFFICES ASSUME NEW i \in DOMAIN built[w]
                   PROVE  /\ built[w][i].id = batch[w][i].id
                          /\ built[w][i].from = batch[w][i].from
                          /\ built[w][i].nonce <= Len(pool'[batch[w][i].from])
                          /\ chain = "ethereum" =>
                                built[w][i].fee = DefaultEip1559GasFees
        BY <1>10 DEF BuiltOf, MadeOf
      <3>1. Len(built[w]) <= Len(batch[w]) /\ MadeOf(batch[w][i], built[w][i])
        BY DEF IInv, WalletInv, Progress, BuiltOf
      <3>2. built[w][i] \in Contents /\ i \in 1..Len(batch[w])
        BY <1>1, <3>1
      <3>3. batch[w][i].from \in Accounts
        BY <3>2, BatchType DEF IInv
      <3>4. built[w][i].nonce <= Len(pool'[batch[w][i].from])
        BY <1>8, <3>1, <3>2, <3>3, MadeStays DEF IInv, MadeOf
      <3>5. QED
        BY <3>1, <3>4 DEF MadeOf
    <2>3. SignedOf(w)'
      BY <1>10 DEF IInv, WalletInv, SignedOf
    <2>4. ToldOf(w)'
      <3> SUFFICES ASSUME NEW i \in 1..n + 1, l[i]
                   PROVE  AtNode(signed[w][i].content)'
        BY <1>1, <1>6, <1>10 DEF ToldOf, Reported
      <3>1. CASE i = n + 1
        BY <3>1, <1>0, <1>4, <1>6, <1>8 DEF AtNode, Occupied
      <3>2. CASE i \in 1..n
        <4>1. Reported(w, i) /\ i \in DOMAIN batch[w]
          BY <3>2, <1>0, <1>1, <1>6 DEF Reported
        <4>2. /\ AtNode(signed[w][i].content)
              /\ signed[w][i].content \in Contents
          BY <4>1, ReportedType DEF IInv, WalletInv, ToldOf
        <4>3. QED
          BY <4>2, <1>4, <1>8, AtNodeStays DEF IInv, AtNode, Occupied
      <3>3. QED
        BY <3>1, <3>2, <1>1
    <2>5. QED
      BY <2>1, <2>2, <2>3, <2>4 DEF WalletInv
  <1>12. /\ Len(l) <= Len(signed[w]) /\ Len(signed[w]) <= Len(signature[w])
    BY <1>1, <1>6, ListTypes DEF IInv
  <1>13. QED
    BY <1>1, <1>6, <1>7, <1>8, <1>9, <1>11, <1>12, GivesKeeps


-----------------------------------------------------------------------------
\* The steps of the node

\* A step that leaves the wallets' lists alone need only keep the pool.
LEMMA NodeKeeps ==
  ASSUME IInv, UNCHANGED walletVars, UNCHANGED <<chain, batch>>,
         NodeTypes', PoolInv', PoolGrows
  PROVE  IInv'
  <1>1. TypeOK'
    BY ContentsFixed DEF IInv, TypeOK, NodeTypes, walletVars
  <1>2. BatchInv'
    BY DEF IInv, BatchInv
  <1>3. ASSUME NEW v \in Wallets
        PROVE  WalletInv(v)'
    <2>1. Unmoved(v)
      BY DEF walletVars, Unmoved
    <2>2. QED
      BY <2>1, WalletFrame DEF IInv
  <1>4. QED
    BY <1>1, <1>2, <1>3 DEF IInv

LEMMA MineKeeps ==
  ASSUME IInv, NEW a \in Accounts, Mine(a), UNCHANGED <<chain, batch>>
  PROVE  IInv'
  <1>1. /\ UNCHANGED <<pool, quote, moves, failures>> /\ UNCHANGED walletVars
        /\ mined[a] < Len(pool[a]) /\ mined' = [mined EXCEPT ![a] = @ + 1]
    BY DEF Mine
  <1>2. NodeTypes
    BY NodeTypesHold DEF IInv
  <1>3. \A e \in Accounts : mined'[e] \in Nat /\ mined'[e] <= Len(pool[e])
    <2> TAKE e \in Accounts
    <2>1. mined[e] \in Nat /\ mined[e] <= Len(pool[e]) /\ Len(pool[e]) \in Nat
      BY <1>2 DEF NodeTypes
    <2>2. QED
      BY <1>1, <1>2, <2>1 DEF NodeTypes
  <1>4. NodeTypes'
    BY <1>1, <1>2, <1>3, ContentsFixed DEF NodeTypes
  <1>5. PoolInv'
    BY <1>1 DEF IInv, PoolInv
  <1>6. PoolGrows
    BY <1>1, <1>2 DEF NodeTypes, PoolGrows
  <1>7. QED
    BY <1>1, <1>4, <1>5, <1>6, NodeKeeps

LEMMA ElsewhereKeeps ==
  ASSUME IInv, NEW a \in Accounts, TransferElsewhere(a), UNCHANGED <<chain, batch>>
  PROVE  IInv'
  <1> DEFINE c == Content([id |-> Outside, from |-> a], DefaultEip1559GasFees)
             r == Append(pool[a], c)
  <1>1. /\ UNCHANGED <<mined, quote, moves, failures>> /\ UNCHANGED walletVars
        /\ pool' = [pool EXCEPT ![a] = r]
    BY DEF TransferElsewhere
  <1>2. /\ pool \in [Accounts -> Seq(Contents)] /\ NodeTypes
        /\ pool[a] \in Seq(Contents) /\ Len(pool[a]) \in Nat
    BY NodeTypesHold DEF IInv, NodeTypes
  <1>3. /\ c \in Contents /\ c.from = a /\ c.nonce = Len(pool[a])
        /\ c.fee = DefaultEip1559GasFees
    <2>1. c = [id |-> Outside, from |-> a, nonce |-> Len(pool[a]),
               fee |-> DefaultEip1559GasFees]
      BY DEF Content
    <2>2. DefaultEip1559GasFees \in FeePairs
      BY DefaultIsFeePair
    <2>3. c.from = a /\ c.nonce = Len(pool[a]) /\ c.fee = DefaultEip1559GasFees
      BY <2>1
    <2> DEFINE ids == UNION {{batch[v][i].id : i \in DOMAIN batch[v]} : v \in Wallets}
    <2>4. Outside \in {Outside} \cup ids /\ Len(pool[a]) \in Nat
      BY <1>2
    <2> HIDE DEF c, ids
    <2>5. c \in [id : {Outside} \cup ids, from : Accounts, nonce : Nat, fee : FeePairs]
      BY <2>1, <2>2, <2>4
    <2>6. QED
      BY <2>3, <2>5 DEF Contents, ids
  <1> HIDE DEF c
  <1>4. /\ r \in Seq(Contents) /\ Len(r) = Len(pool[a]) + 1
        /\ r[Len(pool[a]) + 1] = c
        /\ \A k \in 1..Len(pool[a]) : r[k] = pool[a][k]
    BY <1>2, <1>3
  <1> HIDE DEF r
  <1>5. /\ pool' \in [Accounts -> Seq(Contents)] /\ pool'[a] = r
        /\ \A e \in Accounts \ {a} : pool'[e] = pool[e]
    BY <1>1, <1>2, <1>4
  <1>6. PoolGrows
    <2> SUFFICES ASSUME NEW e \in Accounts
                 PROVE  /\ Len(pool[e]) <= Len(pool'[e])
                        /\ \A k \in 1..Len(pool[e]) : pool'[e][k] = pool[e][k]
      BY DEF PoolGrows
    <2>1. CASE e = a
      BY <2>1, <1>2, <1>4, <1>5
    <2>2. CASE e # a
      BY <2>2, <1>2, <1>5
    <2>3. QED
      BY <2>1, <2>2
  <1>7. NodeTypes'
    <2>1. ASSUME NEW e \in Accounts
          PROVE  mined[e] <= Len(pool'[e])
      <3>1. /\ mined[e] \in Nat /\ mined[e] <= Len(pool[e])
            /\ Len(pool[e]) \in Nat /\ Len(pool'[e]) \in Nat
        BY <1>2, <1>5 DEF NodeTypes
      <3>2. QED
        BY <3>1, <1>6 DEF PoolGrows
    <2>2. QED
      BY <1>1, <1>2, <1>5, <2>1, ContentsFixed DEF NodeTypes
  <1>8. PoolInv'
    <2> SUFFICES ASSUME NEW e \in Accounts, NEW k \in DOMAIN pool'[e]
                 PROVE  /\ pool'[e][k].from = e
                        /\ pool'[e][k].nonce = k - 1
                        /\ chain = "ethereum" => pool'[e][k].fee = DefaultEip1559GasFees
      BY DEF PoolInv
    <2>1. CASE e # a
      BY <2>1, <1>5 DEF IInv, PoolInv
    <2>2. CASE e = a /\ k = Len(pool[a]) + 1
      BY <2>2, <1>2, <1>3, <1>4, <1>5
    <2>3. CASE e = a /\ k # Len(pool[a]) + 1
      <3>1. k \in 1..Len(pool[a]) /\ pool'[e][k] = pool[a][k]
        BY <2>3, <1>2, <1>4, <1>5
      <3>2. QED
        BY <2>3, <3>1, <1>2 DEF IInv, PoolInv
    <2>4. QED
      BY <2>1, <2>2, <2>3
  <1>9. QED
    BY <1>1, <1>6, <1>7, <1>8, NodeKeeps

LEMMA QuoteKeeps ==
  ASSUME IInv, QuoteMoves, UNCHANGED <<chain, batch>>
  PROVE  IInv'
  <1>1. /\ UNCHANGED <<pool, mined, failures>> /\ UNCHANGED walletVars
        /\ quote' \in Markets /\ moves' = moves + 1 /\ moves < MaxMoves
    BY DEF QuoteMoves
  <1>2. NodeTypes
    BY NodeTypesHold DEF IInv
  <1>3. NodeTypes'
    BY <1>1, <1>2, ContentsFixed, ConstantsAssumption DEF NodeTypes
  <1>4. PoolInv'
    BY <1>1 DEF IInv, PoolInv
  <1>5. PoolGrows
    BY <1>1, <1>2 DEF NodeTypes, PoolGrows
  <1>6. QED
    BY <1>1, <1>3, <1>4, <1>5, NodeKeeps

LEMMA StutterKeeps == ASSUME IInv, UNCHANGED vars PROVE IInv'
  <1>1. /\ UNCHANGED walletVars /\ UNCHANGED <<chain, batch>>
        /\ UNCHANGED <<pool, mined, quote, moves, failures>>
    BY DEF vars, nodeVars
  <1>2. NodeTypes' /\ PoolInv' /\ PoolGrows
    BY <1>1, NodeTypesHold, NodeRests DEF IInv, NodeTypes
  <1>3. QED
    BY <1>1, <1>2, NodeKeeps

-----------------------------------------------------------------------------
\* Every step keeps the invariant.

LEMMA PanicStartsOver ==
  ASSUME IInv, NEW w \in Wallets, NEW done, NEW form, Panic(w, done, form)
  PROVE  StartOver(w) /\ failures' \in 0..MaxFailures
  <1>1. failures \in 0..MaxFailures /\ MaxFailures \in Nat
    BY ConstantsAssumption DEF IInv, TypeOK
  <1>2. /\ StartOver(w)
        /\ \/ failures' = failures
           \/ failures < MaxFailures /\ failures' = failures + 1
    BY Zenon DEF Panic
  <1>3. QED
    BY <1>1, <1>2

LEMMA BuildCallKeeps ==
  ASSUME IInv, NEW w \in Wallets, UNCHANGED <<chain, batch>>,
         BnbBuildUnSignTransaction(w) \/ EthBuildUnSignTransaction(w)
  PROVE  IInv'
  <1>1. CASE step[w] = "build" /\ Panic(w, built[w], "malformed")
    <2>1. StartOver(w) /\ failures' \in 0..MaxFailures
      BY <1>1, PanicStartsOver
    <2>2. QED
      BY <1>1, <2>1, StartOverKeeps
  <1>2. CASE ~(step[w] = "build" /\ Panic(w, built[w], "malformed"))
    <2>1. PICK c : /\ BuildUnSigned(w, c)
                   /\ \/ chain = "bnb" /\ c = BnbDynamicFeeTx(Payload(w, built[w]))
                      \/ chain = "ethereum" /\ c = EthDynamicFeeTx(Payload(w, built[w]))
      BY <1>2 DEF BnbBuildUnSignTransaction, EthBuildUnSignTransaction
    <2>2. Len(built[w]) \in Nat /\ More(w, built[w])
      BY <2>1, ListTypes DEF IInv, BuildUnSigned
    <2>3. c \in Made /\ MadeOf(Payload(w, built[w]), c)
      BY <2>1, <2>2, FreshContent DEF IInv
    <2>4. QED
      BY <2>1, <2>3, BuildKeeps
  <1>3. QED
    BY <1>1, <1>2

LEMMA FinishCallKeeps ==
  ASSUME IInv, NEW w \in Wallets, UNCHANGED <<chain, batch>>,
         BnbBuildSignedTransaction(w) \/ EthBuildSignedTransaction(w)
  PROVE  IInv'
  <1>1. CASE step[w] = "finish" /\ Panic(w, signed[w], "unsigned")
    <2>1. StartOver(w) /\ failures' \in 0..MaxFailures
      BY <1>1, PanicStartsOver
    <2>2. QED
      BY <1>1, <2>1, StartOverKeeps
  <1>2. CASE ~(step[w] = "finish" /\ Panic(w, signed[w], "unsigned"))
    <2>1. PICK c : /\ BuildSigned(w, c)
                   /\ \/ chain = "bnb" /\ c = BnbDynamicFeeTx(Payload(w, signed[w]))
                      \/ chain = "ethereum" /\ c = EthDynamicFeeTx(Payload(w, signed[w]))
      BY <1>2 DEF BnbBuildSignedTransaction, EthBuildSignedTransaction
    <2>2. Len(signed[w]) \in Nat /\ More(w, signed[w]) /\ step[w] = "finish"
      BY <2>1, ListTypes DEF IInv, BuildSigned
    <2>3. c \in Made /\ MadeOf(Payload(w, signed[w]), c)
      BY <2>1, <2>2, FreshContent DEF IInv
    <2>4. CASE SenderMatches(w, c)
      BY <2>1, <2>2, <2>3, <2>4, AssembleKeeps DEF MadeOf
    <2>5. CASE ~SenderMatches(w, c)
      <3>1. StartOver(w) /\ failures' \in 0..MaxFailures
        BY <2>1, <2>5 DEF BuildSigned, IInv, TypeOK
      <3>2. QED
        BY <2>2, <3>1, StartOverKeeps
    <2>6. QED
      BY <2>4, <2>5
  <1>3. QED
    BY <1>1, <1>2

LEMMA EvmInvStep == IInv /\ [Next]_vars => IInv'
  <1> SUFFICES ASSUME IInv, [Next]_vars PROVE IInv'
    OBVIOUS
  <1>1. CASE UNCHANGED vars
    BY <1>1, StutterKeeps
  <1>2. CASE Next
    <2>1. UNCHANGED <<chain, batch>>
      BY <1>2 DEF Next
    <2>2. CASE Node
      BY <2>1, <2>2, QuoteKeeps, MineKeeps, ElsewhereKeeps DEF Node
    <2>3. ASSUME NEW w \in Wallets, Server(w)
          PROVE  IInv'
      <3>1. CASE BnbSendTransaction(w) \/ EthSendTransaction(w)
        BY <2>1, <3>1, SendKeeps DEF BnbSendTransaction, EthSendTransaction
      <3>2. QED
        BY <2>1, <2>3, <3>1, BuildCallKeeps, FinishCallKeeps DEF Server
    <2>4. ASSUME NEW w \in Wallets, Sign(w)
          PROVE  IInv'
      BY <2>1, <2>4, SignKeeps
    <2>5. QED
      BY <1>2, <2>2, <2>3, <2>4 DEF Next
  <1>3. QED
    BY <1>1, <1>2

LEMMA EvmInvInit == Init => IInv
  <1> SUFFICES ASSUME Init PROVE IInv
    OBVIOUS
  <1>1. BatchInv
    BY DEF Init, BatchInv
  <1>2. TypeOK
    <2>1. /\ <<>> \in Seq(Contents) /\ <<>> \in Seq(SignedTxs) /\ <<>> \in Seq(BOOLEAN)
          /\ Len(<<>>) = 0 /\ 0 \in 0..MaxMoves /\ 0 \in 0..MaxFailures
      BY ConstantsAssumption
    <2>2. QED
      BY <2>1 DEF Init, TypeOK, SignedTxs
  <1>3. PoolInv
    BY DEF Init, PoolInv
  <1>4. ASSUME NEW w \in Wallets
        PROVE  WalletInv(w)
    <2>1. /\ step[w] = "build" /\ built[w] = <<>> /\ signature[w] = <<>>
          /\ signed[w] = <<>> /\ told[w] = <<>> /\ Len(batch[w]) \in Nat
      BY <1>1, BatchType DEF Init
    <2>2. Progress(w)
      BY <2>1 DEF Progress, Signing
    <2>3. BuiltOf(w) /\ SignedOf(w) /\ ToldOf(w)
      BY <2>1 DEF BuiltOf, SignedOf, ToldOf, Reported
    <2>4. QED
      BY <2>2, <2>3 DEF WalletInv
  <1>5. QED
    BY <1>1, <1>2, <1>3, <1>4 DEF IInv

LEMMA EvmInvHolds == Spec => []IInv
  BY EvmInvInit, EvmInvStep, PTL DEF Spec


-----------------------------------------------------------------------------
\* Results

\* Whatever the wallets send and the node quotes, every variable of the two
\* adaptors' transfer calls has its type, and a call never returns more than
\* the payloads it was given.
THEOREM EvmTypesHold == Spec => []TypeOK
  <1>1. IInv => TypeOK
    BY DEF IInv
  <1>2. QED
    BY <1>1, EvmInvHolds, PTL

\* BuildSignedTransaction answers with the transaction its owner signed,
\* payload by payload, whatever the node says between the two builds.
THEOREM AnswersAreSigned == Spec => []AnswersWhatWasSigned
  <1>1. IInv => AnswersWhatWasSigned
    <2> SUFFICES ASSUME IInv, NEW w \in Wallets, NEW i \in DOMAIN signed[w]
                 PROVE  /\ signed[w][i].content = signature[w][i]
                        /\ signed[w][i].content.id = batch[w][i].id
                        /\ signed[w][i].sender = batch[w][i].from
      BY DEF AnswersWhatWasSigned
    <2>1. i \in 1..Len(signed[w])
      BY ListTypes DEF IInv
    <2>2. QED
      BY <2>1, AssembledType DEF IInv, WalletInv, SignedOf, MadeOf
  <1>2. QED
    BY <1>1, EvmInvHolds, PTL

\* What SendTransaction reports as sent keeps its place at the node, or loses
\* it to one that pays a tenth more of both fees.
THEOREM ReportedTransferStays == Spec => []ReportedStays
  <1>1. IInv => ReportedStays
    BY DEF IInv, WalletInv, ToldOf, AtNode, ReportedStays
  <1>2. QED
    BY <1>1, EvmInvHolds, PTL

\* On Ethereum the fees are two constants, which do not outbid themselves: a
\* transfer reported as sent keeps its place for good.
THEOREM EthReportedTransferStays == Spec => []EthReportedStays
  <1>1. ~Outbids(DefaultEip1559GasFees, DefaultEip1559GasFees)
    BY DefaultFeesAssumption DEF Outbids, DefaultEip1559GasFees
  <1>2. IInv => EthReportedStays
    <2> SUFFICES ASSUME IInv, NEW w \in Wallets, NEW i \in DOMAIN batch[w],
                        chain = "ethereum", Reported(w, i)
                 PROVE  pool[signed[w][i].content.from][signed[w][i].content.nonce + 1]
                          = signed[w][i].content
      BY DEF EthReportedStays
    <2>1. PICK t : t = signed[w][i].content
      OBVIOUS
    <2>2. i \in 1..Len(signed[w]) /\ t \in Contents
      BY <2>1, ReportedType DEF IInv
    <2>3. t.fee = DefaultEip1559GasFees /\ AtNode(t)
      BY <2>1, <2>2, AssembledType DEF IInv, WalletInv, ToldOf, MadeOf
    <2>4. t.from \in Accounts /\ t.nonce + 1 \in DOMAIN pool[t.from]
      <3>1. t.from \in Accounts /\ t.nonce \in Nat
        BY <2>2 DEF Contents
      <3>2. pool[t.from] \in Seq(Contents)
        BY <3>1, NodeTypesHold DEF IInv, NodeTypes
      <3>3. QED
        BY <2>3, <3>1, <3>2 DEF AtNode, Occupied
    <2>5. pool[t.from][t.nonce + 1].fee = DefaultEip1559GasFees
      BY <2>4 DEF IInv, PoolInv
    <2>6. QED
      BY <1>1, <2>1, <2>3, <2>5 DEF AtNode
  <1>3. QED
    BY <1>2, EvmInvHolds, PTL

\* On Ethereum a build that finds every nonce as the owner signed it makes
\* the same content, and so accepts his signature.
LEMMA SameNonceSameContent ==
  ASSUME IInv, NEW w \in Wallets, chain = "ethereum", InOrder(w),
         step[w] = "finish", More(w, signed[w]),
         \A i \in DOMAIN signature[w] :
            signature[w][i].nonce = Len(pool[signature[w][i].from])
  PROVE  SenderMatches(w, EthDynamicFeeTx(Payload(w, signed[w])))
  <1>1. PICK n, p, g : /\ n \in Nat
                       /\ n = Len(signed[w]) + 1
                       /\ p = Payload(w, signed[w])
                       /\ g = signature[w][n]
    BY ListTypes DEF IInv
  <1>2. PICK c : c = EthDynamicFeeTx(p)
    OBVIOUS
  <1>3. /\ signature[w] = built[w] /\ built[w] \in Seq(Contents)
        /\ Len(built[w]) = Len(batch[w]) /\ n \in 1..Len(batch[w])
    <2>1. signature[w] = built[w] /\ Len(built[w]) = Len(batch[w])
      BY DEF IInv, WalletInv, Progress, Signing
    <2>2. Len(signed[w]) \in Nat /\ Len(batch[w]) \in Nat /\ built[w] \in Seq(Contents)
      BY ListTypes, BatchType DEF IInv
    <2>3. QED
      BY <1>1, <2>1, <2>2 DEF More
  <1>4. p = batch[w][n] /\ p.form = "ok" /\ p.from \in Accounts
    BY <1>1, <1>3, BatchType DEF Payload, InOrder, IInv
  <1>5. g \in Contents /\ MadeOf(p, g) /\ g.nonce = Len(pool[g.from])
    BY <1>1, <1>3, <1>4 DEF IInv, WalletInv, BuiltOf
  <1>6. c = g
    <2>1. c = [id |-> p.id, from |-> p.from, nonce |-> Len(pool[p.from]),
               fee |-> DefaultEip1559GasFees]
      BY <1>2 DEF EthDynamicFeeTx, Content
    <2>2. g = [id |-> g.id, from |-> g.from, nonce |-> g.nonce, fee |-> g.fee]
      BY <1>5 DEF Contents
    <2>3. QED
      BY <1>5, <2>1, <2>2 DEF MadeOf
  <1>7. Sender(c, g) = p.from
    BY <1>5, <1>6 DEF Sender, MadeOf
  <1>8. QED
    BY <1>1, <1>2, <1>4, <1>7 DEF SenderMatches

\* No call of one wallet moves another.
LEMMA OnlyItsOwnStep ==
  ASSUME IInv, Next, NEW w \in Wallets, step[w] = "finish", step'[w] # "finish"
  PROVE  BnbBuildSignedTransaction(w) \/ EthBuildSignedTransaction(w)
  <1>1. step \in [Wallets -> Steps]
    BY DEF IInv, TypeOK, Steps
  <1>2. ~Node
    BY DEF Node, QuoteMoves, Mine, TransferElsewhere, walletVars
  <1>3. PICK v \in Wallets : Server(v) \/ Sign(v)
    BY <1>2 DEF Next
  <1>4. \E s : step' = [step EXCEPT ![v] = s]
    <2>1. CASE Sign(v)
      BY <2>1 DEF Sign
    <2>2. CASE BnbBuildUnSignTransaction(v) \/ EthBuildUnSignTransaction(v)
      BY <2>2 DEF BnbBuildUnSignTransaction, EthBuildUnSignTransaction,
                  BuildUnSigned, Panic, StartOver
    <2>3. CASE BnbBuildSignedTransaction(v) \/ EthBuildSignedTransaction(v)
      BY <2>3 DEF BnbBuildSignedTransaction, EthBuildSignedTransaction,
                  BuildSigned, Panic, StartOver
    <2>4. CASE BnbSendTransaction(v) \/ EthSendTransaction(v)
      BY <2>4 DEF BnbSendTransaction, EthSendTransaction, SendItem
    <2>5. QED
      BY <1>3, <2>1, <2>2, <2>3, <2>4 DEF Server
  <1>5. v = w
    BY <1>1, <1>4
  <1>6. QED
    BY <1>3, <1>5 DEF Server, Sign, BnbBuildUnSignTransaction,
                      EthBuildUnSignTransaction, BuildUnSigned, BnbSendTransaction,
                      EthSendTransaction, SendItem

\* On Ethereum BuildSignedTransaction turns an orderly batch down only when
\* the node did not answer, or when a nonce it was signed with is no longer
\* the pending one.
THEOREM EthSignatureKeeps == Spec => EthOnlyNonceGoesStale
  <1>1. IInv /\ [Next]_vars
          => [\A w \in Wallets :
                 /\ chain = "ethereum" /\ InOrder(w)
                 /\ step[w] = "finish" /\ step'[w] = "build"
                 => \/ failures' > failures
                    \/ \E i \in DOMAIN signature[w] :
                          signature[w][i].nonce # Len(pool[signature[w][i].from])]_vars
    <2> SUFFICES ASSUME IInv, [Next]_vars, NEW w \in Wallets,
                        chain = "ethereum", InOrder(w),
                        step[w] = "finish", step'[w] = "build",
                        \A i \in DOMAIN signature[w] :
                           signature[w][i].nonce = Len(pool[signature[w][i].from])
                 PROVE  failures' > failures
      OBVIOUS
    <2>1. Next
      BY DEF vars, walletVars
    <2>2. EthBuildSignedTransaction(w)
      BY <2>1, OnlyItsOwnStep DEF BnbBuildSignedTransaction
    <2>3. CASE Panic(w, signed[w], "unsigned")
      <3>1. failures \in 0..MaxFailures
        BY DEF IInv, TypeOK
      <3>2. Len(signed[w]) + 1 \in DOMAIN batch[w]
        BY <2>3, BatchType, ListTypes DEF Panic, More, IInv
      <3>3. Payload(w, signed[w]).form # "unsigned"
        BY <3>2 DEF Payload, InOrder
      <3>4. failures' = failures + 1
        BY <2>3, <3>3 DEF Panic
      <3>5. QED
        BY <3>1, <3>4
    <2>4. CASE BuildSigned(w, EthDynamicFeeTx(Payload(w, signed[w])))
      <3>1. SenderMatches(w, EthDynamicFeeTx(Payload(w, signed[w])))
        BY <2>4, SameNonceSameContent DEF BuildSigned
      <3>2. step' = [step EXCEPT ![w] = IF Len(signed'[w]) = Len(batch[w])
                                        THEN "send" ELSE @]
        BY <2>4, <3>1 DEF BuildSigned
      <3>3. step'[w] # "build"
        BY <3>2 DEF IInv, TypeOK
      <3>4. QED
        BY <3>3
    <2>5. QED
      BY <2>2, <2>3, <2>4 DEF EthBuildSignedTransaction
  <1>2. QED
    BY <1>1, EvmInvHolds, PTL DEF EthOnlyNonceGoesStale, Spec

=============================================================================
