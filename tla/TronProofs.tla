----------------------------- MODULE TronProofs -----------------------------
(***************************************************************************)
(* Theorems about Tron for every set of callers, amounts and prices.       *)
(***************************************************************************)
EXTENDS Tron, TLAPS

-----------------------------------------------------------------------------
\* Amounts

LEMMA MaxOfTwo ==
  ASSUME NEW a \in Int, NEW b \in Int
  PROVE  Max({a, b}) \in {a, b} /\ Max({a, b}) >= a /\ Max({a, b}) >= b
  <1>1. \E x \in {a, b} : \A y \in {a, b} : x >= y
    BY SMT
  <1>2. QED
    BY <1>1 DEF Max

\* Rounding up loses nothing.
LEMMA CeilDivUp ==
  ASSUME NEW a \in Int
  PROVE  CeilDiv(a, 10000) \in Int /\ CeilDiv(a, 10000) * 10000 >= a
  BY DEF CeilDiv

LEMMA DivType ==
  ASSUME NEW a \in Int, NEW b \in Nat \ {0}
  PROVE  a \div b \in Int
  OBVIOUS

LEMMA ProductBounds ==
  ASSUME NEW n \in Nat
  PROVE  Least(n) \in Int /\ Most(n) \in Int
  <1>1. Precision \in Nat \ {0}
    BY ConstantsAssumption
  <1>2. n \div Precision \in Int /\ (n + Precision - 1) \div Precision \in Int
    BY <1>1, DivType
  <1>3. QED
    BY <1>1, <1>2 DEF Least, Most, CeilDiv

LEMMA Minima ==
  /\ minJustLendDelegatedSun \in Nat \ {0}
  /\ minJustLendLiquidationFeeSun \in Nat \ {0}
  BY ConstantsAssumption DEF minJustLendDelegatedSun, minJustLendLiquidationFeeSun

\* Whatever float64 and int64() make of it, the amount delegated is never below
\* the least, and where it fits an int64 it covers the energy to the precision
\* of float64.
LEMMA DelegatedCovers ==
  ASSUME NEW energy \in Nat, NEW q \in Nat,
         NEW d \in energyToDelegatedSunWithStakePrice(energy, q)
  PROVE  /\ d \in Nat
         /\ FitsInt64(energy * q) => d * 10000 >= Least(energy * q)
         /\ d >= minJustLendDelegatedSun
  <1>1. PICK n \in Nat : n = energy * q
    OBVIOUS
  <1>2. PICK least, most \in Int : least = Least(n) /\ most = Most(n)
    BY ProductBounds
  <1>3. PICK low, high \in Int : low = CeilDiv(least, 10000) /\ high = CeilDiv(most, 10000)
    BY CeilDivUp
  <1>4. low * 10000 >= least
    BY <1>3, CeilDivUp
  <1>5. PICK x \in low..high : \E y \in ToInt64(x) : d = Max({y, minJustLendDelegatedSun})
    <2>1. Ceilings(energy * q) = low..high
      BY <1>1, <1>2, <1>3 DEF Ceilings
    <2>2. QED
      BY <2>1 DEF energyToDelegatedSunWithStakePrice
  <1>6. PICK y \in ToInt64(x) : d = Max({y, minJustLendDelegatedSun})
    BY <1>5
  <1>7. y \in Int /\ (x <= MaxInt64 => y = x)
    <2>1. MaxInt64 \in Int /\ x \in Int
      BY ConstantsAssumption
    <2>2. CASE x <= MaxInt64
      <3>1. ToInt64(x) = {x}
        BY <2>2 DEF ToInt64
      <3>2. QED
        BY <2>1, <3>1
    <2>3. CASE ~(x <= MaxInt64)
      <3>1. ToInt64(x) = {-MaxInt64 - 1, MaxInt64}
        BY <2>3 DEF ToInt64
      <3>2. QED
        BY <2>1, <2>3, <3>1
    <2>4. QED
      BY <2>2, <2>3
  <1>8. d \in Nat /\ d >= y /\ d >= minJustLendDelegatedSun
    <2>1. PICK m \in Nat \ {0} : m = minJustLendDelegatedSun
      BY Minima
    <2>2. PICK z \in Int : z = y
      BY <1>7
    <2>3. d \in {z, m} /\ d >= z /\ d >= m
      BY <1>6, <2>1, <2>2, MaxOfTwo
    <2>4. QED
      BY <2>1, <2>2, <2>3
  <1>9. FitsInt64(n) => d * 10000 >= least
    <2>1. FitsInt64(n) => high <= MaxInt64
      BY <1>2, <1>3 DEF FitsInt64
    <2>2. high <= MaxInt64 => d >= low
      BY <1>7, <1>8, ConstantsAssumption
    <2>3. QED
      BY <1>4, <1>8, <2>1, <2>2
  <1>10. QED
    BY <1>1, <1>2, <1>8, <1>9

\* What is paid with a rental is enough to liquidate it.
LEMMA PrepayCovers ==
  ASSUME NEW energy \in Int, NEW v \in Int
  PROVE  /\ normalizeJustLendPrepaySun(energy, v) \in Nat
         /\ normalizeJustLendPrepaySun(energy, v) >= minJustLendLiquidationFeeSun
  <1>1. defaultRentPrepaySun(energy) \in Nat
    BY ConstantsAssumption DEF defaultRentPrepaySun
  <1> DEFINE d == defaultRentPrepaySun(energy)
             m == minJustLendLiquidationFeeSun
  <1>2. d \in Int /\ m \in Int /\ m > 0
    BY <1>1, Minima
  <1> HIDE DEF d, m
  <1>3. Max({d, m}) \in Int /\ Max({d, m}) >= m
    BY <1>2, MaxOfTwo
  <1>4. normalizeJustLendPrepaySun(energy, v) = IF v >= m THEN v ELSE Max({d, m})
    BY DEF normalizeJustLendPrepaySun, d, m
  <1>5. normalizeJustLendPrepaySun(energy, v) \in Nat /\ normalizeJustLendPrepaySun(energy, v) >= m
    BY <1>2, <1>3, <1>4
  <1>6. QED
    BY <1>5 DEF m

LEMMA PricesAreNat ==
  ASSUME price \in Prices
  PROVE  StakePrices \subseteq Nat
  <1>1. Trx \in Nat /\ price \in Nat
    BY ConstantsAssumption
  <1>2. defaultStakeTrxPer10KEnergy \in Nat
    BY <1>1 DEF defaultStakeTrxPer10KEnergy
  <1>3. QED
    BY <1>1, <1>2 DEF StakePrices

-----------------------------------------------------------------------------
\* The inductive invariant

Steps   == {"build", "sign", "send", "range", "balance", "done", "error"}
Reports == {"sent", "failed"}

\* A transaction the adaptor may have made; what it delegates or gives back is
\* an amount.
Txs == [id : Callers \X (Nat \ {0}), kind : PayloadKinds, to : Accounts, form : Forms,
        energy : Int, amount : Int, call : Int, estimated : BOOLEAN,
        version : Nat, price : Prices]

DataInv ==
    /\ work \in Work
    /\ step \in [Callers -> Steps]
    /\ made \in [Callers -> Seq(Txs)]
    /\ told \in [Callers -> Seq(Reports)]
    /\ attempt \in [Callers -> 0..Retries]
    /\ reply = [c \in Callers |-> reply[c]]
    /\ seen = [c \in Callers |-> seen[c]]

ChainInv ==
    /\ active \subseteq Accounts
    /\ rentals \in [Accounts -> Nat]
    /\ version \in [Accounts -> Nat]
    /\ price \in Prices
    /\ blocks \in Seq(Seq(Txs))
    /\ Len(blocks) <= MaxBlocks

\* The transactions the node took are those of a batch that is being sent, and
\* the blocks have none other.
KnownInv ==
    /\ \A tx \in known :
          /\ tx.form = "ok"
          /\ \E c \in Callers : /\ step[c] \in {"send", "done"}
                                /\ tx.id[1] = c
                                /\ tx.id[2] \in DOMAIN made[c]
                                /\ tx = made[c][tx.id[2]]
    /\ Mined \subseteq known

\* The call a caller is in says what it has.
Progress(c) ==
    /\ step[c] \in {"build", "sign", "send"} => work[c].kind = "batch"
    /\ step[c] = "build" => Len(made[c]) < Len(Payloads(c))
    /\ step[c] = "sign" => made[c] # <<>>
    /\ step[c] = "send" => Len(told[c]) < Len(made[c])
    /\ step[c] \in {"range", "balance"} => made[c] = <<>> /\ work[c].kind = step[c]
    /\ step[c] \notin {"send", "done"} => told[c] = <<>>
    /\ Len(told[c]) <= Len(made[c])

\* What holds of a transaction since it was made: a rental is enough, and a
\* return is of the rental for as long as that does not change.
Fits(tx) ==
    /\ tx.kind \in {"rent", "return"} => tx.amount \in Nat
    /\ tx.kind = "rent" =>
          /\ ~tx.estimated /\ FitsInt64(tx.energy * tx.price)
             => tx.amount * 10000 >= Least(tx.energy * tx.price)
          /\ tx.amount >= minJustLendDelegatedSun
          /\ tx.call >= minJustLendLiquidationFeeSun
    /\ tx.version <= version[tx.to]
    /\ tx.kind = "return" /\ ~tx.estimated /\ tx.version = version[tx.to]
          => tx.amount = rentals[tx.to]

MadeInv(c) == \A i \in DOMAIN made[c] : made[c][i].id = <<c, i>> /\ Fits(made[c][i])

\* A transaction the node took is reported sent, or an answer about it was lost.
Sent(c, i)  == i \in DOMAIN told[c] /\ told[c][i] = "sent"
ToldInv(c) ==
    \A i \in DOMAIN made[c] :
        IF Sent(c, i) THEN made[c][i] \in known
                      ELSE made[c][i] \in known => made[c][i] \in cut

\* The heights that were read, in order.
ReadAt(c, h, block) ==
    \/ h \in DOMAIN blocks /\ block = [height |-> h, txs |-> parseBlockTransactions(h)]
    \/ block = EmptyBlock /\ h \notin 1..seen[c]

BlocksRead == [height : Nat, txs : SUBSET Txs]

RangeInv(c) ==
    work[c].kind = "range" /\ step[c] # "error" =>
        /\ reply[c] \in Seq(BlocksRead)
        /\ seen[c] \in 0..Len(blocks)
        /\ reply[c] # <<>> => work[c].first + Len(reply[c]) <= work[c].last + 1
        /\ step[c] = "done" => work[c].first + Len(reply[c]) = work[c].last + 1
        /\ \A i \in DOMAIN reply[c] : ReadAt(c, work[c].first + i - 1, reply[c][i])

CallerInv(c) == Progress(c) /\ MadeInv(c) /\ ToldInv(c) /\ RangeInv(c)

IInv == DataInv /\ ChainInv /\ KnownInv /\ \A c \in Callers : CallerInv(c)

-----------------------------------------------------------------------------
\* Data

LEMMA ListTypes ==
  ASSUME DataInv, NEW c \in Callers
  PROVE  /\ step[c] \in Steps
         /\ made[c] \in Seq(Txs) /\ Len(made[c]) \in Nat
         /\ told[c] \in Seq(Reports) /\ Len(told[c]) \in Nat
         /\ attempt[c] \in 0..Retries
         /\ IsWork(work[c])
  BY ConstantsAssumption DEF DataInv

\* A payload of a batch is one.
LEMMA PayloadType ==
  ASSUME DataInv, NEW c \in Callers, work[c].kind = "batch", NEW i \in 1..Len(Payloads(c))
  PROVE  Payloads(c)[i] \in Payload
  BY ListTypes DEF IsWork, Payloads

\* Whatever buildUnsignedTransaction makes of a payload has the type of a
\* transaction, the place it will be put in, and an amount that fits.
LEMMA BuiltFits ==
  ASSUME DataInv, ChainInv, NEW c \in Callers, NEW p \in Payload,
         NEW tx \in buildUnsignedTransaction(c, p)
  PROVE  /\ tx \in Txs
         /\ tx.id = <<c, Len(made[c]) + 1>>
         /\ Fits(tx)
  <1> DEFINE n == Len(made[c]) + 1
  <1>1. /\ n \in Nat \ {0} /\ p.kind \in PayloadKinds /\ p.to \in Accounts
        /\ p.energy \in Int /\ p.value \in Int /\ p.form \in Forms
        /\ version[p.to] \in Nat /\ price \in Prices /\ rentals[p.to] \in Nat
    BY ListTypes DEF Payload, ChainInv
  <1>2. StakePrices \subseteq Nat
    BY <1>1, PricesAreNat
  <1> HIDE DEF n
  <1> DEFINE Has(a, b) == /\ tx \in Txs /\ tx.id = <<c, Len(made[c]) + 1>>
                          /\ tx.kind = p.kind /\ tx.to = p.to /\ tx.energy = p.energy
                          /\ tx.amount = a /\ tx.call = b
                          /\ tx.version = version[p.to] /\ tx.price = price
  <1>2a. ASSUME NEW a \in Int, NEW b \in Int, tx = Tx(c, p, a, b, FALSE)
         PROVE  Has(a, b) /\ ~tx.estimated
    BY <1>1, <1>2a DEF Tx, Txs, n
  <1>2b. ASSUME NEW a \in Int, NEW b \in Int, tx = Tx(c, p, a, b, TRUE)
         PROVE  Has(a, b) /\ tx.estimated
    BY <1>1, <1>2b DEF Tx, Txs, n
  <1>2c. 0 \in Int
    OBVIOUS
  <1> HIDE DEF Has
  <1>3. ASSUME NEW a \in Int, Has(a, 0), p.kind \notin {"rent", "return"}
        PROVE  tx.id = <<c, Len(made[c]) + 1>> /\ tx \in Txs /\ Fits(tx)
    BY <1>1, <1>3 DEF Fits, Has
  <1>4. CASE p.kind \in {"activate", "transfer"}
    <2>1. PICK a \in Int : tx = Tx(c, p, a, 0, FALSE)
      <3>1. defaultActivationTransferSun \in Int
        BY ConstantsAssumption DEF defaultActivationTransferSun
      <3>2. QED
        BY <1>1, <1>4, <3>1 DEF buildUnsignedTransaction, CreateTRXTransaction, OrDefault
    <2>2. Has(a, 0)
      BY <1>2a, <1>2c, <2>1, Zenon
    <2>3. QED
      BY <1>3, <1>4, <2>2
  <1>5. CASE p.kind = "trc20"
    <2>1. PICK a \in Int : tx = Tx(c, p, a, 0, FALSE)
      BY <1>1, <1>5 DEF buildUnsignedTransaction, CreateTRC20Transaction
    <2>2. Has(a, 0)
      BY <1>2a, <1>2c, <2>1, Zenon
    <2>3. QED
      BY <1>3, <1>5, <2>2
  <1>6. CASE p.kind = "delegate"
    <2>1. PICK a \in Int : \/ tx = Tx(c, p, a, 0, FALSE)
                           \/ tx = [Tx(c, p, a, 0, FALSE) EXCEPT !.form = "empty"]
      <3>1. defaultDelegateBalanceSun \in Int
        BY ConstantsAssumption DEF defaultDelegateBalanceSun
      <3>2. QED
        BY <1>1, <1>6, <3>1
           DEF buildUnsignedTransaction, CreateDelegateResourceTransaction, OrDefault
    <2>2. CASE tx = Tx(c, p, a, 0, FALSE)
      <3>1. Has(a, 0)
        BY <1>2a, <1>2c, <2>2, Zenon
      <3>2. QED
        BY <1>3, <1>6, <3>1
    <2>3. CASE tx = [Tx(c, p, a, 0, FALSE) EXCEPT !.form = "empty"]
      <3>1. "empty" \in Forms
        BY DEF Forms
      <3>2. tx = [id |-> <<c, n>>, kind |-> p.kind, to |-> p.to, form |-> "empty",
                  energy |-> p.energy, amount |-> a, call |-> 0, estimated |-> FALSE,
                  version |-> version[p.to], price |-> price]
        BY <2>3 DEF Tx, n
      <3>3. Has(a, 0)
        BY <1>1, <3>1, <3>2 DEF Txs, n, Has
      <3>4. QED
        BY <1>3, <1>6, <3>3
    <2>4. QED
      BY <2>1, <2>2, <2>3
  <1>7. CASE p.kind = "rent"
    <2>1. PICK q \in StakePrices :
             /\ \E a \in energyToDelegatedSunWithStakePrice(p.energy, q) : \E v \in Int :
                  tx = Tx(c, p, a, normalizeJustLendPrepaySun(p.energy, v), q # price)
             /\ p.energy > 0
      <3>1. EstimateRentPrepay(p.energy) \subseteq Int
        BY <1>1, ConstantsAssumption DEF EstimateRentPrepay, defaultRentPrepaySun
      <3>2. QED
        BY <1>1, <1>7, <3>1 DEF buildUnsignedTransaction, CreateJustLendRentTransaction
    <2>1a. PICK a \in energyToDelegatedSunWithStakePrice(p.energy, q), v \in Int :
             tx = Tx(c, p, a, normalizeJustLendPrepaySun(p.energy, v), q # price)
      BY <2>1
    <2>2. PICK b : b = normalizeJustLendPrepaySun(p.energy, v)
      OBVIOUS
    <2>3. /\ a \in Nat /\ a >= minJustLendDelegatedSun
          /\ FitsInt64(p.energy * q) => a * 10000 >= Least(p.energy * q)
          /\ b \in Nat /\ b >= minJustLendLiquidationFeeSun
      <3>1. p.energy \in Nat /\ q \in Nat /\ v \in Int
        <4>1. p.energy > 0
          BY <2>1
        <4>2. QED
          BY <1>1, <1>2, <4>1
      <3>2. /\ a \in Nat /\ a >= minJustLendDelegatedSun
            /\ FitsInt64(p.energy * q) => a * 10000 >= Least(p.energy * q)
        <4>1. PICK e \in Nat : e = p.energy
          BY <3>1
        <4>2. PICK r \in Nat : r = q
          BY <3>1
        <4>3. a \in energyToDelegatedSunWithStakePrice(e, r)
          BY <4>1, <4>2
        <4>4. /\ a \in Nat /\ a >= minJustLendDelegatedSun
              /\ FitsInt64(e * r) => a * 10000 >= Least(e * r)
          BY <4>3, DelegatedCovers
        <4>5. QED
          BY <4>1, <4>2, <4>4
      <3>3. b \in Nat /\ b >= minJustLendLiquidationFeeSun
        BY <1>1, <2>2, <3>1, PrepayCovers
      <3>4. QED
        BY <3>2, <3>3
    <2>4. Has(a, b) /\ (~tx.estimated => q = price)
      <3>1. a \in Int /\ b \in Int
        BY <2>3
      <3>2. CASE q = price
        <4>1. tx = Tx(c, p, a, b, FALSE)
          BY <2>1a, <2>2, <3>2 DEF Tx
        <4>2. QED
          BY <3>1, <3>2, <4>1, <1>2a, Zenon
      <3>3. CASE q # price
        <4>1. tx = Tx(c, p, a, b, TRUE)
          BY <2>1a, <2>2, <3>3 DEF Tx
        <4>2. QED
          BY <3>1, <4>1, <1>2b, Zenon
      <3>4. QED
        BY <3>2, <3>3
    <2>5. ~tx.estimated /\ FitsInt64(tx.energy * tx.price)
          => tx.amount * 10000 >= Least(tx.energy * tx.price)
      BY <2>3, <2>4 DEF Has
    <2>6. QED
      BY <1>1, <1>7, <2>3, <2>4, <2>5 DEF Fits, Has
  <1>8. CASE p.kind = "return"
    <2>1. \/ \E d \in {rentals[p.to]} \ {0, Unknown} : tx = Tx(c, p, d, 0, FALSE)
          \/ \E q \in StakePrices : \E a \in energyToDelegatedSunWithStakePrice(p.energy, q) :
                /\ p.energy > 0
                /\ tx = Tx(c, p, a, 0, TRUE)
      <3>1. tx \in CreateJustLendReturnTransaction(c, p)
        BY <1>8 DEF buildUnsignedTransaction
      <3>2. CASE \E d \in {rentals[p.to]} \ {0, Unknown} : tx = Tx(c, p, d, 0, FALSE)
        BY <3>2
      <3>3. CASE \E a \in EnergyToDelegatedSun(p.energy) : tx = Tx(c, p, a, 0, TRUE)
        BY <3>3 DEF EnergyToDelegatedSun
      <3>4. QED
        BY <3>1, <3>2, <3>3 DEF CreateJustLendReturnTransaction, QueryJustLendRentalDelegatedSun
    <2>2. CASE \E d \in {rentals[p.to]} \ {0, Unknown} : tx = Tx(c, p, d, 0, FALSE)
      <3>1. tx = Tx(c, p, rentals[p.to], 0, FALSE)
        BY <2>2, Zenon
      <3>1a. rentals[p.to] \in Int
        BY <1>1
      <3>2. Has(rentals[p.to], 0) /\ ~tx.estimated
        BY <1>2a, <1>2c, <3>1, <3>1a, Zenon
      <3>3. QED
        BY <1>1, <1>8, <3>2 DEF Fits, Has
    <2>3. ASSUME NEW q \in StakePrices, NEW a \in energyToDelegatedSunWithStakePrice(p.energy, q),
                 p.energy > 0, tx = Tx(c, p, a, 0, TRUE)
          PROVE  tx \in Txs /\ tx.id = <<c, Len(made[c]) + 1>> /\ Fits(tx)
      <3>1. a \in Nat
        <4>1. PICK e \in Nat : e = p.energy
          BY <1>1, <2>3
        <4>2. PICK r \in Nat : r = q
          BY <1>2
        <4>3. a \in energyToDelegatedSunWithStakePrice(e, r)
          BY <4>1, <4>2
        <4>4. QED
          BY <4>3, DelegatedCovers
      <3>2. tx = Tx(c, p, a, 0, TRUE) /\ a \in Int
        BY <2>3, <3>1
      <3>3. Has(a, 0) /\ tx.estimated
        BY <3>2, <1>2b, <1>2c, Zenon
      <3>4. QED
        BY <1>1, <1>8, <3>1, <3>3 DEF Fits, Has
    <2>4. QED
      BY <2>1, <2>2, <2>3
  <1>9. QED
    BY <1>1, <1>4, <1>5, <1>6, <1>7, <1>8 DEF PayloadKinds, TransferKinds

-----------------------------------------------------------------------------
\* What a step leaves alone

\* Blocks are only added.
Grown == /\ Len(blocks) <= Len(blocks)'
         /\ \A h \in DOMAIN blocks : h \in DOMAIN blocks' /\ blocks'[h] = blocks[h]

LEMMA ProgressKept ==
  ASSUME NEW c \in Callers, Progress(c),
         work' = work, step'[c] = step[c], made'[c] = made[c], told'[c] = told[c]
  PROVE  Progress(c)'
  BY DEF Progress, Payloads

LEMMA MadeKept ==
  ASSUME NEW c \in Callers, MadeInv(c), made'[c] = made[c],
         \A i \in DOMAIN made[c] : Fits(made[c][i]) => (\A tx : tx = made[c][i] => Fits(tx)')
  PROVE  MadeInv(c)'
  <1>1. \A i \in DOMAIN made[c] : made[c][i].id = <<c, i>> /\ (\A tx : tx = made[c][i] => Fits(tx)')
    BY DEF MadeInv
  <1>2. \A i \in DOMAIN made'[c] : made'[c][i].id = <<c, i>>
    BY <1>1
  <1>3. ASSUME NEW i \in DOMAIN made'[c]
        PROVE  Fits(made[c][i])'
    <2>1. PICK tx : tx = made[c][i]
      OBVIOUS
    <2>2. Fits(tx)' /\ tx = made'[c][i]
      BY <1>1, <1>3, <2>1
    <2>3. QED
      BY <2>2 DEF Fits
  <1>4. QED
    BY <1>2, <1>3 DEF MadeInv

LEMMA FitsKept ==
  ASSUME version' = version, rentals' = rentals
  PROVE  \A tx : Fits(tx) => Fits(tx)'
  BY DEF Fits

LEMMA ToldKept ==
  ASSUME NEW c \in Callers, ToldInv(c), made'[c] = made[c], told'[c] = told[c],
         known \subseteq known', cut \subseteq cut',
         \A i \in DOMAIN made[c] : made[c][i] \in known' => made[c][i] \in known
  PROVE  ToldInv(c)'
  BY DEF ToldInv, Sent

LEMMA ReadKept ==
  ASSUME NEW c \in Callers, NEW h, NEW block, ReadAt(c, h, block), Grown, seen'[c] = seen[c]
  PROVE  ReadAt(c, h, block)'
  BY DEF ReadAt, Grown, EmptyBlock, parseBlockTransactions, Contents, Listed

LEMMA RangeKept ==
  ASSUME NEW c \in Callers, ChainInv, RangeInv(c), Grown, Len(blocks') \in Nat,
         work' = work, step'[c] = step[c], reply'[c] = reply[c], seen'[c] = seen[c]
  PROVE  RangeInv(c)'
  <1> SUFFICES ASSUME work[c].kind = "range", step[c] # "error"
               PROVE  RangeInv(c)'
    BY DEF RangeInv
  <1>1. /\ seen[c] \in 0..Len(blocks)
        /\ \A i \in DOMAIN reply[c] : ReadAt(c, work[c].first + i - 1, reply[c][i])
    BY DEF RangeInv
  <1>2. Len(blocks) \in Nat /\ seen'[c] \in 0..Len(blocks')
    BY <1>1 DEF ChainInv, Grown
  <1>3. ASSUME NEW i \in DOMAIN reply'[c]
        PROVE  ReadAt(c, work[c].first + i - 1, reply[c][i])'
    <2>1. PICK h, block : h = work[c].first + i - 1 /\ block = reply[c][i]
      OBVIOUS
    <2>2. ReadAt(c, h, block)
      BY <1>1, <1>3, <2>1
    <2>3. ReadAt(c, h, block)'
      BY <2>2, ReadKept
    <2>4. h = work'[c].first + i - 1 /\ block = reply'[c][i]
      BY <2>1
    <2>5. QED
      BY <2>3, <2>4 DEF ReadAt
  <1>4. QED
    BY <1>2, <1>3 DEF RangeInv

\* The chain as it is, and the node with it.
LEMMA ChainKept ==
  ASSUME ChainInv, UNCHANGED chainVars
  PROVE  ChainInv' /\ Grown /\ Mined' = Mined
  BY DEF ChainInv, chainVars, Grown, Mined, Contents

\* A caller about whom nothing changed.
LEMMA CallerKept ==
  ASSUME DataInv, ChainInv, NEW c \in Callers, CallerInv(c), UNCHANGED chainVars, work' = work,
         step'[c] = step[c], made'[c] = made[c], told'[c] = told[c],
         reply'[c] = reply[c], seen'[c] = seen[c],
         known \subseteq known', cut \subseteq cut',
         \A i \in DOMAIN made[c] : made[c][i] \in known' => made[c][i] \in known
  PROVE  CallerInv(c)'
  <1>1. Grown /\ Len(blocks') \in Nat /\ version' = version /\ rentals' = rentals
    BY ChainKept DEF ChainInv, chainVars
  <1>2. Progress(c)'
    BY ProgressKept DEF CallerInv
  <1>3. MadeInv(c)'
    BY <1>1, MadeKept, FitsKept DEF CallerInv
  <1>4. ToldInv(c)'
    BY ToldKept DEF CallerInv
  <1>5. RangeInv(c)'
    BY <1>1, RangeKept DEF CallerInv
  <1>6. QED
    BY <1>2, <1>3, <1>4, <1>5 DEF CallerInv

-----------------------------------------------------------------------------
\* The steps

\* What the node took is a transaction of the batch it was made in.
LEMMA KnownType ==
  ASSUME DataInv, KnownInv, NEW tx \in known
  PROVE  /\ tx \in Txs /\ tx.form = "ok"
         /\ \E c \in Callers : /\ step[c] \in {"send", "done"} /\ tx.id[1] = c
                               /\ tx.id[2] \in DOMAIN made[c] /\ tx = made[c][tx.id[2]]
  <1>1. PICK c \in Callers : /\ step[c] \in {"send", "done"} /\ tx.id[1] = c
                             /\ tx.id[2] \in DOMAIN made[c] /\ tx = made[c][tx.id[2]]
    BY DEF KnownInv
  <1>2. tx \in Txs
    BY <1>1, ListTypes
  <1>3. QED
    BY <1>1, <1>2 DEF KnownInv

LEMMA StutterKeeps ==
  ASSUME IInv, UNCHANGED vars
  PROVE  IInv'
  <1>1. DataInv' /\ ChainInv' /\ Mined' = Mined
    BY ChainKept DEF IInv, DataInv, vars, callVars
  <1>2. KnownInv'
    BY <1>1 DEF IInv, KnownInv, vars, callVars
  <1>3. \A c \in Callers : CallerInv(c)'
    BY CallerKept DEF IInv, vars, callVars
  <1>4. QED
    BY <1>1, <1>2, <1>3 DEF IInv

LEMMA MovePriceKeeps ==
  ASSUME IInv, MovePrice
  PROVE  IInv'
  <1>1. /\ price' \in Prices /\ Grown /\ Mined' = Mined
        /\ \A c \in Callers : /\ step'[c] = step[c] /\ made'[c] = made[c] /\ told'[c] = told[c]
                              /\ reply'[c] = reply[c] /\ seen'[c] = seen[c]
    BY DEF MovePrice, callVars, Grown, Mined, Contents
  <1>2. DataInv'
    BY DEF MovePrice, callVars, IInv, DataInv
  <1>3. ChainInv'
    BY <1>1 DEF MovePrice, IInv, ChainInv
  <1>4. KnownInv'
    BY <1>1 DEF MovePrice, callVars, IInv, KnownInv
  <1>5. ASSUME NEW c \in Callers
        PROVE  CallerInv(c)'
    <2>1. CallerInv(c) /\ ChainInv /\ Len(blocks') \in Nat
      BY <1>3 DEF IInv, ChainInv
    <2>2. Progress(c)'
      BY <1>1, <2>1, ProgressKept DEF CallerInv, MovePrice, callVars
    <2>3. MadeInv(c)'
      BY <1>1, <2>1, MadeKept, FitsKept DEF CallerInv, MovePrice
    <2>4. ToldInv(c)'
      BY <1>1, <2>1, ToldKept DEF CallerInv, MovePrice
    <2>5. RangeInv(c)'
      BY <1>1, <2>1, RangeKept DEF CallerInv, MovePrice, callVars
    <2>6. QED
      BY <2>2, <2>3, <2>4, <2>5 DEF CallerInv
  <1>6. QED
    BY <1>2, <1>3, <1>4, <1>5 DEF IInv

\* What a rental or a return leaves delegated is an amount; a return of the
\* whole leaves nothing.
LEMMA DelegatedIsNat ==
  ASSUME ChainInv, NEW tx \in Txs, Fits(tx)
  PROVE  /\ Delegated(tx) \in Nat
         /\ tx.kind \notin {"rent", "return"} => Delegated(tx) = rentals[tx.to]
         /\ tx.kind = "return" /\ ~tx.estimated /\ tx.version = version[tx.to] => Delegated(tx) = 0
  <1>1. tx.to \in Accounts /\ rentals[tx.to] \in Nat
    BY DEF Txs, ChainInv
  <1>2. PICK r \in Nat : r = rentals[tx.to]
    BY <1>1
  <1>3. CASE tx.kind = "rent"
    <2>1. tx.amount \in Nat
      BY <1>3 DEF Fits
    <2>2. QED
      BY <1>2, <1>3, <2>1 DEF Delegated
  <1>4. CASE tx.kind = "return"
    <2>1. PICK d \in Nat : d = tx.amount
      BY <1>4 DEF Fits
    <2>2. Delegated(tx) = Max({0, r - d})
      BY <1>2, <1>4, <2>1 DEF Delegated
    <2>3. r - d \in Int
      OBVIOUS
    <2>4. Max({0, r - d}) \in {0, r - d} /\ Max({0, r - d}) >= 0
      BY <2>3, MaxOfTwo
    <2>5. Max({0, r - d}) \in Nat
      BY <2>3, <2>4
    <2>6. ~tx.estimated /\ tx.version = version[tx.to] => r - d = 0
      BY <1>2, <1>4, <2>1 DEF Fits
    <2>7. QED
      BY <1>4, <2>2, <2>4, <2>5, <2>6
  <1>5. CASE tx.kind \notin {"rent", "return"}
    BY <1>1, <1>5 DEF Delegated
  <1>6. QED
    BY <1>3, <1>4, <1>5

LEMMA BlockKeeps ==
  ASSUME IInv, Block
  PROVE  IInv'
  <1>1. /\ DataInv /\ ChainInv /\ KnownInv /\ Len(blocks) \in Nat /\ blocks \in Seq(Seq(Txs))
    BY DEF IInv, ChainInv
  <1>2. DataInv'
    BY DEF Block, callVars, IInv, DataInv
  <1>3. \E txs \in Seq(Txs) : /\ blocks' = Append(blocks, txs)
                              /\ \A i \in DOMAIN txs : txs[i] \in known
    <2>1. CASE blocks' = Append(blocks, <<>>)
      <3>1. <<>> \in Seq(Txs) /\ \A i \in DOMAIN <<>> : <<>>[i] \in known
        OBVIOUS
      <3>2. QED
        BY <2>1, <3>1
    <2>2. ASSUME NEW tx \in known, blocks' = Append(blocks, <<tx>>)
          PROVE  \E txs \in Seq(Txs) : /\ blocks' = Append(blocks, txs)
                                       /\ \A i \in DOMAIN txs : txs[i] \in known
      <3>1. tx \in Txs
        BY <1>1, KnownType
      <3>2. <<tx>> \in Seq(Txs) /\ \A i \in DOMAIN <<tx>> : <<tx>>[i] \in known
        BY <3>1
      <3>3. QED
        BY <2>2, <3>2
    <2>3. QED
      BY <2>1, <2>2 DEF Block
  <1>4. PICK txs \in Seq(Txs) : /\ blocks' = Append(blocks, txs)
                                /\ \A i \in DOMAIN txs : txs[i] \in known
    BY <1>3
  <1>5. /\ blocks' \in Seq(Seq(Txs)) /\ Len(blocks') = Len(blocks) + 1 /\ Len(blocks') \in Nat
        /\ DOMAIN blocks = 1..Len(blocks) /\ DOMAIN blocks' = 1..(Len(blocks) + 1)
        /\ \A h \in 1..Len(blocks) : blocks'[h] = blocks[h]
        /\ blocks'[Len(blocks) + 1] = txs
    BY <1>1, <1>4
  <1>6. Grown /\ Len(blocks') <= MaxBlocks
    BY <1>1, <1>5, ConstantsAssumption DEF Block, Grown
  <1>7. Mined' \subseteq known
    <2>1. \A h \in DOMAIN blocks : \A i \in DOMAIN blocks[h] : blocks[h][i] \in known
      BY <1>1 DEF KnownInv, Mined, Contents
    <2>2. \A h \in DOMAIN blocks' : \A i \in DOMAIN blocks'[h] : blocks'[h][i] \in known
      BY <1>4, <1>5, <2>1
    <2>3. QED
      BY <2>2 DEF Mined, Contents
  <1>8. KnownInv'
    BY <1>1, <1>7 DEF Block, callVars, KnownInv
  <1>9. /\ active' \subseteq Accounts
        /\ rentals' \in [Accounts -> Nat]
        /\ version' \in [Accounts -> Nat]
        /\ \A tx \in Txs : Fits(tx) => Fits(tx)'
    <2>1. CASE UNCHANGED <<active, rentals, version>>
      BY <1>1, <2>1, FitsKept DEF ChainInv
    <2>2. ASSUME NEW tx \in known,
                 active' = IF tx.kind \in {"activate", "transfer"} THEN active \cup {tx.to} ELSE active,
                 rentals' = [rentals EXCEPT ![tx.to] = Delegated(tx)],
                 version' = [version EXCEPT ![tx.to] =
                              @ + IF tx.kind \in {"rent", "return"} THEN 1 ELSE 0]
          PROVE  /\ active' \subseteq Accounts
                 /\ rentals' \in [Accounts -> Nat]
                 /\ version' \in [Accounts -> Nat]
                 /\ \A t \in Txs : Fits(t) => Fits(t)'
      <3>1. tx \in Txs /\ Fits(tx)
        BY <1>1, KnownType DEF IInv, CallerInv, MadeInv
      <3>2. PICK r : r = Delegated(tx)
        OBVIOUS
      <3>3. /\ r \in Nat
            /\ tx.kind \notin {"rent", "return"} => r = rentals[tx.to]
        BY <1>1, <3>1, <3>2, DelegatedIsNat
      <3>4. PICK a \in Accounts : a = tx.to
        BY <3>1 DEF Txs
      <3>5. /\ rentals' = [rentals EXCEPT ![a] = r]
            /\ version' = [version EXCEPT ![a] = @ + IF tx.kind \in {"rent", "return"} THEN 1 ELSE 0]
        BY <2>2, <3>2, <3>4
      <3>6. rentals \in [Accounts -> Nat] /\ version \in [Accounts -> Nat] /\ active \subseteq Accounts
        BY <1>1 DEF ChainInv
      <3>7. /\ rentals' \in [Accounts -> Nat] /\ version' \in [Accounts -> Nat]
            /\ active' \subseteq Accounts
        BY <2>2, <3>3, <3>4, <3>5, <3>6
      <3>8. ASSUME NEW t \in Txs, Fits(t)
            PROVE  Fits(t)'
        <4>1. PICK b \in Accounts : b = t.to
          BY DEF Txs
        <4>2. /\ version[b] \in Nat /\ version'[b] \in Nat /\ t.version \in Nat
              /\ version'[b] >= version[b]
              /\ version'[b] = version[b] => rentals'[b] = rentals[b]
          <5>1. version[b] \in Nat /\ t.version \in Nat
            BY <3>6 DEF Txs
          <5>2. CASE b # a
            <6>1. version'[b] = version[b] /\ rentals'[b] = rentals[b]
              BY <3>5, <3>6, <5>2
            <6>2. QED
              BY <5>1, <6>1
          <5>3. CASE b = a
            <6>1. PICK k : k = IF tx.kind \in {"rent", "return"} THEN 1 ELSE 0
              OBVIOUS
            <6>2. version'[b] = version[b] + k /\ rentals'[b] = r
              BY <3>5, <3>6, <5>3, <6>1
            <6>3. k \in {0, 1} /\ (k = 0 => r = rentals[b])
              BY <3>3, <3>4, <5>3, <6>1
            <6>4. QED
              BY <5>1, <6>2, <6>3
          <5>4. QED
            BY <5>2, <5>3
        <4>3. /\ t.version <= version[b]
              /\ t.kind = "return" /\ ~t.estimated /\ t.version = version[b] => t.amount = rentals[b]
          BY <3>8, <4>1 DEF Fits
        <4>4. /\ t.version <= version'[b]
              /\ t.kind = "return" /\ ~t.estimated /\ t.version = version'[b] => t.amount = rentals'[b]
          BY <4>2, <4>3
        <4>5. QED
          BY <3>8, <4>1, <4>4 DEF Fits
      <3>9. QED
        BY <3>7, <3>8
    <2>3. QED
      BY <2>1, <2>2 DEF Block
  <1>10. ChainInv'
    BY <1>1, <1>5, <1>6, <1>9 DEF ChainInv, Block
  <1>11. ASSUME NEW c \in Callers
         PROVE  CallerInv(c)'
    <2>1. /\ CallerInv(c) /\ work' = work /\ known' = known /\ cut' = cut
          /\ step'[c] = step[c] /\ made'[c] = made[c] /\ told'[c] = told[c]
          /\ reply'[c] = reply[c] /\ seen'[c] = seen[c]
      BY DEF IInv, Block, callVars
    <2>2. Progress(c)'
      BY <2>1, ProgressKept DEF CallerInv
    <2>3. MadeInv(c)'
      <3>1. \A i \in DOMAIN made[c] : made[c][i] \in Txs
        BY <1>1, ListTypes
      <3>2. QED
        BY <1>9, <2>1, <3>1, MadeKept DEF CallerInv
    <2>4. ToldInv(c)'
      BY <2>1, ToldKept DEF CallerInv
    <2>5. RangeInv(c)'
      BY <1>1, <1>5, <1>6, <2>1, RangeKept DEF CallerInv
    <2>6. QED
      BY <2>2, <2>3, <2>4, <2>5 DEF CallerInv
  <1>12. QED
    BY <1>2, <1>8, <1>10, <1>11 DEF IInv

\* A caller that ends its call in error leaves nothing behind.
LEMMA ErrorIsClean ==
  ASSUME NEW c \in Callers, step'[c] = "error", made'[c] = <<>>, told'[c] = <<>>
  PROVE  CallerInv(c)'
  BY DEF CallerInv, Progress, MadeInv, ToldInv, RangeInv, Sent

LEMMA BuildKeeps ==
  ASSUME IInv, NEW c \in Callers, BuildUnSignTransaction(c)
  PROVE  IInv'
  <1> DEFINE n == Len(made[c]) + 1
  <1>1. /\ DataInv /\ ChainInv /\ KnownInv /\ \A d \in Callers : CallerInv(d)
        /\ step[c] = "build" /\ work[c].kind = "batch" /\ told[c] = <<>>
        /\ Len(made[c]) < Len(Payloads(c))
    BY DEF IInv, BuildUnSignTransaction, CallerInv, Progress
  <1>2. /\ ChainInv' /\ Mined' = Mined /\ UNCHANGED chainVars /\ Grown
        /\ work' = work /\ told' = told /\ reply' = reply /\ seen' = seen /\ attempt' = attempt
        /\ known' = known /\ cut' = cut
    BY <1>1, ChainKept DEF BuildUnSignTransaction
  <1>3. /\ made[c] \in Seq(Txs) /\ Len(made[c]) \in Nat /\ n \in Nat \ {0}
        /\ Len(Payloads(c)) \in Nat /\ n \in 1..Len(Payloads(c))
    <2>1. Len(Payloads(c)) \in Nat
      BY <1>1, ListTypes DEF IsWork, Payloads
    <2>2. QED
      BY <1>1, <2>1, ListTypes
  <1>4. Payloads(c)[n] \in Payload
    BY <1>1, <1>3, PayloadType
  <1> HIDE DEF n
  <1>5. /\ step \in [Callers -> Steps] /\ made \in [Callers -> Seq(Txs)]
    BY <1>1 DEF DataInv
  <1>6. \E m, s : /\ made' = [made EXCEPT ![c] = m] /\ step' = [step EXCEPT ![c] = s]
                  /\ \/ /\ s \in {"build", "sign"}
                        /\ s = "build" => Len(m) < Len(Payloads(c))
                        /\ \E tx \in buildUnsignedTransaction(c, Payloads(c)[n]) : m = Append(made[c], tx)
                     \/ s = "error" /\ m = <<>>
    <2>1. ASSUME NEW tx \in buildUnsignedTransaction(c, Payloads(c)[n]),
                 made' = [made EXCEPT ![c] = Append(@, tx)],
                 step' = IF Len(made'[c]) = Len(Payloads(c))
                         THEN [step EXCEPT ![c] = "sign"] ELSE step
          PROVE  \E m, s : /\ made' = [made EXCEPT ![c] = m] /\ step' = [step EXCEPT ![c] = s]
                           /\ s \in {"build", "sign"}
                           /\ s = "build" => Len(m) < Len(Payloads(c))
                           /\ m = Append(made[c], tx)
      <3>1. tx \in Txs
        BY <1>1, <1>4, BuiltFits
      <3>2. PICK m : m = Append(made[c], tx)
        OBVIOUS
      <3>3. made' = [made EXCEPT ![c] = m] /\ made'[c] = m /\ Len(m) = Len(made[c]) + 1
        BY <1>3, <1>5, <2>1, <3>1, <3>2
      <3>4. CASE Len(m) = Len(Payloads(c))
        BY <2>1, <3>2, <3>3, <3>4
      <3>5. CASE Len(m) # Len(Payloads(c))
        <4>1. Len(m) < Len(Payloads(c))
          BY <1>1, <1>3, <3>3, <3>5
        <4>2. step' = [step EXCEPT ![c] = "build"]
          BY <1>1, <1>5, <2>1, <3>3, <3>5
        <4>3. QED
          BY <3>2, <3>3, <4>1, <4>2
      <3>6. QED
        BY <3>4, <3>5
    <2>2. CASE step' = [step EXCEPT ![c] = "error"] /\ made' = [made EXCEPT ![c] = <<>>]
      BY <2>2
    <2>3. QED
      BY <2>1, <2>2 DEF BuildUnSignTransaction, n
  <1>7. PICK m, s : /\ made' = [made EXCEPT ![c] = m] /\ step' = [step EXCEPT ![c] = s]
                    /\ \/ /\ s \in {"build", "sign"}
                          /\ s = "build" => Len(m) < Len(Payloads(c))
                          /\ \E tx \in buildUnsignedTransaction(c, Payloads(c)[n]) : m = Append(made[c], tx)
                       \/ s = "error" /\ m = <<>>
    BY <1>6
  <1>8. /\ made'[c] = m /\ step'[c] = s
        /\ \A d \in Callers \ {c} : made'[d] = made[d] /\ step'[d] = step[d]
    BY <1>5, <1>7
  <1>9. /\ m \in Seq(Txs) /\ s \in Steps /\ CallerInv(c)'
    <2>1. CASE s = "error" /\ m = <<>>
      <3>1. CallerInv(c)'
        BY <1>1, <1>2, <1>8, <2>1, ErrorIsClean
      <3>2. QED
        BY <2>1, <3>1 DEF Steps
    <2>2. ASSUME s \in {"build", "sign"}, s = "build" => Len(m) < Len(Payloads(c)),
                 NEW tx \in buildUnsignedTransaction(c, Payloads(c)[n]), m = Append(made[c], tx)
          PROVE  m \in Seq(Txs) /\ s \in Steps /\ CallerInv(c)'
      <3>1. tx \in Txs /\ tx.id = <<c, n>> /\ Fits(tx)
        BY <1>1, <1>4, BuiltFits DEF n
      <3>2. /\ m \in Seq(Txs) /\ Len(m) = n /\ DOMAIN m = 1..n /\ DOMAIN made[c] = 1..(n-1)
            /\ m[n] = tx /\ \A i \in 1..(n-1) : m[i] = made[c][i]
        BY <1>3, <2>2, <3>1 DEF n
      <3>3. Progress(c)'
        <4>1. step'[c] = "build" => Len(made'[c]) < Len(work'[c].payloads)
          BY <1>2, <1>8, <2>2 DEF Payloads
        <4>2. made'[c] # <<>> /\ told'[c] = <<>> /\ Len(told'[c]) <= Len(made'[c])
          BY <1>1, <1>2, <1>3, <1>8, <3>2
        <4>3. step'[c] \in {"build", "sign"} /\ work'[c].kind = "batch"
          BY <1>1, <1>2, <1>8, <2>2
        <4>4. QED
          BY <4>1, <4>2, <4>3 DEF Progress, Payloads
      <3>4. MadeInv(c)'
        <4>1. \A i \in DOMAIN m : m[i].id = <<c, i>> /\ Fits(m[i])
          <5>1. \A i \in 1..(n-1) : made[c][i].id = <<c, i>> /\ Fits(made[c][i])
            BY <1>1, <3>2 DEF CallerInv, MadeInv
          <5>2. \A i \in 1..(n-1) : m[i].id = <<c, i>> /\ Fits(m[i])
            BY <3>2, <5>1
          <5>3. m[n].id = <<c, n>> /\ Fits(m[n])
            BY <3>1, <3>2
          <5>4. QED
            BY <1>3, <3>2, <5>2, <5>3
        <4>2. \A i \in DOMAIN m : Fits(m[i])'
          <5>1. version' = version /\ rentals' = rentals
            BY <1>2 DEF chainVars
          <5>2. QED
            BY <4>1, <5>1 DEF Fits
        <4>3. QED
          BY <1>8, <4>1, <4>2 DEF MadeInv, Fits
      <3>5. ToldInv(c)'
        <4>1. \A i \in DOMAIN m : m[i] \notin known
          <5>1. ASSUME NEW i \in DOMAIN m, m[i] \in known
                PROVE  FALSE
            <6>1. m[i].id[1] = c
              <7>1. CASE i = n
                BY <3>1, <3>2, <7>1
              <7>2. CASE i # n
                <8>1. i \in DOMAIN made[c] /\ m[i] = made[c][i]
                  BY <1>3, <3>2, <7>2
                <8>2. QED
                  BY <1>1, <8>1 DEF CallerInv, MadeInv
              <7>3. QED
                BY <7>1, <7>2
            <6>2. \E d \in Callers : step[d] \in {"send", "done"} /\ m[i].id[1] = d
              BY <1>1, <5>1 DEF KnownInv
            <6>3. QED
              BY <1>1, <6>1, <6>2
          <5>2. QED
            BY <5>1
        <4>2. told'[c] = <<>>
          BY <1>1, <1>2
        <4>3. QED
          BY <1>2, <1>8, <4>1, <4>2 DEF ToldInv, Sent
      <3>6. RangeInv(c)'
        BY <1>1, <1>2 DEF RangeInv
      <3>7. s \in Steps
        BY <2>2 DEF Steps
      <3>8. QED
        BY <3>2, <3>3, <3>4, <3>5, <3>6, <3>7 DEF CallerInv
    <2>3. QED
      BY <1>7, <2>1, <2>2
  <1>10. DataInv'
    BY <1>1, <1>2, <1>5, <1>7, <1>9 DEF DataInv
  <1>11. KnownInv'
    <2>1. ASSUME NEW tx \in known
          PROVE  \E d \in Callers : /\ step'[d] \in {"send", "done"} /\ tx.id[1] = d
                                    /\ tx.id[2] \in DOMAIN made'[d] /\ tx = made'[d][tx.id[2]]
      <3>1. PICK d \in Callers : /\ step[d] \in {"send", "done"} /\ tx.id[1] = d
                                 /\ tx.id[2] \in DOMAIN made[d] /\ tx = made[d][tx.id[2]]
        BY <1>1, KnownType
      <3>2. d # c
        BY <1>1, <3>1
      <3>3. QED
        BY <1>8, <3>1, <3>2
    <2>2. QED
      BY <1>1, <1>2, <2>1 DEF KnownInv
  <1>12. ASSUME NEW d \in Callers
         PROVE  CallerInv(d)'
    <2>1. CASE d = c
      BY <1>9, <2>1
    <2>2. CASE d # c
      BY <1>1, <1>2, <1>8, <2>2, CallerKept
    <2>3. QED
      BY <2>1, <2>2
  <1>13. QED
    BY <1>2, <1>10, <1>11, <1>12 DEF IInv

LEMMA SignKeeps ==
  ASSUME IInv, NEW c \in Callers, BuildSignedTransaction(c)
  PROVE  IInv'
  <1>1. /\ DataInv /\ ChainInv /\ KnownInv /\ \A d \in Callers : CallerInv(d)
        /\ step \in [Callers -> Steps] /\ step[c] = "sign" /\ step' = [step EXCEPT ![c] = "send"]
        /\ work[c].kind = "batch" /\ made[c] # <<>> /\ told[c] = <<>>
    BY DEF IInv, BuildSignedTransaction, CallerInv, Progress, DataInv
  <1>2. /\ ChainInv' /\ Mined' = Mined /\ UNCHANGED chainVars /\ Grown
        /\ work' = work /\ made' = made /\ told' = told /\ reply' = reply /\ seen' = seen
        /\ attempt' = attempt /\ known' = known /\ cut' = cut
    BY <1>1, ChainKept DEF BuildSignedTransaction
  <1>3. step'[c] = "send" /\ \A d \in Callers \ {c} : step'[d] = step[d]
    BY <1>1
  <1>4. DataInv'
    BY <1>1, <1>2 DEF DataInv, Steps
  <1>5. KnownInv'
    BY <1>1, <1>2, <1>3 DEF KnownInv
  <1>6. CallerInv(c)'
    <2>1. Len(told[c]) < Len(made[c])
      BY <1>1, ListTypes
    <2>2. Progress(c)'
      BY <1>1, <1>2, <1>3, <2>1, ListTypes DEF Progress
    <2>3. MadeInv(c)'
      BY <1>1, <1>2, MadeKept, FitsKept DEF CallerInv, chainVars
    <2>4. ToldInv(c)'
      BY <1>1, <1>2, ToldKept DEF CallerInv
    <2>5. RangeInv(c)'
      BY <1>1, <1>2 DEF RangeInv
    <2>6. QED
      BY <2>2, <2>3, <2>4, <2>5 DEF CallerInv
  <1>7. ASSUME NEW d \in Callers \ {c}
        PROVE  CallerInv(d)'
    BY <1>1, <1>2, <1>3, CallerKept
  <1>8. QED
    BY <1>2, <1>4, <1>5, <1>6, <1>7 DEF IInv

\* A post of the next transaction, whatever came of it.
LEMMA PostKeeps ==
  ASSUME IInv, NEW c \in Callers, step[c] = "send", NEW tx, tx = made[c][Len(told[c]) + 1],
         known \subseteq known', known' \subseteq known \cup {tx}, cut \subseteq cut',
         tx \in known' => tx.form = "ok",
         UNCHANGED <<work, made, reply, seen, chainVars>>,
         attempt' \in [Callers -> 0..Retries],
         \/ told' = told /\ step' = step /\ (tx \in known' => tx \in cut')
         \/ \E what \in Reports : /\ Report(c, what)
                                  /\ IF what = "sent" THEN tx \in known'
                                                      ELSE tx \in known' => tx \in cut'
  PROVE  IInv'
  <1> DEFINE n == Len(told[c]) + 1
  <1>1. /\ DataInv /\ ChainInv /\ KnownInv /\ \A d \in Callers : CallerInv(d)
        /\ step \in [Callers -> Steps] /\ told \in [Callers -> Seq(Reports)]
        /\ work[c].kind = "batch" /\ Len(told[c]) < Len(made[c])
    BY DEF IInv, CallerInv, Progress, DataInv
  <1>2. ChainInv' /\ Mined' = Mined /\ Grown
    BY <1>1, ChainKept
  <1>3. /\ n \in DOMAIN made[c] /\ tx = made[c][n] /\ tx.id = <<c, n>> /\ n = Len(told[c]) + 1
        /\ Len(told[c]) \in Nat /\ Len(made[c]) \in Nat /\ told[c] \in Seq(Reports)
        /\ DOMAIN made[c] = 1..Len(made[c]) /\ DOMAIN told[c] = 1..(n-1)
    <2>1. /\ Len(told[c]) \in Nat /\ Len(made[c]) \in Nat /\ told[c] \in Seq(Reports)
          /\ DOMAIN made[c] = 1..Len(made[c]) /\ DOMAIN told[c] = 1..Len(told[c])
      BY <1>1, ListTypes
    <2>2. n \in DOMAIN made[c] /\ tx = made[c][n]
      BY <1>1, <2>1
    <2>3. tx.id = <<c, n>>
      BY <1>1, <2>2 DEF CallerInv, MadeInv
    <2>4. QED
      BY <2>1, <2>2, <2>3
  <1> HIDE DEF n
  <1>4. \E t, s : /\ told' = [told EXCEPT ![c] = t] /\ step' = [step EXCEPT ![c] = s]
                  /\ \/ t = told[c] /\ s = "send" /\ (tx \in known' => tx \in cut')
                     \/ \E what \in Reports :
                          /\ t = Append(told[c], what)
                          /\ s = IF Len(t) = Len(made[c]) THEN "done" ELSE "send"
                          /\ IF what = "sent" THEN tx \in known' ELSE tx \in known' => tx \in cut'
    <2>1. CASE told' = told /\ step' = step /\ (tx \in known' => tx \in cut')
      <3>1. told' = [told EXCEPT ![c] = told[c]] /\ step' = [step EXCEPT ![c] = "send"]
        BY <1>1, <2>1
      <3>2. QED
        BY <2>1, <3>1
    <2>2. ASSUME NEW what \in Reports, Report(c, what),
                 IF what = "sent" THEN tx \in known' ELSE tx \in known' => tx \in cut'
          PROVE  \E t, s : /\ told' = [told EXCEPT ![c] = t] /\ step' = [step EXCEPT ![c] = s]
                           /\ t = Append(told[c], what)
                           /\ s = IF Len(t) = Len(made[c]) THEN "done" ELSE "send"
      <3>1. PICK t : t = Append(told[c], what)
        OBVIOUS
      <3>2. told' = [told EXCEPT ![c] = t] /\ told'[c] = t
        BY <1>1, <2>2, <3>1 DEF Report
      <3>3. step' = [step EXCEPT ![c] = IF Len(t) = Len(made[c]) THEN "done" ELSE "send"]
        BY <1>1, <2>2, <3>2 DEF Report
      <3>4. QED
        BY <3>1, <3>2, <3>3
    <2>3. QED
      BY <2>1, <2>2
  <1>5. PICK t, s : /\ told' = [told EXCEPT ![c] = t] /\ step' = [step EXCEPT ![c] = s]
                    /\ \/ t = told[c] /\ s = "send" /\ (tx \in known' => tx \in cut')
                       \/ \E what \in Reports :
                            /\ t = Append(told[c], what)
                            /\ s = IF Len(t) = Len(made[c]) THEN "done" ELSE "send"
                            /\ IF what = "sent" THEN tx \in known' ELSE tx \in known' => tx \in cut'
    BY <1>4
  <1>6. /\ told'[c] = t /\ step'[c] = s
        /\ \A d \in Callers \ {c} : told'[d] = told[d] /\ step'[d] = step[d]
    BY <1>1, <1>5
  <1>7. /\ t \in Seq(Reports) /\ s \in {"send", "done"} /\ Len(t) \in Nat /\ Len(t) <= Len(made[c])
        /\ s = "send" => Len(t) < Len(made[c])
        /\ DOMAIN t \subseteq 1..n /\ \A i \in 1..(n-1) : i \in DOMAIN t /\ t[i] = told[c][i]
        /\ IF n \in DOMAIN t /\ t[n] = "sent" THEN tx \in known' ELSE tx \in known' => tx \in cut'
    <2>1. CASE t = told[c] /\ s = "send" /\ (tx \in known' => tx \in cut')
      BY <1>1, <1>3, <2>1
    <2>2. ASSUME NEW what \in Reports, t = Append(told[c], what),
                 s = IF Len(t) = Len(made[c]) THEN "done" ELSE "send",
                 IF what = "sent" THEN tx \in known' ELSE tx \in known' => tx \in cut'
          PROVE  /\ t \in Seq(Reports) /\ s \in {"send", "done"}
                 /\ Len(t) \in Nat /\ Len(t) <= Len(made[c])
                 /\ s = "send" => Len(t) < Len(made[c])
                 /\ DOMAIN t \subseteq 1..n /\ \A i \in 1..(n-1) : i \in DOMAIN t /\ t[i] = told[c][i]
                 /\ IF n \in DOMAIN t /\ t[n] = "sent" THEN tx \in known'
                                                     ELSE tx \in known' => tx \in cut'
      <3>1. /\ t \in Seq(Reports) /\ Len(t) = n /\ DOMAIN t = 1..n /\ t[n] = what
            /\ \A i \in 1..(n-1) : t[i] = told[c][i]
        BY <1>3, <2>2
      <3>2. n \in Nat /\ n \in 1..n /\ n <= Len(made[c])
        BY <1>1, <1>3
      <3>3. s \in {"send", "done"} /\ (s = "send" => Len(t) < Len(made[c]))
        BY <1>3, <2>2, <3>1, <3>2
      <3>4. IF n \in DOMAIN t /\ t[n] = "sent" THEN tx \in known' ELSE tx \in known' => tx \in cut'
        BY <2>2, <3>1, <3>2
      <3>5. QED
        BY <3>1, <3>2, <3>3, <3>4
    <2>3. QED
      BY <1>5, <2>1, <2>2
  <1>8. DataInv'
    <2>1. told' \in [Callers -> Seq(Reports)] /\ step' \in [Callers -> Steps]
      BY <1>1, <1>5, <1>7 DEF Steps
    <2>2. QED
      BY <1>1, <2>1 DEF DataInv
  <1>9. KnownInv'
    <2>1. ASSUME NEW x \in known'
          PROVE  /\ x.form = "ok"
                 /\ \E d \in Callers : /\ step'[d] \in {"send", "done"} /\ x.id[1] = d
                                       /\ x.id[2] \in DOMAIN made'[d] /\ x = made'[d][x.id[2]]
      <3>1. CASE x = tx
        BY <1>3, <1>6, <1>7, <2>1, <3>1
      <3>2. CASE x # tx
        <4>1. x \in known
          BY <2>1, <3>2
        <4>2. PICK d \in Callers : /\ step[d] \in {"send", "done"} /\ x.id[1] = d
                                   /\ x.id[2] \in DOMAIN made[d] /\ x = made[d][x.id[2]]
          BY <1>1, <4>1, KnownType
        <4>3. step'[d] \in {"send", "done"}
          BY <1>6, <1>7, <4>2
        <4>4. QED
          BY <1>1, <4>1, <4>2, <4>3 DEF KnownInv
      <3>3. QED
        BY <3>1, <3>2
    <2>2. Mined' \subseteq known'
      BY <1>1, <1>2 DEF KnownInv
    <2>3. QED
      BY <2>1, <2>2 DEF KnownInv
  <1>10. CallerInv(c)'
    <2>1. Progress(c)'
      BY <1>1, <1>6, <1>7 DEF Progress
    <2>2. MadeInv(c)'
      BY <1>1, MadeKept, FitsKept DEF CallerInv, chainVars
    <2>3. ToldInv(c)'
      <3>1. ASSUME NEW i \in DOMAIN made[c]
            PROVE  IF i \in DOMAIN t /\ t[i] = "sent" THEN made[c][i] \in known'
                   ELSE made[c][i] \in known' => made[c][i] \in cut'
        <4>1. CASE i = n
          BY <1>3, <1>7, <4>1
        <4>2. CASE i # n
          <5>1. made[c][i].id = <<c, i>> /\ made[c][i] # tx
            BY <1>1, <1>3, <4>2 DEF CallerInv, MadeInv
          <5>2. made[c][i] \in known' <=> made[c][i] \in known
            BY <5>1
          <5>3. (i \in DOMAIN t /\ t[i] = "sent") <=> Sent(c, i)
            <6>1. i \in DOMAIN t <=> i \in DOMAIN told[c]
              BY <1>3, <1>7, <4>2
            <6>2. i \in DOMAIN t => t[i] = told[c][i]
              BY <1>3, <1>7, <6>1
            <6>3. QED
              BY <6>1, <6>2 DEF Sent
          <5>4. QED
            BY <1>1, <5>2, <5>3 DEF CallerInv, ToldInv
        <4>3. QED
          BY <4>1, <4>2
      <3>2. QED
        BY <1>6, <3>1 DEF ToldInv, Sent
    <2>4. RangeInv(c)'
      BY <1>1 DEF RangeInv
    <2>5. QED
      BY <2>1, <2>2, <2>3, <2>4 DEF CallerInv
  <1>11. ASSUME NEW d \in Callers \ {c}
         PROVE  CallerInv(d)'
    <2>1. \A i \in DOMAIN made[d] : made[d][i] \in known' => made[d][i] \in known
      <3>1. \A i \in DOMAIN made[d] : made[d][i].id = <<d, i>>
        BY <1>1 DEF CallerInv, MadeInv
      <3>2. \A i \in DOMAIN made[d] : made[d][i] # tx
        BY <1>3, <3>1
      <3>3. QED
        BY <3>2
    <2>2. QED
      BY <1>1, <1>6, <2>1, CallerKept
  <1>12. QED
    BY <1>2, <1>8, <1>9, <1>10, <1>11 DEF IInv

LEMMA AnswerFields ==
  ASSUME NEW code, NEW result, NEW txid, NEW answer, answer = Answer(code, result, txid)
  PROVE  answer.code = code /\ answer.result = result /\ answer.txid = txid
  BY DEF Answer

\* A transaction that is taken is accepted, unless its answer has no id; one that
\* is not taken is never accepted.
LEMMA TakenAnswers ==
  ASSUME NEW tx, Takes(tx), NEW answer \in AnswersTo(tx), ~broadcastAccepted(answer)
  PROVE  answer.txid = FALSE
  <1>1. PICK yes, no : yes = TRUE /\ no = FALSE
    OBVIOUS
  <1>2. answer \in {Answer(NoCode, yes, yes), Answer("SUCCESS", no, yes), Answer(NoCode, yes, no)}
    BY <1>1, Zenon DEF AnswersTo
  <1>3. CASE answer = Answer(NoCode, yes, yes)
    <2>1. answer.code = NoCode /\ answer.result = yes /\ answer.txid = yes
      BY <1>3, AnswerFields
    <2>2. QED
      BY <1>1, <2>1 DEF broadcastAccepted
  <1>4. CASE answer = Answer("SUCCESS", no, yes)
    <2>1. answer.code = "SUCCESS" /\ answer.txid = yes
      BY <1>4, AnswerFields
    <2>2. QED
      BY <1>1, <2>1 DEF broadcastAccepted
  <1>5. CASE answer = Answer(NoCode, yes, no)
    <2>1. answer.code = NoCode /\ answer.txid = no
      BY <1>5, AnswerFields
    <2>2. QED
      BY <1>1, <2>1
  <1>6. QED
    BY <1>2, <1>3, <1>4, <1>5

LEMMA RefusedAnswers ==
  ASSUME NEW tx, ~Takes(tx), NEW answer \in AnswersTo(tx)
  PROVE  ~broadcastAccepted(answer)
  <1>1. answer.code \in {"DUP_TRANSACTION_ERROR", "SIGERROR"}
    BY DEF AnswersTo, Answer
  <1>2. QED
    BY <1>1 DEF broadcastAccepted, NoCode

LEMMA SendKeeps ==
  ASSUME IInv, NEW c \in Callers, SendTransaction(c)
  PROVE  IInv'
  <1>1. PICK tx : tx = made[c][Len(told[c]) + 1]
    OBVIOUS
  <1>2. /\ step[c] = "send" /\ UNCHANGED <<work, made, reply, seen, chainVars>>
        /\ attempt \in [Callers -> 0..Retries] /\ Retries = 3
        /\ tx \in known => tx.form = "ok"
    BY DEF SendTransaction, IInv, DataInv, Retries, KnownInv
  <1>3. tx \in known => tx \in cut
    <2>1. /\ Len(told[c]) < Len(made[c]) /\ Len(told[c]) \in Nat /\ Len(made[c]) \in Nat
          /\ DOMAIN made[c] = 1..Len(made[c]) /\ DOMAIN told[c] = 1..Len(told[c])
      BY <1>2, ListTypes DEF IInv, CallerInv, Progress
    <2>2. Len(told[c]) + 1 \in DOMAIN made[c] /\ ~Sent(c, Len(told[c]) + 1)
      BY <2>1 DEF Sent
    <2>3. QED
      BY <1>1, <2>2 DEF IInv, CallerInv, ToldInv
  <1> DEFINE Posted ==
               \/ told' = told /\ step' = step /\ (tx \in known' => tx \in cut')
               \/ \E what \in Reports : /\ Report(c, what)
                                        /\ IF what = "sent" THEN tx \in known'
                                                            ELSE tx \in known' => tx \in cut'
             Step ==
               /\ known \subseteq known' /\ known' \subseteq known \cup {tx} /\ cut \subseteq cut'
               /\ tx \in known' => tx.form = "ok"
               /\ attempt' \in [Callers -> 0..Retries]
               /\ Posted
  <1>4. ASSUME NEW what, Report(c, what)
        PROVE  attempt' \in [Callers -> 0..Retries]
    BY <1>2, <1>4 DEF Report
  <1>5. ASSUME Report(c, "failed"), tx \in known' => tx \in cut'
        PROVE  attempt' \in [Callers -> 0..Retries] /\ Posted
    <2>1. "failed" \in Reports /\ "failed" # "sent"
      BY DEF Reports
    <2>2. QED
      BY <1>4, <1>5, <2>1
  <1>6. ASSUME Silence(c), tx \in known' => tx \in cut'
        PROVE  attempt' \in [Callers -> 0..Retries] /\ Posted
    <2>1. CASE MayRepeat(c)
      <3>1. told' = told /\ step' = step /\ attempt' = [attempt EXCEPT ![c] = @ + 1]
        BY <1>6, <2>1 DEF Silence
      <3>2. attempt[c] + 1 \in 0..Retries
        BY <1>2, <2>1 DEF MayRepeat
      <3>3. QED
        BY <1>2, <1>6, <3>1, <3>2
    <2>2. CASE ~MayRepeat(c)
      BY <1>5, <1>6, <2>2 DEF Silence
    <2>3. QED
      BY <2>1, <2>2
  <1> HIDE DEF Posted
  <1>7. ASSUME known' = known \cup (IF Takes(tx) THEN {tx} ELSE {})
        PROVE  /\ known \subseteq known' /\ known' \subseteq known \cup {tx}
               /\ tx \in known' => tx.form = "ok"
               /\ Takes(tx) => tx \in known'
               /\ ~Takes(tx) => known' = known
    BY <1>2, <1>7 DEF Takes
  <1>8. ASSUME ~Signed(tx), Report(c, "failed"), UNCHANGED <<known, cut>>
        PROVE  Step
    <2>1. tx \in known' => tx \in cut'
      BY <1>3, <1>8
    <2>2. QED
      BY <1>2, <1>5, <1>8, <2>1
  <1>9. ASSUME Silence(c), UNCHANGED <<known, cut>>
        PROVE  Step
    <2>1. tx \in known' => tx \in cut'
      BY <1>3, <1>9
    <2>2. QED
      BY <1>2, <1>6, <1>9, <2>1
  <1>10. ASSUME known' = known \cup (IF Takes(tx) THEN {tx} ELSE {}),
                cut' = cut \cup {tx},
                Silence(c) \/ Report(c, "failed")
         PROVE  Step
    <2>1. tx \in known' => tx \in cut'
      BY <1>10
    <2>2. attempt' \in [Callers -> 0..Retries] /\ Posted
      BY <1>5, <1>6, <1>10, <2>1
    <2>3. QED
      BY <1>7, <1>10, <2>2
  <1>11. ASSUME known' = known \cup (IF Takes(tx) THEN {tx} ELSE {}),
                NEW answer \in AnswersTo(tx),
                Report(c, IF broadcastAccepted(answer) THEN "sent" ELSE "failed"),
                cut' = IF answer.txid THEN cut ELSE cut \cup {tx}
         PROVE  Step
    <2>1. CASE Takes(tx)
      <3>1. CASE broadcastAccepted(answer)
        <4>1. "sent" \in Reports /\ Report(c, "sent") /\ tx \in known'
          BY <1>7, <1>11, <2>1, <3>1 DEF Reports
        <4>2. Posted
          BY <4>1 DEF Posted
        <4>3. QED
          BY <1>4, <1>7, <1>11, <4>1, <4>2
      <3>2. CASE ~broadcastAccepted(answer)
        <4>1. answer.txid = FALSE
          BY <1>11, <2>1, <3>2, TakenAnswers
        <4>2. Report(c, "failed") /\ (tx \in known' => tx \in cut')
          BY <1>11, <3>2, <4>1
        <4>3. QED
          BY <1>5, <1>7, <1>11, <4>1, <4>2
      <3>3. QED
        BY <3>1, <3>2
    <2>2. CASE ~Takes(tx)
      <3>1. ~broadcastAccepted(answer)
        BY <1>11, <2>2, RefusedAnswers
      <3>2. cut \subseteq cut'
        BY <1>11
      <3>3. Report(c, "failed") /\ (tx \in known' => tx \in cut')
        BY <1>3, <1>7, <1>11, <2>2, <3>1, <3>2
      <3>4. QED
        BY <1>5, <1>7, <1>11, <3>2, <3>3
    <2>3. QED
      BY <2>1, <2>2
  <1>12. Step
    <2>1. \/ ~Signed(tx) /\ Report(c, "failed") /\ UNCHANGED <<known, cut>>
          \/ Silence(c) /\ UNCHANGED <<known, cut>>
          \/ /\ known' = known \cup (IF Takes(tx) THEN {tx} ELSE {})
             /\ cut' = cut \cup {tx}
             /\ Silence(c) \/ Report(c, "failed")
          \/ /\ known' = known \cup (IF Takes(tx) THEN {tx} ELSE {})
             /\ \E answer \in AnswersTo(tx) :
                   /\ Report(c, IF broadcastAccepted(answer) THEN "sent" ELSE "failed")
                   /\ cut' = IF answer.txid THEN cut ELSE cut \cup {tx}
      BY <1>1, Zenon DEF SendTransaction
    <2>2. QED
      BY <2>1, <1>8, <1>9, <1>10, <1>11
  <1>13. QED
    BY <1>1, <1>2, <1>12, PostKeeps DEF Posted

\* A query: nothing of the chain or of a batch changes.
LEMMA QueryKeeps ==
  ASSUME IInv, NEW c \in Callers, step[c] \in {"range", "balance"},
         UNCHANGED <<work, made, told, attempt, chainVars, known, cut>>,
         NEW s \in {"range", "done", "error"}, step' = [step EXCEPT ![c] = s],
         NEW r, reply' = [reply EXCEPT ![c] = r],
         NEW h, seen' = [seen EXCEPT ![c] = h],
         s = "range" => step[c] = "range",
         RangeInv(c)'
  PROVE  IInv'
  <1>1. /\ DataInv /\ ChainInv /\ KnownInv /\ \A d \in Callers : CallerInv(d)
        /\ step \in [Callers -> Steps] /\ made[c] = <<>> /\ told[c] = <<>>
        /\ work[c].kind = step[c]
        /\ reply = [d \in Callers |-> reply[d]] /\ seen = [d \in Callers |-> seen[d]]
    BY DEF IInv, CallerInv, Progress, DataInv
  <1>2. ChainInv' /\ Mined' = Mined /\ Grown
    BY <1>1, ChainKept
  <1>3. /\ step'[c] = s
        /\ \A d \in Callers \ {c} : step'[d] = step[d] /\ reply'[d] = reply[d] /\ seen'[d] = seen[d]
    BY <1>1
  <1>4. DataInv'
    <2>1. step' \in [Callers -> Steps]
      BY <1>1 DEF Steps
    <2>2. /\ reply' = [d \in Callers |-> reply'[d]] /\ seen' = [d \in Callers |-> seen'[d]]
      BY <1>1
    <2>3. QED
      BY <1>1, <2>1, <2>2 DEF DataInv
  <1>5. KnownInv'
    <2>1. ASSUME NEW tx \in known
          PROVE  \E d \in Callers : /\ step'[d] \in {"send", "done"} /\ tx.id[1] = d
                                    /\ tx.id[2] \in DOMAIN made[d] /\ tx = made[d][tx.id[2]]
      <3>1. PICK d \in Callers : /\ step[d] \in {"send", "done"} /\ tx.id[1] = d
                                 /\ tx.id[2] \in DOMAIN made[d] /\ tx = made[d][tx.id[2]]
        BY <1>1, KnownType
      <3>2. d # c
        BY <3>1
      <3>3. QED
        BY <1>3, <3>1, <3>2
    <2>2. QED
      BY <1>1, <1>2, <2>1 DEF KnownInv
  <1>6. CallerInv(c)'
    <2>1. Progress(c)'
      <3>1. s \notin {"build", "sign", "send", "balance"} /\ (s = "range" => work[c].kind = "range")
        BY <1>1
      <3>2. Len(told[c]) <= Len(made[c])
        BY <1>1
      <3>3. QED
        BY <1>1, <1>3, <3>1, <3>2 DEF Progress
    <2>2. MadeInv(c)' /\ ToldInv(c)'
      BY <1>1 DEF MadeInv, ToldInv
    <2>3. QED
      BY <2>1, <2>2 DEF CallerInv
  <1>7. ASSUME NEW d \in Callers \ {c}
        PROVE  CallerInv(d)'
    BY <1>1, <1>3, CallerKept
  <1>8. QED
    BY <1>2, <1>4, <1>5, <1>6, <1>7 DEF IInv

LEMMA BatchBlockKeeps ==
  ASSUME IInv, NEW c \in Callers, GetBatchBlock(c)
  PROVE  IInv'
  <1>1. /\ DataInv /\ ChainInv /\ RangeInv(c)
        /\ step[c] = "range" /\ work[c].kind = "range" /\ step \in [Callers -> Steps]
        /\ reply = [d \in Callers |-> reply[d]] /\ seen = [d \in Callers |-> seen[d]]
    BY DEF IInv, CallerInv, Progress, DataInv, GetBatchBlock
  <1>2. PICK a, b \in Int : a = work[c].first /\ b = work[c].last
    <2>1. {work[c].first, work[c].last} \subseteq Int
      BY <1>1, ListTypes DEF IsWork
    <2>2. QED
      BY <2>1
  <1>3. /\ reply[c] \in Seq(BlocksRead) /\ Len(reply[c]) \in Nat
        /\ seen[c] \in 0..Len(blocks) /\ Len(blocks) \in Nat
        /\ DOMAIN blocks = 1..Len(blocks) /\ DOMAIN reply[c] = 1..Len(reply[c])
        /\ reply[c] # <<>> => a + Len(reply[c]) <= b + 1
        /\ \A i \in DOMAIN reply[c] : ReadAt(c, a + i - 1, reply[c][i])
    BY <1>1, <1>2 DEF RangeInv, ChainInv
  <1>4. PICK h \in Int : h = a + Len(reply[c])
    BY <1>3
  <1>5. PICK v : v = IF reply[c] = <<>> THEN Len(blocks) ELSE seen[c]
    OBVIOUS
  <1>6. /\ UNCHANGED <<work, made, told, attempt, chainVars, known, cut>>
        /\ blocks' = blocks
        /\ seen' = [seen EXCEPT ![c] = v] /\ seen'[c] = v /\ v \in 0..Len(blocks)
        /\ reply[c] # <<>> => v = seen[c]
    BY <1>1, <1>3, <1>5 DEF GetBatchBlock, chainVars
  <1>7. ASSUME NEW i, i \in DOMAIN reply[c], NEW block, ReadAt(c, a + i - 1, block)
        PROVE  ReadAt(c, a + i - 1, block)'
    <2>1. reply[c] # <<>>
      BY <1>3, <1>7
    <2>2. seen'[c] = seen[c] /\ Grown
      BY <1>6, <2>1 DEF Grown
    <2>3. PICK k : k = a + i - 1
      OBVIOUS
    <2>4. ReadAt(c, k, block)'
      BY <1>7, <2>2, <2>3, ReadKept
    <2>5. QED
      BY <2>3, <2>4
  <1>8. CASE h > b /\ Ends(c, IF reply[c] = <<>> THEN "error" ELSE "done") /\ UNCHANGED reply
    <2>1. PICK s \in {"done", "error"} : s = IF reply[c] = <<>> THEN "error" ELSE "done"
      OBVIOUS
    <2>2. step' = [step EXCEPT ![c] = s] /\ step'[c] = s
      BY <1>1, <1>8, <2>1 DEF Ends
    <2>3. reply' = [reply EXCEPT ![c] = reply[c]]
      BY <1>1, <1>8
    <2>4. RangeInv(c)'
      <3>1. s = "done" => reply[c] # <<>> /\ a + Len(reply[c]) = b + 1
        BY <1>3, <1>4, <1>8, <2>1
      <3>2. \A i \in DOMAIN reply[c] : ReadAt(c, a + i - 1, reply[c][i])'
        BY <1>3, <1>7, <1>8
      <3>3. /\ reply' = reply /\ work' = work /\ work'[c].first = a /\ work'[c].last = b
        BY <1>2, <1>6, <1>8
      <3>4. \A i \in DOMAIN reply'[c] : ReadAt(c, work[c].first + i - 1, reply[c][i])'
        BY <3>2, <3>3
      <3>5. QED
        BY <1>3, <1>6, <2>2, <3>1, <3>3, <3>4 DEF RangeInv
    <2>5. QED
      BY <1>1, <1>6, <2>1, <2>2, <2>3, <2>4, QueryKeeps
  <1>9. CASE h <= b /\ reply' = [reply EXCEPT ![c] = Append(@, GetBlockByNumber(h))] /\ UNCHANGED step
    <2>1. PICK block : block = GetBlockByNumber(h)
      OBVIOUS
    <2>2. block \in BlocksRead /\ ReadAt(c, h, block)'
      <3>1. CASE h \in DOMAIN blocks
        <4>1. block = [height |-> h, txs |-> parseBlockTransactions(h)]
          BY <2>1, <3>1 DEF GetBlockByNumber
        <4>2. blocks[h] \in Seq(Txs)
          BY <1>1, <3>1 DEF ChainInv
        <4>3. Contents(blocks[h]) \subseteq Txs
          BY <4>2 DEF Contents
        <4>4. parseBlockTransactions(h) \subseteq Txs
          BY <4>3 DEF parseBlockTransactions
        <4>5. h \in Nat
          BY <1>3, <3>1
        <4>6. block \in BlocksRead
          BY <4>1, <4>4, <4>5 DEF BlocksRead
        <4>7. ReadAt(c, h, block)'
          BY <1>6, <3>1, <4>1 DEF ReadAt, parseBlockTransactions, Contents, Listed
        <4>8. QED
          BY <4>6, <4>7
      <3>2. CASE h \notin DOMAIN blocks
        <4>1. block = EmptyBlock /\ h \notin 1..v
          BY <1>3, <1>6, <2>1, <3>2 DEF GetBlockByNumber
        <4>2. EmptyBlock \in BlocksRead
          BY DEF EmptyBlock, BlocksRead
        <4>3. QED
          BY <1>6, <4>1, <4>2 DEF ReadAt, EmptyBlock
      <3>3. QED
        BY <3>1, <3>2
    <2>3. PICK r : r = Append(reply[c], block)
      OBVIOUS
    <2>4. /\ reply' = [reply EXCEPT ![c] = r] /\ reply'[c] = r
          /\ step' = [step EXCEPT ![c] = "range"] /\ step'[c] = "range"
      BY <1>1, <1>9, <2>1, <2>3
    <2>5. /\ r \in Seq(BlocksRead) /\ Len(r) = Len(reply[c]) + 1 /\ DOMAIN r = 1..Len(r)
          /\ \A i \in DOMAIN reply[c] : r[i] = reply[c][i]
          /\ r[Len(r)] = block
      BY <1>3, <2>2, <2>3
    <2>6. ASSUME NEW i \in DOMAIN r
          PROVE  ReadAt(c, a + i - 1, r[i])'
      <3>1. CASE i \in DOMAIN reply[c]
        <4>1. ReadAt(c, a + i - 1, reply[c][i]) /\ r[i] = reply[c][i]
          BY <1>3, <2>5, <3>1
        <4>2. ReadAt(c, a + i - 1, r[i])
          BY <4>1
        <4>3. QED
          BY <1>7, <3>1, <4>2
      <3>2. CASE i \notin DOMAIN reply[c]
        <4>1. i = Len(r) /\ r[i] = block
          BY <1>3, <2>5, <3>2
        <4>2. a + i - 1 = h
          BY <1>3, <1>4, <2>5, <4>1
        <4>3. QED
          BY <2>2, <4>1, <4>2
      <3>3. QED
        BY <3>1, <3>2
    <2>7. RangeInv(c)'
      <3>1. work' = work /\ work'[c].first = a /\ work'[c].last = b
        BY <1>2, <1>6
      <3>2. \A i \in DOMAIN reply'[c] : ReadAt(c, work[c].first + i - 1, reply[c][i])'
        BY <2>4, <2>6, <3>1
      <3>3. a + Len(r) <= b + 1
        BY <1>3, <1>4, <1>9, <2>5
      <3>4. QED
        BY <1>6, <2>4, <2>5, <3>1, <3>2, <3>3 DEF RangeInv
    <2>8. QED
      BY <1>1, <1>6, <2>4, <2>7, QueryKeeps
  <1>10. CASE h <= b /\ OnFailure(c)
    <2>1. /\ step' = [step EXCEPT ![c] = "error"] /\ step'[c] = "error"
          /\ reply' = [reply EXCEPT ![c] = <<>>]
      BY <1>1, <1>10 DEF OnFailure, Ends
    <2>2. RangeInv(c)'
      BY <2>1 DEF RangeInv
    <2>3. QED
      BY <1>1, <1>6, <2>1, <2>2, QueryKeeps
  <1>11. QED
    BY <1>2, <1>4, <1>8, <1>9, <1>10 DEF GetBatchBlock

LEMMA BalanceKeeps ==
  ASSUME IInv, NEW c \in Callers, GetAccountBalance(c)
  PROVE  IInv'
  <1>1. /\ UNCHANGED <<work, made, told, attempt, chainVars, known, cut>>
        /\ step[c] = "balance" /\ work[c].kind = "balance"
        /\ \E h : seen' = [seen EXCEPT ![c] = h]
    BY DEF IInv, CallerInv, Progress, GetAccountBalance
  <1>2. PICK s, r : /\ s \in {"done", "error"}
                    /\ step' = [step EXCEPT ![c] = s]
                    /\ reply' = [reply EXCEPT ![c] = r]
    BY DEF GetAccountBalance, Ends, OnFailure
  <1>3. RangeInv(c)'
    BY <1>1 DEF RangeInv
  <1>4. QED
    BY <1>1, <1>2, <1>3, QueryKeeps

-----------------------------------------------------------------------------
\* The invariant

LEMMA InitHolds == ASSUME Init PROVE IInv
  <1>1. \A c \in Callers : IsWork(work[c])
    BY ConstantsAssumption DEF Init
  <1>2. \A c \in Callers : step[c] = work[c].kind \/ (step[c] = "build" /\ work[c].kind = "batch")
    BY <1>1 DEF Init, FirstCall, IsWork
  <1>3. \A c \in Callers : step[c] \in {"build", "range", "balance"}
    BY <1>1 DEF Init, FirstCall, IsWork
  <1>4. DataInv
    <2>1. step \in [Callers -> Steps]
      BY <1>3 DEF Init, Steps
    <2>2. /\ made \in [Callers -> Seq(Txs)] /\ told \in [Callers -> Seq(Reports)]
          /\ attempt \in [Callers -> 0..Retries]
      BY DEF Init, Retries
    <2>3. QED
      BY <2>1, <2>2 DEF DataInv, Init
  <1>5. ChainInv
    <2>1. rentals \in [Accounts -> Nat] /\ version \in [Accounts -> Nat]
      BY ConstantsAssumption DEF Init
    <2>2. QED
      BY <2>1, ConstantsAssumption DEF ChainInv, Init
  <1>6. KnownInv
    BY DEF KnownInv, Init, Mined, Contents
  <1>7. ASSUME NEW c \in Callers
        PROVE  CallerInv(c)
    <2>1. made[c] = <<>> /\ told[c] = <<>> /\ reply[c] = <<>> /\ seen[c] = 0 /\ Len(blocks) = 0
      BY DEF Init
    <2>2. Progress(c)
      <3>1. step[c] = "build" => work[c].kind = "batch" /\ Len(made[c]) < Len(Payloads(c))
        BY <1>1, <1>2, <2>1 DEF IsWork, Payloads
      <3>2. QED
        BY <1>2, <1>3, <2>1, <3>1 DEF Progress
    <2>3. MadeInv(c) /\ ToldInv(c)
      BY <2>1 DEF MadeInv, ToldInv
    <2>4. RangeInv(c)
      BY <1>3, <2>1 DEF RangeInv
    <2>5. QED
      BY <2>2, <2>3, <2>4 DEF CallerInv
  <1>8. QED
    BY <1>4, <1>5, <1>6, <1>7 DEF IInv

LEMMA NextKeeps == ASSUME IInv, [Next]_vars PROVE IInv'
  <1>1. CASE UNCHANGED vars
    BY <1>1, StutterKeeps
  <1>2. CASE MovePrice
    BY <1>2, MovePriceKeeps
  <1>3. CASE Block
    BY <1>3, BlockKeeps
  <1>4. ASSUME NEW c \in Callers, Call(c)
        PROVE  IInv'
    <2>1. CASE BuildUnSignTransaction(c)
      BY <2>1, BuildKeeps
    <2>2. CASE BuildSignedTransaction(c)
      BY <2>2, SignKeeps
    <2>3. CASE SendTransaction(c)
      BY <2>3, SendKeeps
    <2>4. CASE GetBatchBlock(c)
      BY <2>4, BatchBlockKeeps
    <2>5. CASE GetAccountBalance(c)
      BY <2>5, BalanceKeeps
    <2>6. QED
      BY <1>4, <2>1, <2>2, <2>3, <2>4, <2>5 DEF Call
  <1>5. QED
    BY <1>1, <1>2, <1>3, <1>4 DEF Next

LEMMA Invariance == Spec => []IInv
  <1>1. Init => IInv
    BY InitHolds
  <1>2. IInv /\ [Next]_vars => IInv'
    BY NextKeeps
  <1>3. QED
    BY <1>1, <1>2, PTL DEF Spec

-----------------------------------------------------------------------------
\* What follows

\* Calls, amounts and blocks stay what they may be, in every handler of the
\* adaptor, whatever the node answers.
THEOREM TronTypesHold == Spec => []TypeOK
  <1>1. IInv => TypeOK
    <2>1. SUFFICES ASSUME IInv PROVE TypeOK
      OBVIOUS
    <2>2. step \in [Callers -> {"build", "sign", "send", "range", "balance", "done", "error"}]
      BY <2>1 DEF IInv, DataInv, Steps
    <2>3. ASSUME NEW c \in Callers
          PROVE  /\ Len(told[c]) <= Len(made[c])
                 /\ \A i \in DOMAIN told[c] : told[c][i] \in {"sent", "failed"}
                 /\ attempt[c] \in 0..Retries
      BY <2>1, ListTypes DEF IInv, CallerInv, Progress, Reports
    <2>4. QED
      BY <2>1, <2>2, <2>3 DEF IInv, ChainInv, KnownInv, TypeOK
  <1>2. QED
    BY <1>1, Invariance, PTL

\* What SendTransaction reports of a transaction is what became of it at the
\* node, through every loss and repetition of the HTTP client.
THEOREM ReportIsTheNodes == Spec => []ReportsTheNode
  <1>1. IInv => ReportsTheNode
    <2>1. SUFFICES ASSUME IInv, NEW c \in Callers, NEW i \in DOMAIN told[c]
                   PROVE  IF told[c][i] = "sent" THEN made[c][i] \in known
                          ELSE made[c][i] \in known => made[c][i] \in cut
      BY DEF ReportsTheNode
    <2>2. Len(told[c]) <= Len(made[c])
      BY <2>1 DEF IInv, CallerInv, Progress
    <2>3. i \in DOMAIN made[c]
      BY <2>1, <2>2, ListTypes DEF IInv
    <2>4. QED
      BY <2>1, <2>3 DEF IInv, CallerInv, ToldInv, Sent
  <1>2. QED
    BY <1>1, Invariance, PTL

\* CreateJustLendRentTransaction buys the energy that was asked for, to the
\* precision of float64, wherever the amount fits an int64; and for every amount,
\* price and deposit of getRentInfo, overflowing ones too, it stakes the least
\* that JustLend takes and pays for the liquidation.
THEOREM RentAlwaysCovers == Spec => []RentIsEnough
  <1>1. IInv => RentIsEnough
    BY DEF IInv, CallerInv, MadeInv, Fits, RentIsEnough
  <1>2. QED
    BY <1>1, Invariance, PTL

\* GetBatchBlock answers every height of a range in its place, while the chain
\* grows under it.
THEOREM RangeIsAnswered == Spec => []RangeIsWhole
  <1>1. IInv => RangeIsWhole
    <2>1. SUFFICES ASSUME IInv, NEW c \in Callers, work[c].kind = "range", step[c] = "done"
                   PROVE  /\ Len(reply[c]) = work[c].last - work[c].first + 1
                          /\ \A i \in DOMAIN reply[c] :
                                LET h == work[c].first + i - 1
                                IN  \/ /\ h \in DOMAIN blocks /\ reply[c][i].height = h
                                       /\ \A tx \in Mined : tx.kind \in TransferKinds =>
                                             (tx \in Contents(blocks[h]) <=> tx \in reply[c][i].txs)
                                    \/ reply[c][i] = EmptyBlock /\ h \notin 1..seen[c]
      BY DEF RangeIsWhole
    <2>2. /\ reply[c] \in Seq(BlocksRead)
          /\ work[c].first + Len(reply[c]) = work[c].last + 1
          /\ \A i \in DOMAIN reply[c] : ReadAt(c, work[c].first + i - 1, reply[c][i])
      BY <2>1 DEF IInv, CallerInv, RangeInv
    <2>3. Len(reply[c]) = work[c].last - work[c].first + 1
      <3>1. {work[c].first, work[c].last} \subseteq Int
        BY <2>1, ListTypes DEF IInv, IsWork
      <3>2. PICK a, b, n \in Int : a = work[c].first /\ b = work[c].last /\ n = Len(reply[c])
        BY <2>2, <3>1
      <3>3. n = b - a + 1
        BY <2>2, <3>2
      <3>4. QED
        BY <3>2, <3>3
    <2>4. ASSUME NEW h, NEW block, ReadAt(c, h, block)
          PROVE  \/ /\ h \in DOMAIN blocks /\ block.height = h
                    /\ \A tx \in Mined : tx.kind \in TransferKinds =>
                          (tx \in Contents(blocks[h]) <=> tx \in block.txs)
                 \/ block = EmptyBlock /\ h \notin 1..seen[c]
      BY <2>4 DEF ReadAt, parseBlockTransactions, Listed
    <2>5. QED
      BY <2>2, <2>3, <2>4
  <1>2. QED
    BY <1>1, Invariance, PTL

\* CreateJustLendReturnTransaction gives back all that is rented, whatever the
\* price did in between.
THEOREM ReturnGivesAllBack == Spec => ReturnIsWhole
  <1>1. IInv /\ [Next]_vars =>
          [\A tx \in Mined' \ Mined :
             tx.kind = "return" /\ ~tx.estimated /\ tx.version = version[tx.to]
             => rentals'[tx.to] = 0]_vars
    <2>1. SUFFICES ASSUME IInv, Next, NEW tx \in Mined' \ Mined,
                          tx.kind = "return", ~tx.estimated, tx.version = version[tx.to]
                   PROVE  rentals'[tx.to] = 0
      OBVIOUS
    <2>2. Block
      <3>1. blocks' # blocks
        BY <2>1 DEF Mined, Contents
      <3>2. QED
        BY <2>1, <3>1 DEF Next, MovePrice, Call, BuildUnSignTransaction, BuildSignedTransaction,
              SendTransaction, GetBatchBlock, GetAccountBalance, chainVars
    <2>3. blocks \in Seq(Seq(Txs))
      BY <2>1 DEF IInv, ChainInv
    <2>4. blocks' # Append(blocks, <<>>)
      <3>1. ASSUME blocks' = Append(blocks, <<>>)
            PROVE  Mined' \subseteq Mined
        <4>1. /\ DOMAIN blocks' = 1..(Len(blocks) + 1) /\ DOMAIN blocks = 1..Len(blocks)
              /\ blocks'[Len(blocks) + 1] = <<>> /\ Len(blocks) \in Nat
              /\ \A h \in 1..Len(blocks) : blocks'[h] = blocks[h]
          BY <2>3, <3>1
        <4>2. QED
          BY <4>1 DEF Mined, Contents
      <3>2. QED
        BY <2>1, <3>1
    <2>5. PICK t \in known : /\ blocks' = Append(blocks, <<t>>)
                             /\ rentals' = [rentals EXCEPT ![t.to] = Delegated(t)]
      BY <2>2, <2>4 DEF Block
    <2>6. t \in Txs /\ Fits(t) /\ t.to \in Accounts /\ rentals \in [Accounts -> Nat]
      <3>1. /\ t \in Txs
            /\ \E c \in Callers : t.id[2] \in DOMAIN made[c] /\ t = made[c][t.id[2]]
        BY <2>1, KnownType DEF IInv
      <3>2. Fits(t)
        BY <2>1, <3>1 DEF IInv, CallerInv, MadeInv
      <3>3. QED
        BY <2>1, <3>1, <3>2 DEF IInv, ChainInv, Txs
    <2>7. tx = t
      <3>1. /\ DOMAIN blocks' = 1..(Len(blocks) + 1) /\ DOMAIN blocks = 1..Len(blocks)
            /\ blocks'[Len(blocks) + 1] = <<t>> /\ Len(blocks) \in Nat
            /\ \A h \in 1..Len(blocks) : blocks'[h] = blocks[h]
        BY <2>3, <2>5, <2>6
      <3>2. QED
        BY <2>1, <3>1 DEF Mined, Contents
    <2>8. Delegated(t) = 0
      BY <2>1, <2>6, <2>7, DelegatedIsNat DEF IInv
    <2>9. QED
      BY <2>5, <2>6, <2>7, <2>8
  <1>2. QED
    BY <1>1, Invariance, PTL DEF Spec, ReturnIsWhole

=============================================================================
