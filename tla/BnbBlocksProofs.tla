--------------------------- MODULE BnbBlocksProofs ---------------------------
(***************************************************************************)
(* Theorems about BnbBlocks for chains of every height, transactions with  *)
(* any number of logs and blocks of any length.                            *)
(***************************************************************************)
EXTENDS BnbBlocks, SequenceTheorems, WellFoundedInduction, TLAPS

-----------------------------------------------------------------------------
\* Numbers and places

LEMMA LeastExists ==
  ASSUME NEW S \in SUBSET Nat, S # {}
  PROVE  \E x \in S : \A y \in S : x <= y
  <1>1. PICK x \in S : \A y \in S : ~(<<y, x>> \in OpToRel(<, Nat))
    BY NatLessThanWellFounded, WFMin
  <1>2. ASSUME NEW y \in S
        PROVE  x <= y
    <2>1. x \in Nat /\ y \in Nat
      OBVIOUS
    <2>2. ~(y < x)
      BY <1>1, <2>1 DEF OpToRel
    <2>3. QED
      BY <2>1, <2>2
  <1>3. QED
    BY <1>2

LEMMA MinIs ==
  ASSUME NEW S \in SUBSET Nat, S # {}
  PROVE  Min(S) \in S /\ \A x \in S : Min(S) <= x
  BY LeastExists DEF Min

LEMMA MaxIs ==
  ASSUME NEW n \in Nat, NEW S \in SUBSET (0..n), S # {}
  PROVE  Max(S) \in S /\ \A x \in S : x <= Max(S)
  <1> DEFINE T == {n - x : x \in S}
  <1>1. T \in SUBSET Nat /\ T # {}
    <2>1. \A x \in S : x \in 0..n
      OBVIOUS
    <2>2. \A x \in 0..n : n - x \in Nat
      OBVIOUS
    <2>3. QED
      BY <2>1, <2>2
  <1>2. PICK t \in T : \A u \in T : t <= u
    BY <1>1, LeastExists
  <1>3. PICK x \in S : t = n - x
    OBVIOUS
  <1>4. ASSUME NEW y \in S
        PROVE  y <= x /\ x >= y
    <2>1. x \in 0..n /\ y \in 0..n
      OBVIOUS
    <2>2. n - x <= n - y
      BY <1>2, <1>3
    <2>3. QED
      BY <2>1, <2>2
  <1>5. \E y \in S : \A z \in S : y >= z
    BY <1>4
  <1>6. Max(S) \in S /\ \A z \in S : Max(S) >= z
    BY <1>5 DEF Max
  <1>7. \A z \in S : z \in Int
    OBVIOUS
  <1>8. QED
    BY <1>6, <1>7

\* A list has an order, and some place of several is the first in it.
LEMMA PlacesAreOrdered ==
  ASSUME NEW p \in Nat \X Nat, NEW q \in Nat \X Nat, p # q
  PROVE  Before(p, q) \/ Before(q, p)
  <1>1. PICK i, j, k, l \in Nat : p = <<i, j>> /\ q = <<k, l>>
    OBVIOUS
  <1>2. i # k \/ j # l
    BY <1>1
  <1>3. QED
    BY <1>1, <1>2 DEF Before

LEMMA FirstPlaceExists ==
  ASSUME NEW S \in SUBSET (Nat \X Nat), S # {}
  PROVE  \E p \in S : \A q \in S : ~Before(q, p)
  <1> DEFINE R == {p[1] : p \in S}
  <1>1. R \in SUBSET Nat /\ R # {}
    OBVIOUS
  <1>2. PICK r \in R : \A x \in R : r <= x
    BY <1>1, LeastExists
  <1> DEFINE L == {p[2] : p \in {p \in S : p[1] = r}}
  <1>3. L \in SUBSET Nat /\ L # {}
    OBVIOUS
  <1>4. PICK l \in L : \A x \in L : l <= x
    BY <1>3, LeastExists
  <1>5. PICK p \in S : p[1] = r /\ p[2] = l
    OBVIOUS
  <1>6. ASSUME NEW q \in S
        PROVE  ~Before(q, p)
    <2>1. q[1] \in Nat /\ q[2] \in Nat /\ r \in Nat /\ l \in Nat
      BY <1>1, <1>3
    <2>2. r <= q[1]
      BY <1>2
    <2>3. q[1] = r => l <= q[2]
      BY <1>4
    <2>4. QED
      BY <1>5, <2>1, <2>2, <2>3 DEF Before
  <1>7. QED
    BY <1>6

-----------------------------------------------------------------------------
\* The entries of a block

LEMMA KeyIsMovement ==
  ASSUME NEW e
  PROVE  transferDedupKey(e) = Movement(e)
  BY DEF transferDedupKey, Movement, normalizeAddress

\* The logs AddInner reads, and those of them it lists.
Logs(txs, receipts) ==
    UNION {{r} \X DOMAIN parseERC20TransfersFromReceipt(txs[r]) :
              r \in {r \in receipts : Tx[txs[r]].success}}

LogAt(txs, p) == parseERC20TransfersFromReceipt(txs[p[1]])[p[2]]

Inner(outer, txs, receipts) ==
    {p \in Logs(txs, receipts) :
        /\ Movement(LogAt(txs, p)) \notin {Movement(e) : e \in Range(outer)}
        /\ \A q \in Logs(txs, receipts) :
              Before(q, p) => Movement(LogAt(txs, q)) # Movement(LogAt(txs, p))}

LEMMA AddInnerIs ==
  ASSUME NEW outer, NEW txs, NEW receipts
  PROVE  AddInner(outer, txs, receipts) =
            [p \in DOMAIN outer \cup Inner(outer, txs, receipts) |->
                IF p \in DOMAIN outer THEN outer[p] ELSE LogAt(txs, p)]
  <1>1. Keys(outer) = {Movement(e) : e \in Range(outer)}
    BY KeyIsMovement DEF Keys
  <1>2. QED
    BY <1>1, KeyIsMovement DEF AddInner, Inner, Logs, LogAt

LEMMA BodyIs ==
  ASSUME NEW txs \in Bodies
  PROVE  /\ txs \in Seq(TxIds) /\ Len(txs) \in Nat /\ DOMAIN txs = 1..Len(txs)
         /\ \A i \in DOMAIN txs : txs[i] \in TxIds
         /\ \A i, j \in DOMAIN txs : txs[i] = txs[j] => i = j
  <1>1. txs \in Seq(TxIds) /\ IsInjective(txs)
    BY ConstantsAssumption
  <1>2. QED
    BY <1>1 DEF IsInjective

\* What is parsed of a log, and of a call.
LEMMA ParsedIs ==
  ASSUME NEW t \in TxIds
  PROVE  /\ DOMAIN parseERC20TransfersFromReceipt(t)
              = {l \in DOMAIN Tx[t].logs : IsTracked(Tx[t].logs[l].token) /\ Tx[t].logs[l].value > 0}
         /\ \A l \in DOMAIN parseERC20TransfersFromReceipt(t) :
               parseERC20TransfersFromReceipt(t)[l] = TransferOf(t, Tx[t].logs[l])
         /\ DOMAIN Tx[t].logs \subseteq Nat
         /\ \A l \in DOMAIN Tx[t].logs : Tx[t].logs[l] \in Range(Tx[t].logs)
  <1>1. Tx[t].logs \in Seq(Range(Tx[t].logs))
    BY ConstantsAssumption
  <1>2. DOMAIN Tx[t].logs \subseteq Nat /\ \A l \in DOMAIN Tx[t].logs : Tx[t].logs[l] \in Range(Tx[t].logs)
    BY <1>1 DEF Range
  <1>3. QED
    BY <1>2 DEF parseERC20TransfersFromReceipt

LEMMA TransferIs ==
  ASSUME NEW t, NEW log
  PROVE  /\ TransferOf(t, log).tx = t /\ TransferOf(t, log).kind = "receipt_erc20"
         /\ TransferOf(t, log).type = 3 /\ TransferOf(t, log).to.of = log.to
         /\ TransferOf(t, log).amount = log.value
         /\ Movement(TransferOf(t, log)) = <<t, log.token, log.from, log.to, log.value>>
  BY DEF TransferOf, Entry, Mixed, Movement

LEMMA CallIs ==
  ASSUME NEW t
  PROVE  /\ buildBlockTransaction(t).tx = t /\ buildBlockTransaction(t).kind = "outer"
         /\ buildBlockTransaction(t).to.of \in {Tx[t].arg.to, Tx[t].to}
         /\ \E a, b, c, d : Movement(buildBlockTransaction(t)) = <<t, a, b, c, d>>
  BY DEF buildBlockTransaction, Entry, Mixed, Lower, Movement

\* What the properties say of one list of entries.
NobodyPaid(entries) == \A p \in DOMAIN entries : entries[p].to.of # Creation

NamedOnce(entries) ==
    \A p, q \in DOMAIN entries : Movement(entries[p]) = Movement(entries[q]) => p = q

AllNamed(entries, txs) ==
    \A t \in Range(txs) : \A l \in Range(Tx[t].logs) : IsTracked(l.token) /\ l.value > 0 =>
        \E p \in DOMAIN entries : Movement(entries[p]) = <<t, l.token, l.from, l.to, l.value>>

AllReal(entries, txs) ==
    \A p \in DOMAIN entries : entries[p].kind = "receipt_erc20" =>
        LET e == entries[p]
        IN  /\ e.tx \in Range(txs) /\ Tx[e.tx].success
            /\ e.amount > 0
            /\ \E l \in Range(Tx[e.tx].logs) : Movement(e) = <<e.tx, l.token, l.from, l.to, l.value>>

\* Calls of different transactions differ.
LEMMA OuterIs ==
  ASSUME NEW txs \in Bodies, NEW outer, outer = OuterEntries(txs)
  PROVE  /\ \A p \in DOMAIN outer : /\ p \in Nat \X Nat /\ p[1] = 0 /\ p[2] \in DOMAIN txs
                                    /\ outer[p] = buildBlockTransaction(txs[p[2]])
                                    /\ outer[p].kind = "outer"
         /\ NobodyPaid(outer) /\ NamedOnce(outer)
  <1>1. outer = [p \in {0} \X {i \in DOMAIN txs : Tx[txs[i]].to # Creation} |->
                    buildBlockTransaction(txs[p[2]])]
    BY DEF OuterEntries
  <1>2. ASSUME NEW p \in DOMAIN outer
        PROVE  /\ p \in Nat \X Nat /\ p = <<0, p[2]>> /\ p[1] = 0 /\ p[2] \in DOMAIN txs
               /\ Tx[txs[p[2]]].to # Creation /\ outer[p] = buildBlockTransaction(txs[p[2]])
    <2>1. PICK i \in DOMAIN txs : p = <<0, i>> /\ Tx[txs[i]].to # Creation
      BY <1>1
    <2>2. i \in Nat
      BY BodyIs
    <2>3. QED
      BY <1>1, <2>1, <2>2
  <1>3. ASSUME NEW p \in DOMAIN outer
        PROVE  outer[p].to.of # Creation /\ outer[p].kind = "outer"
    <2>1. PICK t \in TxIds : t = txs[p[2]]
      BY <1>2, BodyIs
    <2>2. Tx[t].arg.to # Creation
      BY ConstantsAssumption
    <2>3. QED
      BY <1>2, <2>1, <2>2, CallIs
  <1>4. ASSUME NEW p \in DOMAIN outer, NEW q \in DOMAIN outer, Movement(outer[p]) = Movement(outer[q])
        PROVE  p = q
    <2>1. PICK t, u : t = txs[p[2]] /\ u = txs[q[2]]
      OBVIOUS
    <2>2. Movement(buildBlockTransaction(t)) = Movement(buildBlockTransaction(u))
      BY <1>2, <1>4, <2>1
    <2>3. t = u
      BY <2>2, CallIs
    <2>4. p[2] = q[2]
      BY <1>2, <2>1, <2>3, BodyIs
    <2>5. QED
      BY <1>2, <2>4
  <1>5. QED
    BY <1>2, <1>3, <1>4 DEF NobodyPaid, NamedOnce

\* A log that is read.
LEMMA LogIs ==
  ASSUME NEW txs \in Bodies, NEW receipts \in SUBSET DOMAIN txs, NEW p \in Logs(txs, receipts)
  PROVE  /\ p \in Nat \X Nat /\ p = <<p[1], p[2]>> /\ p[1] \in receipts /\ p[1] # 0
         /\ txs[p[1]] \in TxIds /\ txs[p[1]] \in Range(txs)
         /\ Tx[txs[p[1]]].success
         /\ p[2] \in DOMAIN Tx[txs[p[1]]].logs
         /\ Tx[txs[p[1]]].logs[p[2]].value > 0
         /\ LogAt(txs, p) = TransferOf(txs[p[1]], Tx[txs[p[1]]].logs[p[2]])
  <1>1. PICK r \in receipts : /\ Tx[txs[r]].success
                              /\ p \in {r} \X DOMAIN parseERC20TransfersFromReceipt(txs[r])
    BY DEF Logs
  <1>2. PICK l \in DOMAIN parseERC20TransfersFromReceipt(txs[r]) : p = <<r, l>>
    BY <1>1
  <1>3. r \in DOMAIN txs /\ r \in Nat /\ r # 0 /\ txs[r] \in TxIds /\ txs[r] \in Range(txs)
    BY BodyIs DEF Range
  <1>4. /\ l \in DOMAIN Tx[txs[r]].logs /\ l \in Nat /\ Tx[txs[r]].logs[l].value > 0
        /\ parseERC20TransfersFromReceipt(txs[r])[l] = TransferOf(txs[r], Tx[txs[r]].logs[l])
    BY <1>2, <1>3, ParsedIs
  <1>5. p[1] = r /\ p[2] = l
    BY <1>2
  <1>6. LogAt(txs, p) = TransferOf(txs[r], Tx[txs[r]].logs[l])
    BY <1>4, <1>5 DEF LogAt
  <1>7. p \in Nat \X Nat /\ p = <<p[1], p[2]>>
    BY <1>2, <1>3, <1>4, <1>5
  <1>8. QED
    BY <1>1, <1>3, <1>4, <1>5, <1>6, <1>7

\* The list of a block with receipts of a block of its height.
LEMMA ListIs ==
  ASSUME NEW own \in Bodies, NEW txs \in Bodies, NEW receipts \in SUBSET DOMAIN txs, NEW entries,
         entries = AddInner(OuterEntries(own), txs, receipts)
  PROVE  /\ NobodyPaid(entries) /\ NamedOnce(entries)
         /\ txs = own => AllReal(entries, own)
         /\ txs = own /\ receipts = DOMAIN txs => AllNamed(entries, own)
  <1> DEFINE outer == OuterEntries(own)
             inner == Inner(outer, txs, receipts)
  <1>1. /\ \A p \in DOMAIN outer : /\ p \in Nat \X Nat /\ p[1] = 0
                                   /\ outer[p].kind = "outer"
        /\ NobodyPaid(outer) /\ NamedOnce(outer)
    BY OuterIs
  <1>2. entries = [p \in DOMAIN outer \cup inner |-> IF p \in DOMAIN outer THEN outer[p] ELSE LogAt(txs, p)]
    BY AddInnerIs
  <1>3. /\ inner \subseteq Logs(txs, receipts)
        /\ \A p \in inner : /\ \A q \in DOMAIN outer : Movement(LogAt(txs, p)) # Movement(outer[q])
                            /\ \A q \in Logs(txs, receipts) : Before(q, p) =>
                                  Movement(LogAt(txs, q)) # Movement(LogAt(txs, p))
    BY DEF Inner, Range
  <1> HIDE DEF inner, outer
  <1>4. DOMAIN entries = DOMAIN outer \cup inner
    BY <1>2
  <1>5. \A p \in DOMAIN outer : entries[p] = outer[p]
    BY <1>2
  <1>6. \A p \in inner : p \notin DOMAIN outer /\ entries[p] = LogAt(txs, p)
    <2>1. \A p \in inner : p[1] # 0
      BY <1>3, LogIs
    <2>2. QED
      BY <1>1, <1>2, <2>1
  <1>7. NobodyPaid(entries)
    <2>1. ASSUME NEW p \in inner PROVE entries[p].to.of # Creation
      <3>1. PICK t \in TxIds : t = txs[p[1]]
        BY <1>3, LogIs
      <3>2. PICK log \in Range(Tx[t].logs) : LogAt(txs, p) = TransferOf(t, log)
        <4>1. p[2] \in DOMAIN Tx[t].logs /\ LogAt(txs, p) = TransferOf(t, Tx[t].logs[p[2]])
          BY <1>3, <3>1, LogIs
        <4>2. Tx[t].logs[p[2]] \in Range(Tx[t].logs)
          BY <4>1 DEF Range
        <4>3. QED
          BY <4>1, <4>2
      <3>3. log.to # Creation
        BY ConstantsAssumption
      <3>4. QED
        BY <1>6, <3>2, <3>3, TransferIs
    <2>2. QED
      BY <1>1, <1>4, <1>5, <2>1 DEF NobodyPaid
  <1>8. NamedOnce(entries)
    <2>1. SUFFICES ASSUME NEW p \in DOMAIN entries, NEW q \in DOMAIN entries,
                          Movement(entries[p]) = Movement(entries[q])
                   PROVE  p = q
      BY DEF NamedOnce
    <2>2. CASE p \in DOMAIN outer /\ q \in DOMAIN outer
      BY <1>1, <1>5, <2>1, <2>2 DEF NamedOnce
    <2>3. CASE p \in inner /\ q \in DOMAIN outer
      BY <1>3, <1>5, <1>6, <2>1, <2>3
    <2>4. CASE p \in DOMAIN outer /\ q \in inner
      BY <1>3, <1>5, <1>6, <2>1, <2>4
    <2>5. CASE p \in inner /\ q \in inner
      <3>1. ~Before(p, q) /\ ~Before(q, p)
        BY <1>3, <1>6, <2>1, <2>5
      <3>2. p \in Nat \X Nat /\ q \in Nat \X Nat
        BY <1>3, <2>5, LogIs
      <3>3. QED
        BY <3>1, <3>2, PlacesAreOrdered
    <2>6. QED
      BY <1>4, <2>2, <2>3, <2>4, <2>5
  <1>9. ASSUME txs = own PROVE AllReal(entries, own)
    <2>1. SUFFICES ASSUME NEW p \in DOMAIN entries, entries[p].kind = "receipt_erc20"
                   PROVE  /\ entries[p].tx \in Range(own) /\ Tx[entries[p].tx].success
                          /\ entries[p].amount > 0
                          /\ \E l \in Range(Tx[entries[p].tx].logs) :
                                Movement(entries[p]) = <<entries[p].tx, l.token, l.from, l.to, l.value>>
      BY DEF AllReal
    <2>2. p \in inner
      BY <1>1, <1>4, <1>5, <2>1
    <2>3. PICK t : t = txs[p[1]]
      OBVIOUS
    <2>4. t \in TxIds /\ t \in Range(own) /\ Tx[t].success /\ p[2] \in DOMAIN Tx[t].logs
      BY <1>3, <1>9, <2>2, <2>3, LogIs
    <2>5. PICK log : log = Tx[t].logs[p[2]]
      OBVIOUS
    <2>6. log \in Range(Tx[t].logs) /\ log.value > 0 /\ entries[p] = TransferOf(t, log)
      <3>1. log.value > 0 /\ LogAt(txs, p) = TransferOf(t, log)
        BY <1>3, <2>2, <2>3, <2>5, LogIs
      <3>2. log \in Range(Tx[t].logs)
        BY <2>4, <2>5 DEF Range
      <3>3. QED
        BY <1>6, <2>2, <3>1, <3>2
    <2>7. /\ entries[p].tx = t /\ entries[p].amount = log.value
          /\ Movement(entries[p]) = <<t, log.token, log.from, log.to, log.value>>
      BY <2>6, TransferIs
    <2>8. QED
      BY <2>4, <2>6, <2>7
  <1>10. ASSUME txs = own, receipts = DOMAIN txs PROVE AllNamed(entries, own)
    <2>1. SUFFICES ASSUME NEW t \in Range(own), NEW log \in Range(Tx[t].logs),
                          IsTracked(log.token), log.value > 0
                   PROVE  \E p \in DOMAIN entries :
                             Movement(entries[p]) = <<t, log.token, log.from, log.to, log.value>>
      BY DEF AllNamed
    <2> DEFINE mv == <<t, log.token, log.from, log.to, log.value>>
               S  == {p \in Logs(txs, receipts) : Movement(LogAt(txs, p)) = mv}
    <2>2. PICK r \in DOMAIN txs : txs[r] = t
      BY <1>10 DEF Range
    <2>3. PICK l \in DOMAIN Tx[t].logs : Tx[t].logs[l] = log
      BY DEF Range
    <2>4. t \in TxIds
      BY <2>2, BodyIs
    <2>5. Tx[t].success
      <3>1. Tx[t].logs # <<>>
        BY <2>3
      <3>2. QED
        BY <2>4, <3>1, ConstantsAssumption
    <2>6. l \in DOMAIN parseERC20TransfersFromReceipt(t)
      BY <2>1, <2>3, <2>4, ParsedIs
    <2>7. <<r, l>> \in Logs(txs, receipts)
      BY <1>10, <2>2, <2>5, <2>6 DEF Logs
    <2>8. Movement(LogAt(txs, <<r, l>>)) = mv
      <3>1. LogAt(txs, <<r, l>>) = parseERC20TransfersFromReceipt(t)[l]
        BY <2>2 DEF LogAt
      <3>2. parseERC20TransfersFromReceipt(t)[l] = TransferOf(t, log)
        BY <2>3, <2>4, <2>6, ParsedIs
      <3>3. QED
        BY <3>1, <3>2, TransferIs
    <2>9. S # {} /\ S \in SUBSET (Nat \X Nat)
      BY <2>7, <2>8, LogIs
    <2>10. PICK p \in S : \A q \in S : ~Before(q, p)
      BY <2>9, FirstPlaceExists
    <2>11. CASE \E q \in DOMAIN outer : Movement(outer[q]) = mv
      BY <1>4, <1>5, <2>11
    <2>12. CASE ~\E q \in DOMAIN outer : Movement(outer[q]) = mv
      <3>1. p \in inner
        BY <2>10, <2>12 DEF inner, Inner, Range
      <3>2. QED
        BY <1>4, <1>6, <3>1
    <2>13. QED
      BY <2>11, <2>12
  <1>11. QED
    BY <1>7, <1>8, <1>9, <1>10

\* What GetTransactionByHash tells of a token transfer, the block's list has.
LEMMA ByHashIs ==
  ASSUME NEW t \in TxIds, NEW again \in BOOLEAN, NEW e, e = ByHash(t, again), e.type = 3
  PROVE  \E f \in Range(AddInner(OuterEntries(<<e.tx>>), <<e.tx>>, {1})) :
             f.type = 3 /\ Movement(f) = Movement(e)
  <1> DEFINE outer   == OuterEntries(<<t>>)
             inner   == Inner(outer, <<t>>, {1})
             entries == AddInner(outer, <<t>>, {1})
             bundled == tryParseUserOpERC20Transfer(t, again)
             parsed  == parseERC20TransfersFromReceipt(t)
  <1>1. entries = [p \in DOMAIN outer \cup inner |-> IF p \in DOMAIN outer THEN outer[p] ELSE LogAt(<<t>>, p)]
    BY AddInnerIs
  <1>2. Tx[t].to # Creation
    <2>1. ASSUME Tx[t].to = Creation
          PROVE  e = Entry(t, "by hash", 0, Mixed(Native), Mixed(Tx[t].from), Mixed(Tx[t].to), Tx[t].value)
      BY <2>1 DEF ByHash
    <2>2. ASSUME Tx[t].to = Creation
          PROVE  e.type = 0
      <3>1. Entry(t, "by hash", 0, Mixed(Native), Mixed(Tx[t].from), Mixed(Tx[t].to), Tx[t].value).type = 0
        BY DEF Entry
      <3>2. QED
        BY <2>1, <2>2, <3>1
    <2>3. QED
      BY <2>2
  <1>3. outer = [p \in {<<0, 1>>} |-> buildBlockTransaction(t)]
    <2>1. DOMAIN <<t>> = {1} /\ <<t>>[1] = t
      OBVIOUS
    <2>2. {0} \X {i \in DOMAIN <<t>> : Tx[<<t>>[i]].to # Creation} = {<<0, 1>>}
      BY <1>2, <2>1
    <2>3. \A p \in {<<0, 1>>} : p[2] = 1
      OBVIOUS
    <2>4. QED
      BY <2>1, <2>2, <2>3 DEF OuterEntries
  <1> HIDE DEF outer, inner, entries
  <1>4. CASE ByHashIsTransfer(t)
    <2>1. e = Entry(t, "by hash", 3, Mixed(Tx[t].to), Mixed(Tx[t].from), Mixed(Tx[t].arg.to), Tx[t].arg.amount)
      BY <1>2, <1>4 DEF ByHash, codeIsEmpty
    <2>2. buildBlockTransaction(t) = Entry(t, "outer", 3, Lower(Tx[t].to), Lower(Tx[t].from),
                                           Mixed(Tx[t].arg.to), Tx[t].arg.amount)
      BY <1>4 DEF ByHashIsTransfer, buildBlockTransaction
    <2>3. /\ e.tx = t /\ buildBlockTransaction(t).type = 3
          /\ Movement(buildBlockTransaction(t)) = Movement(e)
      <3>1. e.tx = t /\ Movement(e) = <<t, Mixed(Tx[t].to).of, Mixed(Tx[t].from).of,
                                         Mixed(Tx[t].arg.to).of, Tx[t].arg.amount>>
        <4>1. PICK g : g = Entry(t, "by hash", 3, Mixed(Tx[t].to), Mixed(Tx[t].from), Mixed(Tx[t].arg.to), Tx[t].arg.amount)
          OBVIOUS
        <4>2. g.tx = t /\ Movement(g) = <<t, Mixed(Tx[t].to).of, Mixed(Tx[t].from).of,
                                         Mixed(Tx[t].arg.to).of, Tx[t].arg.amount>>
          BY ONLY <4>1 DEF Entry, Movement
        <4>3. QED
          BY <2>1, <4>1, <4>2
      <3>2. /\ buildBlockTransaction(t).type = 3
            /\ Movement(buildBlockTransaction(t)) = <<t, Lower(Tx[t].to).of, Lower(Tx[t].from).of,
                                                      Mixed(Tx[t].arg.to).of, Tx[t].arg.amount>>
        BY <2>2 DEF Entry, Movement
      <3>3. \A a : Mixed(a).of = a /\ Lower(a).of = a
        BY DEF Mixed, Lower
      <3>4. QED
        BY <3>1, <3>2, <3>3
    <2>4. <<0, 1>> \in DOMAIN entries /\ entries[<<0, 1>>] = buildBlockTransaction(t)
      BY <1>1, <1>3
    <2>5. buildBlockTransaction(t) \in Range(entries)
      BY <2>4 DEF Range
    <2>6. QED
      BY <2>3, <2>5 DEF entries, outer
  <1>5. CASE ~ByHashIsTransfer(t)
    <2> DEFINE Plain == Entry(t, "by hash", 2, Mixed(Tx[t].to), Mixed(Tx[t].from), Mixed(Tx[t].to), Tx[t].value)
    <2>0. PICK first : first = bundled[1]
      OBVIOUS
    <2>1. bundled # <<>> /\ e = [first EXCEPT !.kind = "by hash"]
      <3>1. Plain.type = 2
        BY DEF Entry
      <3>2. e # Plain
        <4> HIDE DEF Plain
        <4>1. QED
          BY <3>1
      <3>3. ByHash(t, again) = IF bundled # <<>> THEN [bundled[1] EXCEPT !.kind = "by hash"] ELSE Plain
        BY <1>2, <1>5, Zenon DEF ByHash, codeIsEmpty
      <3>4. e = IF bundled # <<>> THEN [first EXCEPT !.kind = "by hash"] ELSE Plain
        BY <2>0, <3>3, Zenon
      <3> HIDE DEF Plain
      <3>5. QED
        BY <3>2, <3>4
    <2>2. Tx[t].input = "handleOps" /\ DOMAIN parsed # {} /\ bundled = <<parsed[Min(DOMAIN parsed)]>>
      BY <2>1 DEF tryParseUserOpERC20Transfer
    <2>3. DOMAIN parsed \in SUBSET Nat
      BY ParsedIs
    <2>4. PICK l : l = Min(DOMAIN parsed)
      OBVIOUS
    <2>5. l \in DOMAIN parsed /\ \A k \in DOMAIN parsed : l <= k
      BY <2>2, <2>3, <2>4, MinIs
    <2>6. PICK log \in Range(Tx[t].logs) : parsed[l] = TransferOf(t, log)
      BY <2>5, ParsedIs
    <2>7. e = [TransferOf(t, log) EXCEPT !.kind = "by hash"]
      <3>1. bundled = <<parsed[l]>>
        BY <2>2, <2>4
      <3>2. bundled[1] = TransferOf(t, log)
        BY <2>6, <3>1
      <3>3. QED
        BY <2>0, <2>1, <3>2
    <2>8. e.tx = t /\ Movement(e) = Movement(TransferOf(t, log))
      BY <2>7 DEF TransferOf, Entry, Movement
    <2>9. Tx[t].success
      <3>1. Tx[t].logs # <<>>
        BY <2>6 DEF Range
      <3>2. QED
        BY <3>1, ConstantsAssumption
    <2>10. \A p : p \in Logs(<<t>>, {1}) <=> \E k \in DOMAIN parsed : p = <<1, k>>
      BY <2>9 DEF Logs
    <2>11. \A k \in DOMAIN parsed : LogAt(<<t>>, <<1, k>>) = parsed[k]
      BY DEF LogAt
    <2>12. Movement(parsed[l]) \notin {Movement(f) : f \in Range(outer)}
      <3>1. \A f \in Range(outer) : f = buildBlockTransaction(t)
        BY <1>3 DEF Range
      <3>2. Movement(buildBlockTransaction(t)) = <<t, Native, Tx[t].from, Tx[t].to, Tx[t].value>>
        BY <2>2 DEF buildBlockTransaction, Movement, Entry, Mixed, Lower
      <3>3. Movement(parsed[l]) = <<t, log.token, log.from, log.to, log.value>>
        BY <2>6, TransferIs
      <3>4. log.token # Native
        BY ConstantsAssumption
      <3>5. QED
        BY <3>1, <3>2, <3>3, <3>4
    <2>13. \A q \in Logs(<<t>>, {1}) : ~Before(q, <<1, l>>)
      <3>1. \A k \in DOMAIN parsed : k \in Nat /\ l \in Nat /\ l <= k
        BY <2>3, <2>5
      <3>2. QED
        BY <2>10, <3>1 DEF Before
    <2>14. <<1, l>> \in inner
      BY <2>5, <2>10, <2>11, <2>12, <2>13 DEF inner, Inner
    <2>15. <<1, l>> \in DOMAIN entries /\ entries[<<1, l>>] = parsed[l]
      <3>1. <<1, l>> \notin DOMAIN outer
        BY <1>3
      <3>2. QED
        BY <1>1, <2>5, <2>11, <2>14, <3>1
    <2>16. parsed[l] \in Range(entries) /\ parsed[l].type = 3
      BY <2>6, <2>15, TransferIs DEF Range
    <2>17. QED
      BY <2>6, <2>8, <2>16 DEF entries, outer
  <1>6. QED
    BY <1>4, <1>5

-----------------------------------------------------------------------------
\* The inductive invariant

ChainBlock == [height : Heights, fork : Nat, txs : Bodies]

\* A block that was replaced is older than the one at its height now.
ChainOK ==
    /\ chain \in [Heights -> ChainBlock]
    /\ \A h \in Heights : chain[h].height = h
    /\ head \in Heights
    /\ reorgs \in 0..MaxReorgs
    /\ stale \in SUBSET ChainBlock
    /\ \A b \in stale : b.height <= head /\ b.fork < chain[b.height].fork

\* Only the calls that describe blocks have anything left to do.
RequestOK ==
    /\ request # NoRequest => /\ request.due \in Nat
                              /\ request.call \in {"batch", "block"} \/ request.due = 0
    /\ fetched \in Seq(Blocks)
    /\ answer # Failed => answer \in Seq(Range(answer))
    /\ Open => Len(fetched) = request.due - Len(answer)

DescribedOK(d) ==
    /\ NobodyPaid(d.entries) /\ NamedOnce(d.entries)
    /\ d.same => AllReal(d.entries, d.block.txs)
    /\ d.same /\ d.whole => AllNamed(d.entries, d.block.txs)

DescriptionsOK ==
    request.call \in {"batch", "block"} /\ answer # Failed =>
        \A i \in DOMAIN answer : DescribedOK(answer[i])

\* What is still to be described goes on where the answer ends.
BatchInPlace ==
    request.call = "batch" /\ answer # Failed =>
        /\ request.start \in Heights
        /\ request.due > 0
        /\ \A i \in DOMAIN answer : answer[i].block.height = request.start + i - 1
        /\ \A i \in DOMAIN fetched :
              fetched[i] = ZeroBlock \/ fetched[i].height = request.start + Len(answer) + i - 1

HeadersInPlace ==
    request.call = "headers" /\ answer # Failed =>
        /\ Len(answer) = request.end - request.start + 1
        /\ \A i \in DOMAIN answer :
              answer[i] = ZeroBlock \/ answer[i].height = request.start + i - 1

TxKnown ==
    request.call = "tx" /\ answer # Failed =>
        \E t \in TxIds, again \in BOOLEAN : answer = <<ByHash(t, again)>>

IInv ==
    /\ ChainOK /\ RequestOK /\ DescriptionsOK
    /\ BatchInPlace /\ HeadersInPlace /\ TxKnown

-----------------------------------------------------------------------------
\* The lists of blocks a call begins with

LEMMA AsSeq ==
  ASSUME NEW S, NEW n \in Nat, NEW s \in [1..n -> S]
  PROVE  s \in Seq(S) /\ Len(s) = n /\ DOMAIN s = 1..n
  <1>1. s \in Seq(S)
    BY SeqDef
  <1>2. Len(s) \in Nat /\ DOMAIN s = 1..Len(s) /\ DOMAIN s = 1..n
    BY <1>1, LenProperties
  <1>3. QED
    BY <1>1, <1>2

LEMMA BlockIs ==
  ASSUME NEW h, NEW fork, NEW txs, NEW b, b = Block(h, fork, txs)
  PROVE  b.height = h /\ b.fork = fork /\ b.txs = txs
  BY DEF Block

LEMMA FoundIs ==
  ASSUME ChainOK, NEW h \in Heights
  PROVE  /\ Found(h) \in Blocks
         /\ Found(h) = ZeroBlock \/ Found(h).height = h
  BY DEF ChainOK, Found, Blocks, Range

\* An element that was read is in its place.
LEMMA ElemIs ==
  ASSUME ChainOK, NEW start \in Heights, NEW end \in Heights, start <= end,
         NEW e \in BatchElems(start, end), NEW n, n = end - start + 1
  PROVE  /\ n \in Nat /\ n > 0 /\ e \in Seq({Failed} \cup Blocks) /\ Len(e) = n /\ DOMAIN e = 1..n
         /\ \A i \in 1..n : \/ e[i] = Failed
                            \/ e[i] \in Blocks /\ (e[i] = ZeroBlock \/ e[i].height = start + i - 1)
  <1>1. start \in Nat /\ end \in Nat /\ start > 0 /\ n \in Nat /\ n > 0 /\ MaxHeight \in Nat
    BY ConstantsAssumption DEF Heights
  <1>2. /\ e \in [1..n -> {Failed} \cup Range(chain) \cup {ZeroBlock}]
        /\ \A i \in DOMAIN e : e[i] \in {Failed, Found(start + i - 1)}
    BY DEF BatchElems
  <1>3. {Failed} \cup Range(chain) \cup {ZeroBlock} \subseteq {Failed} \cup Blocks
    BY DEF Blocks
  <1>4. e \in [1..n -> {Failed} \cup Blocks]
    BY <1>2, <1>3
  <1>5. e \in Seq({Failed} \cup Blocks) /\ Len(e) = n /\ DOMAIN e = 1..n
    BY <1>1, <1>4, AsSeq
  <1>6. ASSUME NEW i \in 1..n
        PROVE  \/ e[i] = Failed
               \/ e[i] \in Blocks /\ (e[i] = ZeroBlock \/ e[i].height = start + i - 1)
    <2>1. PICK h : h = start + i - 1
      OBVIOUS
    <2>2. h \in Heights
      BY <1>1, <2>1 DEF Heights
    <2>3. Found(h) \in Blocks /\ (Found(h) = ZeroBlock \/ Found(h).height = h)
      BY <2>2, FoundIs
    <2>4. e[i] \in {Failed, Found(h)}
      BY <1>2, <1>5, <2>1
    <2>5. QED
      BY <2>1, <2>3, <2>4
  <1>7. QED
    BY <1>1, <1>5, <1>6

\* A sequence of blocks that goes up from a height.
Rising(blocks, start) ==
    /\ blocks \in Seq(Blocks)
    /\ \A i \in DOMAIN blocks : blocks[i] = ZeroBlock \/ blocks[i].height = start + i - 1

LEMMA UpToFirstFailureIs ==
  ASSUME ChainOK, NEW start \in Heights, NEW end \in Heights, start <= end,
         NEW e \in BatchElems(start, end), e[1] # Failed, NEW s, s = UpToFirstFailure(e)
  PROVE  Rising(s, start) /\ Len(s) > 0
  <1>1. PICK n : n = end - start + 1
    OBVIOUS
  <1>2. /\ n \in Nat /\ n > 0 /\ e \in Seq({Failed} \cup Blocks) /\ Len(e) = n /\ DOMAIN e = 1..n
        /\ \A i \in 1..n : \/ e[i] = Failed
                           \/ e[i] \in Blocks /\ (e[i] = ZeroBlock \/ e[i].height = start + i - 1)
    BY <1>1, ElemIs
  <1>3. PICK good : good = {m \in 0..Len(e) : \A i \in 1..m : e[i] # Failed}
    OBVIOUS
  <1>4. PICK m : m = Max(good)
    OBVIOUS
  <1>5. 1 \in good
    BY <1>2, <1>3
  <1>6. good \in SUBSET (0..n) /\ good # {}
    BY <1>2, <1>3, <1>5
  <1>7. m \in good /\ 1 <= m
    BY <1>2, <1>4, <1>5, <1>6, MaxIs
  <1>8. m \in 1..n /\ m \in Int /\ 1 \in Int /\ 1 <= m /\ \A i \in 1..m : e[i] # Failed
    BY <1>2, <1>3, <1>6, <1>7
  <1>9. \A i \in 1..m : e[i] \in Blocks /\ (e[i] = ZeroBlock \/ e[i].height = start + i - 1)
    BY <1>2, <1>8
  <1>10. s = SubSeq(e, 1, m)
    BY <1>3, <1>4 DEF UpToFirstFailure
  <1>11. /\ s \in Seq(Blocks)
         /\ Len(s) = (IF 1 <= m THEN m - 1 + 1 ELSE 0)
         /\ \A i \in 1..(m - 1 + 1) : s[i] = e[1 + i - 1]
    BY <1>8, <1>9, <1>10, SubSeqProperties
  <1>12. Len(s) = m /\ DOMAIN s = 1..m /\ \A i \in 1..m : s[i] = e[i]
    BY <1>8, <1>11, LenProperties
  <1>13. QED
    BY <1>8, <1>9, <1>11, <1>12 DEF Rising

LEMMA OneBlock ==
  ASSUME NEW b \in Blocks, NEW start \in Heights, b.height = start, NEW s, s = <<b>>
  PROVE  Rising(s, start) /\ Len(s) = 1
  <1>1. s \in Seq(Blocks) /\ Len(s) = 1 /\ DOMAIN s = {1} /\ s[1] = b
    OBVIOUS
  <1>2. start \in Int /\ start + 1 - 1 = start
    BY ConstantsAssumption DEF Heights
  <1>3. \A i \in DOMAIN s : s[i].height = start + i - 1
    BY <1>1, <1>2
  <1>4. QED
    BY <1>1, <1>3 DEF Rising

\* What a batch has to describe goes up from the height asked for.
LEMMA BlocksByRangeIs ==
  ASSUME ChainOK, NEW start \in Heights, NEW end \in Heights, start <= end,
         NEW s \in BlocksByRange(start, end), s # Failed
  PROVE  Rising(s, start) /\ Len(s) > 0
  <1>1. CASE start = end
    <2>1. start <= head /\ s = <<chain[start]>>
      BY <1>1 DEF BlocksByRange
    <2>2. PICK b : b = chain[start]
      OBVIOUS
    <2>3. b \in Blocks /\ b.height = start
      BY <2>2 DEF ChainOK, Blocks, Range
    <2>4. QED
      BY <2>1, <2>2, <2>3, OneBlock
  <1>2. CASE start # end
    <2>1. PICK e \in BatchElems(start, end) : e[1] # Failed /\ s = UpToFirstFailure(e)
      BY <1>2 DEF BlocksByRange
    <2>2. QED
      BY <2>1, UpToFirstFailureIs
  <1>3. QED
    BY <1>1, <1>2

\* Headers come one for each height.
LEMMA HeadersAre ==
  ASSUME ChainOK, NEW start \in Heights, NEW end \in Heights, start <= end,
         NEW s \in BlockHeadersByRange(start, end), s # Failed
  PROVE  Rising(s, start) /\ Len(s) = end - start + 1
  <1>1. CASE start = end
    <2>1. start <= head /\ s = <<chain[start]>>
      BY <1>1 DEF BlockHeadersByRange, BlocksByRange
    <2>2. PICK b : b = chain[start]
      OBVIOUS
    <2>3. b \in Blocks /\ b.height = start
      BY <2>2 DEF ChainOK, Blocks, Range
    <2>4. end - start + 1 = 1
      BY <1>1, ConstantsAssumption DEF Heights
    <2>5. QED
      BY <2>1, <2>2, <2>3, <2>4, OneBlock
  <1>2. CASE start # end
    <2>1. PICK e \in BatchElems(start, end) :
             s = [i \in DOMAIN e |-> IF e[i] = Failed THEN ZeroBlock ELSE e[i]]
      BY <1>2 DEF BlockHeadersByRange
    <2>2. PICK n : n = end - start + 1
      OBVIOUS
    <2>3. /\ n \in Nat /\ n > 0 /\ DOMAIN e = 1..n
          /\ \A i \in 1..n : \/ e[i] = Failed
                             \/ e[i] \in Blocks /\ (e[i] = ZeroBlock \/ e[i].height = start + i - 1)
      BY <2>2, ElemIs
    <2>4. ZeroBlock \in Blocks
      BY DEF Blocks
    <2>5. /\ s \in [1..n -> Blocks]
          /\ \A i \in 1..n : s[i] = ZeroBlock \/ s[i].height = start + i - 1
      BY <2>1, <2>3, <2>4
    <2>6. s \in Seq(Blocks) /\ Len(s) = n /\ DOMAIN s = 1..n
      BY <2>3, <2>5, AsSeq
    <2>7. QED
      BY <2>2, <2>5, <2>6 DEF Rising
  <1>3. QED
    BY <1>1, <1>2

\* A block known to a node has a body.
LEMMA KnownBlockIs ==
  ASSUME ChainOK, NEW b \in Blocks, b # ZeroBlock
  PROVE  b \in ChainBlock /\ b.height \in Heights /\ b.txs \in Bodies /\ chain[b.height].txs \in Bodies
  <1>1. b \in ChainBlock
    BY DEF ChainOK, Blocks, Range
  <1>2. b.height \in Heights /\ b.txs \in Bodies
    BY <1>1 DEF ChainBlock
  <1>3. chain[b.height] \in ChainBlock
    BY <1>2 DEF ChainOK
  <1>4. QED
    BY <1>1, <1>2, <1>3 DEF ChainBlock

-----------------------------------------------------------------------------
\* The invariant is kept

\* A step of the chain loses no block and leaves the call alone.
LEMMA NodeStep ==
  ASSUME IInv, ChainOK', Blocks \subseteq Blocks', UNCHANGED <<request, fetched, answer>>
  PROVE  IInv'
  <1>1. fetched \in Seq(Blocks)
    BY DEF IInv, RequestOK
  <1>2. fetched' \in Seq(Blocks')
    BY <1>1, SeqMonotonic
  <1>3. RequestOK'
    BY <1>2 DEF IInv, RequestOK, Open
  <1>4. DescriptionsOK' /\ HeadersInPlace' /\ TxKnown'
    BY DEF IInv, DescriptionsOK, HeadersInPlace, TxKnown
  <1>5. BatchInPlace'
    BY DEF IInv, BatchInPlace
  <1>6. QED
    BY <1>3, <1>4, <1>5 DEF IInv

\* A step of the call leaves the chain alone.
LEMMA CallStep ==
  ASSUME ChainOK, UNCHANGED nodeVars
  PROVE  ChainOK' /\ Blocks' = Blocks
  BY DEF nodeVars, ChainOK, Blocks

LEMMA InitOK == Init => IInv
  <1> SUFFICES ASSUME Init PROVE IInv
    OBVIOUS
  <1>1. PICK body \in [Heights -> Bodies] : chain = [h \in Heights |-> Block(h, 0, body[h])]
    BY DEF Init
  <1>2. ASSUME NEW h \in Heights
        PROVE  chain[h] \in ChainBlock /\ chain[h].height = h
    BY <1>1 DEF Block, ChainBlock
  <1>3. ChainOK
    <2>1. chain \in [Heights -> ChainBlock]
      BY <1>1, <1>2
    <2>2. reorgs \in 0..MaxReorgs
      BY ConstantsAssumption DEF Init
    <2>3. QED
      BY <1>2, <2>1, <2>2 DEF ChainOK, Init
  <1>4. request = NoRequest /\ request.call = "none" /\ fetched = <<>> /\ answer = <<>>
    BY DEF Init, NoRequest
  <1>5. RequestOK
    BY <1>4 DEF RequestOK, Open
  <1>6. QED
    BY <1>3, <1>4, <1>5 DEF IInv, DescriptionsOK, BatchInPlace, HeadersInPlace, TxKnown

LEMMA GrowOK ==
  ASSUME IInv, Grow
  PROVE  IInv'
  <1>1. ChainOK
    BY DEF IInv
  <1>2. head \in Nat /\ head' \in Heights /\ head' = head + 1 /\ UNCHANGED <<chain, stale, reorgs>>
    BY <1>1, ConstantsAssumption DEF ChainOK, Grow, Heights
  <1>3. ASSUME NEW b \in stale
        PROVE  b.height <= head + 1
    <2>1. b.height \in Heights /\ b.height <= head
      BY <1>1 DEF ChainOK, ChainBlock
    <2>2. b.height \in Nat
      BY <2>1, ConstantsAssumption DEF Heights
    <2>3. QED
      BY <1>2, <2>1, <2>2
  <1>4. ChainOK'
    BY <1>1, <1>2, <1>3 DEF ChainOK
  <1>5. Blocks' = Blocks
    BY <1>2 DEF Blocks
  <1>6. QED
    BY <1>4, <1>5, NodeStep DEF Grow

\* The block that is replaced is older than its successor, and so are those
\* that it replaced.
LEMMA ReorganiseOK ==
  ASSUME IInv, Reorganise
  PROVE  IInv'
  <1>1. ChainOK
    BY DEF IInv
  <1> DEFINE old == chain[head]
  <1>2. PICK body \in Bodies : chain' = [chain EXCEPT ![head] = Block(head, @.fork + 1, body)]
    BY DEF Reorganise
  <1>3. PICK new : new = Block(head, old.fork + 1, body)
    OBVIOUS
  <1>4. chain' = [chain EXCEPT ![head] = new] /\ stale' = stale \cup {old} /\ head' = head
    BY <1>2, <1>3 DEF Reorganise
  <1>5. head \in Heights /\ head \in Nat /\ old \in ChainBlock /\ old.height = head /\ old.fork \in Nat
    BY <1>1, ConstantsAssumption DEF ChainOK, ChainBlock, Heights
  <1>6. new \in ChainBlock /\ new.height = head /\ new.fork = old.fork + 1
    BY <1>3, <1>5 DEF Block, ChainBlock
  <1> HIDE DEF old
  <1>7. /\ chain' \in [Heights -> ChainBlock] /\ chain'[head] = new
        /\ \A h \in Heights : h # head => chain'[h] = chain[h]
    BY <1>1, <1>4, <1>5, <1>6 DEF ChainOK
  <1>8. \A h \in Heights : chain'[h].height = h
    BY <1>1, <1>6, <1>7 DEF ChainOK
  <1>9. ASSUME NEW b \in stale'
        PROVE  b \in ChainBlock /\ b.height <= head' /\ b.fork < chain'[b.height].fork
    <2>1. CASE b = old
      BY <1>4, <1>5, <1>6, <1>7, <2>1
    <2>2. CASE b \in stale
      <3>1. b \in ChainBlock /\ b.height <= head /\ b.fork < chain[b.height].fork
        BY <1>1, <2>2 DEF ChainOK
      <3>2. b.height \in Heights /\ b.fork \in Nat
        BY <3>1 DEF ChainBlock
      <3>3. CASE b.height = head
        <4>1. b.fork < old.fork
          BY <3>1, <3>3 DEF old
        <4>2. QED
          BY <1>4, <1>5, <1>6, <1>7, <3>1, <3>2, <3>3, <4>1
      <3>4. CASE b.height # head
        BY <1>4, <1>7, <3>1, <3>2, <3>4
      <3>5. QED
        BY <3>3, <3>4
    <2>3. QED
      BY <1>4, <2>1, <2>2
  <1>10. reorgs' \in 0..MaxReorgs
    BY <1>1, ConstantsAssumption DEF ChainOK, Reorganise
  <1>11. ChainOK'
    BY <1>4, <1>5, <1>7, <1>8, <1>9, <1>10 DEF ChainOK
  <1>12. Blocks \subseteq Blocks'
    <2>1. ASSUME NEW h \in Heights
          PROVE  chain[h] \in Blocks'
      <3>1. CASE h = head
        BY <1>4, <3>1 DEF Blocks, old
      <3>2. CASE h # head
        <4>1. chain'[h] = chain[h] /\ h \in DOMAIN chain'
          BY <1>7, <3>2
        <4>2. QED
          BY <4>1 DEF Blocks, Range
      <3>3. QED
        BY <3>1, <3>2
    <2>2. DOMAIN chain = Heights
      BY <1>1 DEF ChainOK
    <2>3. \A b \in Range(chain) : b \in Blocks'
      BY <2>1, <2>2 DEF Range
    <2>4. stale \subseteq Blocks' /\ ZeroBlock \in Blocks'
      BY <1>4 DEF Blocks, ZeroBlock, Block
    <2>5. QED
      BY <2>3, <2>4 DEF Blocks
  <1>13. QED
    BY <1>11, <1>12, NodeStep DEF Reorganise

\* A call begins with blocks a node knows, those of a batch from its first
\* height upwards.
LEMMA BeginOK ==
  ASSUME IInv, NEW call \in {"batch", "block"}, NEW start, NEW end, NEW blocks,
         Begin(call, start, end, blocks),
         blocks # Failed => blocks \in Seq(Blocks),
         blocks # Failed /\ call = "batch" => start \in Heights /\ Rising(blocks, start) /\ Len(blocks) > 0
  PROVE  IInv'
  <1>1. ChainOK' /\ Blocks' = Blocks
    BY CallStep DEF IInv, Begin
  <1>2. CASE blocks = Failed
    <2>1. request' = [call |-> call, start |-> start, end |-> end, due |-> 0] /\ fetched' = <<>> /\ answer' = Failed
      BY <1>2 DEF Begin
    <2>2. request'.due = 0
      BY <2>1
    <2>3. RequestOK'
      BY <2>1, <2>2 DEF RequestOK, Open
    <2>4. QED
      BY <1>1, <2>1, <2>3 DEF IInv, DescriptionsOK, BatchInPlace, HeadersInPlace, TxKnown
  <1>3. CASE blocks # Failed
    <2>1. PICK n : n = Len(blocks)
      OBVIOUS
    <2>2. request' = [call |-> call, start |-> start, end |-> end, due |-> n] /\ fetched' = blocks /\ answer' = <<>>
      BY <1>3, <2>1 DEF Begin
    <2>3. n \in Nat /\ blocks \in Seq(Blocks)
      BY <1>3, <2>1, LenProperties
    <2>4. request'.due = n /\ request'.call = call /\ request'.start = start
      BY <2>2
    <2>5. Len(answer') = 0 /\ DOMAIN answer' = {} /\ answer' \in Seq(Range(answer'))
      BY <2>2
    <2>6. RequestOK'
      <3>1. Len(fetched') = n - 0
        BY <2>1, <2>2, <2>3
      <3>2. QED
        BY <1>1, <2>2, <2>3, <2>4, <2>5, <3>1 DEF RequestOK, Open
    <2>7. BatchInPlace'
      <3>1. SUFFICES ASSUME call = "batch" PROVE BatchInPlace'
        BY <2>4 DEF BatchInPlace
      <3>2. start \in Heights /\ Rising(blocks, start) /\ n > 0
        BY <1>3, <2>1, <3>1
      <3>3. start \in Int
        BY <3>2, ConstantsAssumption DEF Heights
      <3>4. DOMAIN blocks = 1..n
        BY <2>1, <2>3, LenProperties
      <3>5. \A i \in DOMAIN fetched' :
               fetched'[i] = ZeroBlock \/ fetched'[i].height = start + 0 + i - 1
        BY <2>2, <3>2, <3>3, <3>4 DEF Rising
      <3>6. ZeroBlock' = ZeroBlock
        OBVIOUS
      <3>7. QED
        BY <2>4, <2>5, <3>2, <3>5, <3>6 DEF BatchInPlace
    <2>8. DescriptionsOK' /\ HeadersInPlace' /\ TxKnown'
      BY <2>4, <2>5 DEF DescriptionsOK, HeadersInPlace, TxKnown
    <2>9. QED
      BY <1>1, <2>6, <2>7, <2>8 DEF IInv
  <1>4. QED
    BY <1>2, <1>3

LEMMA GetBatchBlockOK ==
  ASSUME IInv, GetBatchBlock
  PROVE  IInv'
  <1>1. PICK start \in Heights, end \in Heights :
           IF start > end THEN Begin("batch", start, end, Failed)
           ELSE \E blocks \in BlocksByRange(start, end) : Begin("batch", start, end, blocks)
    BY DEF GetBatchBlock
  <1>2. CASE start > end
    BY <1>1, <1>2, BeginOK
  <1>3. CASE ~(start > end)
    <2>1. start <= end
      BY <1>3, ConstantsAssumption DEF Heights
    <2>2. PICK blocks \in BlocksByRange(start, end) : Begin("batch", start, end, blocks)
      BY <1>1, <1>3
    <2>3. blocks # Failed => Rising(blocks, start) /\ Len(blocks) > 0
      BY <2>1, BlocksByRangeIs DEF IInv
    <2>4. blocks # Failed => blocks \in Seq(Blocks)
      BY <2>3 DEF Rising
    <2>5. QED
      BY <2>2, <2>3, <2>4, BeginOK
  <1>4. QED
    BY <1>2, <1>3

LEMMA GetBlockOK ==
  ASSUME IInv, GetBlock
  PROVE  IInv'
  <1>1. PICK b \in BlockByNumber \cup BlockByHash :
           \/ Begin("block", b.height, b.height, <<b>>)
           \/ Begin("block", b.height, b.height, Failed)
    BY DEF GetBlock
  <1>2. b \in Blocks
    <2>1. \A h \in 1..head : h \in Heights
      BY ConstantsAssumption DEF IInv, ChainOK, Heights
    <2>2. DOMAIN chain = Heights
      BY DEF IInv, ChainOK
    <2>3. QED
      BY <2>1, <2>2 DEF BlockByNumber, BlockByHash, Blocks, Range
  <1>3. PICK blocks : blocks = <<b>>
    OBVIOUS
  <1>4. blocks \in Seq(Blocks)
    BY <1>2, <1>3
  <1>5. CASE Begin("block", b.height, b.height, blocks)
    BY <1>4, <1>5, BeginOK
  <1>6. CASE Begin("block", b.height, b.height, Failed)
    BY <1>6, BeginOK
  <1>7. QED
    BY <1>1, <1>3, <1>5, <1>6

\* The three calls that answer at once.
LEMMA AnswerOK ==
  ASSUME IInv, UNCHANGED <<nodeVars, fetched>>,
         NEW call \in {"headers", "tx", "latest"}, NEW start, NEW end,
         request' = [call |-> call, start |-> start, end |-> end, due |-> 0],
         answer' # Failed => answer' \in Seq(Range(answer')),
         answer' # Failed /\ call = "headers" =>
             Rising(answer', start) /\ Len(answer') = end - start + 1,
         answer' # Failed /\ call = "tx" =>
             \E t \in TxIds, again \in BOOLEAN : answer' = <<ByHash(t, again)>>
  PROVE  IInv'
  <1>1. ChainOK' /\ Blocks' = Blocks /\ fetched' = fetched
    BY CallStep DEF IInv
  <1>2. request'.call = call /\ request'.due = 0 /\ request'.start = start /\ request'.end = end
    OBVIOUS
  <1>3. RequestOK'
    <2>1. answer' # Failed => Len(answer') \in Nat
      BY LenProperties
    <2>2. ~Open'
      BY <1>2, <2>1 DEF Open
    <2>3. QED
      BY <1>1, <1>2, <2>2 DEF IInv, RequestOK
  <1>4. HeadersInPlace'
    BY <1>2 DEF HeadersInPlace, Rising, ZeroBlock, Block
  <1>5. TxKnown'
    BY <1>2 DEF TxKnown, ByHash, tryParseUserOpERC20Transfer, parseERC20TransfersFromReceipt
  <1>6. DescriptionsOK' /\ BatchInPlace'
    BY <1>2 DEF DescriptionsOK, BatchInPlace
  <1>7. QED
    BY <1>1, <1>3, <1>4, <1>5, <1>6 DEF IInv

LEMMA GetBatchHeadersOK ==
  ASSUME IInv, GetBatchHeaders
  PROVE  IInv'
  <1>1. PICK start \in Heights, end \in Heights :
           /\ start <= end
           /\ \E headers \in BlockHeadersByRange(start, end) :
                /\ request' = [call |-> "headers", start |-> start, end |-> end, due |-> 0]
                /\ answer' = headers
    BY DEF GetBatchHeaders
  <1>2. answer' # Failed => Rising(answer', start) /\ Len(answer') = end - start + 1
    BY <1>1, HeadersAre DEF IInv
  <1>3. answer' # Failed => answer' \in Seq(Range(answer'))
    BY <1>2, SeqOfRange DEF Rising
  <1>4. QED
    BY <1>1, <1>2, <1>3, AnswerOK DEF GetBatchHeaders

LEMMA GetTransactionByHashOK ==
  ASSUME IInv, GetTransactionByHash
  PROVE  IInv'
  <1>1. PICK start : start = 0
    OBVIOUS
  <1>2. request' = [call |-> "tx", start |-> start, end |-> start, due |-> 0]
    BY <1>1 DEF GetTransactionByHash
  <1>3. PICK t \in TxIds : \E tx \in TxByHash(t), receipt \in TxReceiptByHash(t) :
          \/ /\ Failed \notin {tx, receipt}
             /\ answer' \in {<<ByHash(tx, TRUE)>>, <<ByHash(tx, FALSE)>>}
          \/ answer' = Failed
    BY DEF GetTransactionByHash
  <1>4. answer' # Failed => \E again \in BOOLEAN : answer' = <<ByHash(t, again)>>
    BY <1>3 DEF TxByHash
  <1>5. ASSUME NEW again, answer' = <<ByHash(t, again)>>
        PROVE  answer' \in Seq(Range(answer'))
    <2>1. PICK e : e = ByHash(t, again)
      OBVIOUS
    <2>2. answer' = <<e>>
      BY <1>5, <2>1
    <2>3. answer' \in Seq({e})
      BY <2>2
    <2>4. QED
      BY <2>3, SeqOfRange
  <1>6. QED
    BY <1>2, <1>4, <1>5, AnswerOK DEF GetTransactionByHash

LEMMA GetLastestBlockOK ==
  ASSUME IInv, GetLastestBlock
  PROVE  IInv'
  <1>1. request' = [call |-> "latest", start |-> head, end |-> head, due |-> 0]
    BY DEF GetLastestBlock
  <1>2. answer' # Failed => answer' = <<chain[head]>>
    BY DEF GetLastestBlock
  <1>3. answer' # Failed => answer' \in Seq(Range(answer'))
    <2>1. PICK b : b = chain[head]
      OBVIOUS
    <2>2. <<b>> \in Seq({b})
      OBVIOUS
    <2>3. answer' # Failed => answer' \in Seq({b})
      BY <1>2, <2>1, <2>2, Zenon
    <2>4. QED
      BY <2>3, SeqOfRange
  <1>4. QED
    BY <1>1, <1>3, AnswerOK DEF GetLastestBlock

\* What buildBlockWithTransactions lists of one block is as it should be.
LEMMA DescriptionIs ==
  ASSUME ChainOK, NEW b \in Blocks, b # ZeroBlock,
         NEW receipts \in BlockReceiptsByNumber(b.height), NEW d,
         d = IF receipts = Failed
             THEN [block |-> b, entries |-> OuterEntries(b.txs), same |-> FALSE, whole |-> FALSE]
             ELSE [block |-> b,
                   entries |-> AddInner(OuterEntries(b.txs), chain[b.height].txs, receipts),
                   same |-> chain[b.height] = b, whole |-> receipts = DOMAIN chain[b.height].txs]
  PROVE  DescribedOK(d) /\ d.block = b
  <1>1. b.txs \in Bodies /\ chain[b.height].txs \in Bodies
    BY KnownBlockIs
  <1> DEFINE now == chain[b.height].txs
  <1>2. CASE receipts = Failed
    <2>1. PICK outer : outer = OuterEntries(b.txs)
      OBVIOUS
    <2>2. NobodyPaid(outer) /\ NamedOnce(outer)
      BY <1>1, <2>1, OuterIs
    <2>3. d = [block |-> b, entries |-> outer, same |-> FALSE, whole |-> FALSE]
      BY <1>2, <2>1
    <2>4. d.block = b /\ d.entries = outer /\ ~d.same
      BY <2>3
    <2>5. QED
      BY <2>2, <2>4 DEF DescribedOK
  <1>3. CASE receipts # Failed
    <2>1. receipts \in SUBSET DOMAIN now
      BY <1>3 DEF BlockReceiptsByNumber
    <2>2. PICK entries : entries = AddInner(OuterEntries(b.txs), now, receipts)
      OBVIOUS
    <2>3. PICK same, whole \in BOOLEAN : (same <=> chain[b.height] = b) /\ (whole <=> receipts = DOMAIN now)
      OBVIOUS
    <2>4. /\ NobodyPaid(entries) /\ NamedOnce(entries)
          /\ now = b.txs => AllReal(entries, b.txs)
          /\ now = b.txs /\ receipts = DOMAIN now => AllNamed(entries, b.txs)
      BY <1>1, <2>1, <2>2, ListIs
    <2>5. /\ d.block = b /\ d.entries = entries
          /\ d.same <=> chain[b.height] = b
          /\ d.whole <=> receipts = DOMAIN now
      BY <1>3, <2>2
    <2>6. d.same => now = b.txs
      BY <2>5
    <2>7. QED
      BY <2>4, <2>5, <2>6 DEF DescribedOK
  <1>4. QED
    BY <1>2, <1>3

LEMMA BuildBlockOK ==
  ASSUME IInv, BuildBlock
  PROVE  IInv'
  <1>1. ChainOK /\ ChainOK' /\ Blocks' = Blocks /\ request' = request
    BY CallStep DEF IInv, BuildBlock
  <1>2. /\ request # NoRequest /\ answer # Failed /\ Len(answer) < request.due
        /\ fetched \in Seq(Blocks) /\ answer \in Seq(Range(answer))
        /\ Len(fetched) = request.due - Len(answer) /\ request.due \in Nat
        /\ request.call \in {"batch", "block"} \/ request.due = 0
    BY DEF IInv, RequestOK, BuildBlock, Open
  <1>3. PICK k : k = Len(answer)
    OBVIOUS
  <1>4. PICK n : n = Len(fetched)
    OBVIOUS
  <1>5. k \in Nat /\ n \in Nat /\ n > 0 /\ n = request.due - k
    BY <1>2, <1>3, <1>4, LenProperties
  <1>6. request.call \in {"batch", "block"}
    BY <1>2, <1>3, <1>5
  <1>7. PICK b : b = Head(fetched)
    OBVIOUS
  <1>8. /\ b \in Blocks /\ fetched' = Tail(fetched) /\ fetched' \in Seq(Blocks)
        /\ Len(fetched') = n - 1 /\ b = fetched[1]
        /\ \A i \in 1..(n - 1) : fetched'[i] = fetched[i + 1]
    <2>1. fetched # <<>>
      <3>1. Len(<<>>) = 0
        OBVIOUS
      <3>2. n # 0
        BY <1>5
      <3>3. QED
        BY <1>4, <3>1, <3>2, Zenon
    <2>2. fetched' = Tail(fetched)
      BY DEF BuildBlock
    <2>3. /\ Head(fetched) \in Blocks /\ Tail(fetched) \in Seq(Blocks)
          /\ Len(Tail(fetched)) = n - 1
          /\ \A i \in 1..(n - 1) : Tail(fetched)[i] = fetched[i + 1]
      BY <1>2, <1>4, <2>1, HeadTailProperties
    <2>4. Head(fetched) = fetched[1]
      BY <1>2, <2>1
    <2>5. QED
      BY <1>7, <2>2, <2>3, <2>4
  <1>9. CASE answer' = Failed
    <2>1. RequestOK'
      BY <1>1, <1>2, <1>8, <1>9 DEF RequestOK, Open
    <2>2. QED
      BY <1>1, <1>9, <2>1 DEF IInv, DescriptionsOK, BatchInPlace, HeadersInPlace, TxKnown
  <1>10. CASE answer' # Failed
    <2>1. b # ZeroBlock
      BY <1>7, <1>10 DEF BuildBlock
    <2>2. PICK receipts \in BlockReceiptsByNumber(b.height) : answer' = Append(answer,
                IF receipts = Failed
                THEN [block |-> b, entries |-> OuterEntries(b.txs), same |-> FALSE, whole |-> FALSE]
                ELSE [block |-> b,
                      entries |-> AddInner(OuterEntries(b.txs), chain[b.height].txs, receipts),
                      same |-> chain[b.height] = b, whole |-> receipts = DOMAIN chain[b.height].txs])
      BY <1>7, <2>1 DEF BuildBlock
    <2>3. PICK d : DescribedOK(d) /\ d.block = b /\ answer' = Append(answer, d)
      <3>1. PICK d : d = IF receipts = Failed
                THEN [block |-> b, entries |-> OuterEntries(b.txs), same |-> FALSE, whole |-> FALSE]
                ELSE [block |-> b,
                      entries |-> AddInner(OuterEntries(b.txs), chain[b.height].txs, receipts),
                      same |-> chain[b.height] = b, whole |-> receipts = DOMAIN chain[b.height].txs]
        OBVIOUS
      <3>2. DescribedOK(d) /\ d.block = b
        BY <1>1, <1>8, <2>1, <3>1, DescriptionIs
      <3>3. QED
        BY <2>2, <3>1, <3>2
    <2>4. PICK S : S = Range(answer) \cup {d}
      OBVIOUS
    <2>5. answer \in Seq(S) /\ d \in S
      BY <1>2, <2>4, SeqMonotonic
    <2>6. /\ answer' \in Seq(S) /\ Len(answer') = k + 1
          /\ \A i \in 1..k : answer'[i] = answer[i]
          /\ answer'[k + 1] = d
      BY <1>3, <2>3, <2>5, AppendProperties
    <2>7. DOMAIN answer = 1..k /\ DOMAIN answer' = 1..(k + 1) /\ DOMAIN fetched = 1..n /\ DOMAIN fetched' = 1..(n - 1)
      BY <1>2, <1>3, <1>4, <1>8, <2>6, LenProperties
    <2>8. answer' \in Seq(Range(answer'))
      BY <2>6, SeqOfRange
    <2>9. RequestOK'
      <3>1. Len(fetched') = request.due - (k + 1)
        <4>1. PICK due \in Nat : due = request.due
          BY <1>2
        <4>2. n - 1 = due - (k + 1)
          BY <1>5, <4>1
        <4>3. QED
          BY <1>8, <4>1, <4>2
      <3>2. Len(fetched') = request'.due - Len(answer')
        BY <1>1, <2>6, <3>1
      <3>3. fetched' \in Seq(Blocks')
        BY <1>1, <1>8
      <3>4. request'.due \in Nat /\ (request'.call \in {"batch", "block"} \/ request'.due = 0)
        BY <1>1, <1>2
      <3>5. QED
        BY <2>8, <3>2, <3>3, <3>4 DEF RequestOK
    <2>10. \A i \in 1..(k + 1) : i \in 1..k \/ i = k + 1
      BY <1>5
    <2>11. DescriptionsOK'
      <3>1. \A i \in 1..k : DescribedOK(answer[i])
        BY <1>2, <1>6, <2>7 DEF IInv, DescriptionsOK
      <3>2. \A i \in DOMAIN answer' : DescribedOK(answer'[i])
        BY <2>3, <2>6, <2>7, <2>10, <3>1
      <3>3. QED
        BY <3>2 DEF DescriptionsOK
    <2>12. BatchInPlace'
      <3>1. SUFFICES ASSUME request.call = "batch" PROVE BatchInPlace'
        BY <1>1 DEF BatchInPlace
      <3>2. PICK s : s = request.start
        OBVIOUS
      <3>3. /\ s \in Heights /\ request.due > 0
            /\ \A i \in 1..k : answer[i].block.height = s + i - 1
            /\ \A i \in 1..n : fetched[i] = ZeroBlock \/ fetched[i].height = s + k + i - 1
        BY <1>2, <1>3, <2>7, <3>1, <3>2 DEF IInv, BatchInPlace
      <3>4. s \in Int
        BY <3>3, ConstantsAssumption DEF Heights
      <3>5. b.height = s + k + 1 - 1
        BY <1>5, <1>8, <2>1, <3>3
      <3>6. \A i \in 1..(k + 1) : answer'[i].block.height = s + i - 1
        BY <1>5, <2>3, <2>6, <2>10, <3>3, <3>4, <3>5
      <3>7. ASSUME NEW i \in 1..(n - 1)
            PROVE  fetched'[i] = ZeroBlock \/ fetched'[i].height = s + (k + 1) + i - 1
        <4>1. PICK j : j = i + 1
          OBVIOUS
        <4>2. j \in 1..n /\ i \in Int /\ fetched'[i] = fetched[j]
          BY <1>5, <1>8, <4>1
        <4>3. s + k + j - 1 = s + (k + 1) + i - 1
          BY <1>5, <3>4, <4>1, <4>2
        <4>4. QED
          BY <3>3, <4>2, <4>3
      <3>8. QED
        BY <1>1, <2>6, <2>7, <3>2, <3>3, <3>6, <3>7 DEF BatchInPlace, ZeroBlock, Block
    <2>13. HeadersInPlace' /\ TxKnown'
      BY <1>1, <1>6 DEF HeadersInPlace, TxKnown
    <2>14. QED
      BY <1>1, <2>9, <2>11, <2>12, <2>13 DEF IInv
  <1>11. QED
    BY <1>9, <1>10

LEMMA StutterOK ==
  ASSUME IInv, UNCHANGED vars
  PROVE  IInv'
  <1>1. UNCHANGED nodeVars /\ UNCHANGED <<request, fetched, answer>>
    BY DEF vars
  <1>2. ChainOK' /\ Blocks' = Blocks
    BY <1>1, CallStep DEF IInv
  <1>3. QED
    BY <1>1, <1>2, NodeStep

LEMMA Invariance == Spec => []IInv
  <1>1. IInv /\ [Next]_vars => IInv'
    <2> SUFFICES ASSUME IInv, [Next]_vars PROVE IInv'
      OBVIOUS
    <2>1. CASE Grow
      BY <2>1, GrowOK
    <2>2. CASE Reorganise
      BY <2>2, ReorganiseOK
    <2>3. CASE GetBatchBlock
      BY <2>3, GetBatchBlockOK
    <2>4. CASE GetBlock
      BY <2>4, GetBlockOK
    <2>5. CASE GetBatchHeaders
      BY <2>5, GetBatchHeadersOK
    <2>6. CASE BuildBlock
      BY <2>6, BuildBlockOK
    <2>7. CASE GetTransactionByHash
      BY <2>7, GetTransactionByHashOK
    <2>8. CASE GetLastestBlock
      BY <2>8, GetLastestBlockOK
    <2>9. CASE UNCHANGED vars
      BY <2>9, StutterOK
    <2>10. QED
      BY <2>1, <2>2, <2>3, <2>4, <2>5, <2>6, <2>7, <2>8, <2>9 DEF Next
  <1>2. QED
    BY <1>1, InitOK, PTL DEF Spec

-----------------------------------------------------------------------------
\* The properties

LEMMA DescribedAreOK ==
  ASSUME IInv, NEW d \in Described
  PROVE  DescribedOK(d)
  <1>1. answer # Failed /\ request.call \in {"batch", "block"} /\ d \in Range(answer)
    BY DEF Described
  <1>2. PICK i \in DOMAIN answer : d = answer[i]
    BY <1>1 DEF Range
  <1>3. QED
    BY <1>1, <1>2 DEF IInv, DescriptionsOK

\* Every variable has its type, a replaced block differs from the one at its
\* height, nobody is said to be paid by a contract creation, and an open call
\* of GetBlockByNumber, GetBlockByHash or GetBatchBlock (bnb.go) has blocks
\* left to describe.
THEOREM TypeCorrect == Spec => []TypeOK
  <1>1. IInv => TypeOK
    <2> SUFFICES ASSUME IInv PROVE TypeOK
      OBVIOUS
    <2>1. \A h \in Heights : chain[h].height = h /\ chain[h].txs \in Bodies
      BY DEF IInv, ChainOK, ChainBlock
    <2>2. ASSUME NEW b \in stale
          PROVE  b.height <= head /\ b # chain[b.height]
      <3>1. b.height <= head /\ b.fork < chain[b.height].fork /\ b.fork \in Nat
        BY DEF IInv, ChainOK, ChainBlock
      <3>2. QED
        BY <3>1
    <2>3. Range(fetched) \subseteq Blocks
      <3>1. fetched \in Seq(Blocks)
        BY DEF IInv, RequestOK
      <3>2. DOMAIN fetched = 1..Len(fetched) /\ \A i \in 1..Len(fetched) : fetched[i] \in Blocks
        BY <3>1, LenProperties
      <3>3. QED
        BY <3>2 DEF Range
    <2>4. ASSUME NEW d \in Described, NEW e \in Range(d.entries)
          PROVE  e.to.of # Creation
      <3>1. NobodyPaid(d.entries)
        BY DescribedAreOK DEF DescribedOK
      <3>2. QED
        BY <3>1 DEF NobodyPaid, Range
    <2>5. QED
      BY <2>1, <2>2, <2>3, <2>4 DEF TypeOK, IInv, ChainOK, RequestOK
  <1>2. QED
    BY <1>1, Invariance, PTL

\* buildBlockWithTransactions names each movement once, whatever the calls,
\* the logs and the spelling of the addresses (transferDedupKey).
THEOREM NoneTwiceInABlock == Spec => []EachMovementOnce
  <1>1. IInv => EachMovementOnce
    BY DescribedAreOK DEF EachMovementOnce, DescribedOK, NamedOnce
  <1>2. QED
    BY <1>1, Invariance, PTL

\* With all the receipts of the block itself, buildBlockWithTransactions
\* leaves out no movement of a tracked token.
THEOREM NothingLeftOut == Spec => []EveryMovementNamed
  <1>1. IInv => EveryMovementNamed
    <2> SUFFICES ASSUME IInv, NEW d \in Described, d.same, d.whole,
                        NEW t \in Range(d.block.txs), NEW l \in Range(Tx[t].logs),
                        IsTracked(l.token), l.value > 0
                 PROVE  \E e \in Range(d.entries) :
                            Movement(e) = <<t, l.token, l.from, l.to, l.value>>
      BY DEF EveryMovementNamed
    <2>1. AllNamed(d.entries, d.block.txs)
      BY DescribedAreOK DEF DescribedOK
    <2>2. PICK p \in DOMAIN d.entries :
             Movement(d.entries[p]) = <<t, l.token, l.from, l.to, l.value>>
      BY <2>1 DEF AllNamed
    <2>3. d.entries[p] \in Range(d.entries)
      BY DEF Range
    <2>4. QED
      BY <2>2, <2>3
  <1>2. QED
    BY <1>1, Invariance, PTL

\* With receipts of the block itself, however few were read, every inner
\* transfer buildBlockWithTransactions lists is in a log of that block.
THEOREM NothingMadeUp == Spec => []NoMovementInvented
  <1>1. IInv => NoMovementInvented
    <2> SUFFICES ASSUME IInv, NEW d \in Described, d.same,
                        NEW e \in Range(d.entries), e.kind = "receipt_erc20"
                 PROVE  /\ e.tx \in Range(d.block.txs) /\ Tx[e.tx].success
                        /\ e.amount > 0
                        /\ \E l \in Range(Tx[e.tx].logs) :
                              Movement(e) = <<e.tx, l.token, l.from, l.to, l.value>>
      BY DEF NoMovementInvented
    <2>1. AllReal(d.entries, d.block.txs)
      BY DescribedAreOK DEF DescribedOK
    <2>2. PICK p \in DOMAIN d.entries : d.entries[p] = e
      BY DEF Range
    <2>3. QED
      BY <2>1, <2>2 DEF AllReal
  <1>2. QED
    BY <1>1, Invariance, PTL

\* An answer of GetBatchBlock or of BlockHeadersByRange (ethclient.go) has no
\* hole, wherever the node failed and whatever it forgot in between.
THEOREM NoHole == Spec => []RangeInPlace
  <1>1. IInv => RangeInPlace
    BY DEF IInv, BatchInPlace, HeadersInPlace, RangeInPlace
  <1>2. QED
    BY <1>1, Invariance, PTL

\* A token transfer that GetTransactionByHash reports, of the call itself or
\* found in a bundle (tryParseUserOpERC20Transfer), is listed with its block.
THEOREM TwoWaysAgree == Spec => []ByHashIsInBlock
  <1>1. IInv => ByHashIsInBlock
    <2> SUFFICES ASSUME IInv, request.call = "tx", answer # Failed, answer[1].type = 3
                 PROVE  \E f \in Range(AddInner(OuterEntries(<<answer[1].tx>>), <<answer[1].tx>>, {1})) :
                            f.type = 3 /\ Movement(f) = Movement(answer[1])
      BY DEF ByHashIsInBlock
    <2>1. PICK t \in TxIds, again \in BOOLEAN : answer = <<ByHash(t, again)>>
      BY DEF IInv, TxKnown
    <2>2. answer[1] = ByHash(t, again)
      BY <2>1
    <2>3. QED
      BY <2>2, ByHashIs
  <1>2. QED
    BY <1>1, Invariance, PTL

=============================================================================
