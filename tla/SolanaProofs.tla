---------------------------- MODULE SolanaProofs ----------------------------
(***************************************************************************)
(* Theorems about Solana for every set of callers, ledgers and keys, and   *)
(* for blocks of every length.                                             *)
(***************************************************************************)
EXTENDS Solana, FiniteSetTheorems, TLAPS

-----------------------------------------------------------------------------
\* The inductive invariant

Steps   == {"range", "fetch", "build", "sign", "send", "done", "error", "panic"}
Places  == {"new", "in", "out"}
Reports == {"sent", "failed"}

\* What may be listed of a transaction, and of the transactions of a block.
ItemsOf(tx)  == {HashOnly(tx)} \cup {Hydrated(tx, t) : t \in parseTransactionResult(tx)}
Results(txs) == UNION {{Hydrated(tx, t) : t \in parseTransactionResult(tx)} : tx \in Range(txs)}

\* The chain's transactions, and what a caller may get of them.
Txs    == UNION {Range(txs) : txs \in Range(ledger) \ {Skipped}}
Items  == UNION {ItemsOf(tx) : tx \in Txs}
Blocks == [slot : Nat, there : BOOLEAN, txs : Seq(Items)]

Fetches == [txs : Seq(Txs), at : Seq(Places), retry : Seq(0..maxRetries-1), held : Nat,
            results : Seq(Items), errors : Nat, expired : BOOLEAN]

DataInv ==
    /\ work \in Work
    /\ step \in [Callers -> Steps]
    /\ listed \in [Callers -> Seq(Blocks)]
    /\ next \in [Callers -> Nat]
    /\ fetch \in [Callers -> Fetches]
    /\ failed = [c \in Callers |-> failed[c]]
    /\ seen \in [Callers -> Nat]
    /\ made = [c \in Callers |-> made[c]]
    /\ signed = [c \in Callers |-> signed[c]]
    /\ \A c \in Callers : signed[c] \in Seq(Range(signed[c]))
    /\ told \in [Callers -> Seq(Reports)]
    /\ attempt \in [Callers -> 0..Retries]
    /\ ledger \in Ledgers
    /\ head \in 0..Len(ledger)

\* The call a caller is in says what it has.
Progress(c) ==
    /\ step[c] \in {"range", "fetch"} => work[c].kind = "range"
    /\ step[c] \in {"build", "sign", "send"} => work[c].kind = "transfers"
    /\ step[c] \in {"build", "sign"} => told[c] = <<>>
    /\ step[c] = "send" => Len(told[c]) < Len(signed[c])
    /\ Len(told[c]) <= Len(signed[c])
    /\ step[c] # "fetch" => fetch[c] = NoFetch

\* The goroutines of a fetch: each holds its place of the semaphore while it is
\* in, and has left a result or an error when it is out.
At(f, where) == {i \in DOMAIN f.at : f.at[i] = where}

Counted(f) ==
    /\ DOMAIN f.at = DOMAIN f.txs
    /\ DOMAIN f.retry = DOMAIN f.txs
    /\ f.held = Cardinality(At(f, "in"))
    /\ f.held <= maxConcurrent
    /\ Len(f.results) + f.errors = Cardinality(At(f, "out"))

\* Without an error there are the results of just those that are out.
Collected(f) ==
    /\ f.results \in Seq(Results(f.txs))
    /\ f.errors = 0 => HashesOf(f.results) = {f.txs[i].id : i \in At(f, "out")}

\* It is about the block of the slot its caller is at.
FetchInv(c) ==
    step[c] = "fetch" =>
        /\ next[c] \in 1..seen[c]
        /\ next[c] <= work[c].last
        /\ work[c].with
        /\ ledger[next[c]] # Skipped
        /\ fetch[c].txs = ledger[next[c]]
        /\ Collected(fetch[c])

\* The list of a block's transactions.
Whole(items, txs) ==
    /\ Len(items) = Len(txs)
    /\ HashesOf(items) = {txs[k].id : k \in DOMAIN txs}
    /\ \A k, l \in DOMAIN items : items[k].whole = items[l].whole
    /\ \A k \in DOMAIN items : \E tx \in Range(txs) : items[k] \in ItemsOf(tx)

\* The entry of a slot, as far as the chain was seen.
Shown(b, upTo, chain, with) ==
    IF ~b.there THEN b.txs = <<>>
    ELSE /\ b.slot \in 1..upTo
         /\ chain[b.slot] # Skipped
         /\ IF with THEN Whole(b.txs, chain[b.slot]) ELSE b.txs = <<>>

\* The slots so far are listed in their order, or were left out for a reason.
RangeInv(c) ==
    /\ seen[c] <= head
    /\ work[c].kind = "transfers" => listed[c] = <<>>
    /\ work[c].kind = "range" =>
         /\ work[c].first <= next[c]
         /\ step[c] = "done" => work[c].last < next[c]
         /\ \A i \in DOMAIN listed[c] :
              /\ Shown(listed[c][i], seen[c], ledger, work[c].with)
              /\ listed[c][i].slot < next[c]
              /\ \A j \in 1..i-1 : listed[c][j].slot < listed[c][i].slot
         /\ \A h \in work[c].first..next[c]-1 :
              \/ \E i \in DOMAIN listed[c] : listed[c][i].slot = h
              \/ h \in failed[c]
              \/ h \in DOMAIN ledger /\ ledger[h] = Skipped

\* What was assembled of truly labelled signatures verifies, and what is reported
\* sent verified at the node.
SignedInv(c) ==
    \A i \in DOMAIN signed[c] :
        /\ signed[c][i].success /\ signed[c][i].labelled => Verifies(signed[c][i])
        /\ i \in DOMAIN told[c] /\ told[c][i] = "sent"
           => signed[c][i].success /\ Verifies(signed[c][i]) /\ signed[c][i].env \in known

CallerInv(c) == Progress(c) /\ Counted(fetch[c]) /\ FetchInv(c) /\ RangeInv(c) /\ SignedInv(c)

IInv == DataInv /\ \A c \in Callers : CallerInv(c)

-----------------------------------------------------------------------------
\* Numbers

LEMMA LeastExists ==
  ASSUME NEW S \in SUBSET Nat, S # {}
  PROVE  \E x \in S : \A y \in S : x <= y
  <1>1. PICK x \in S : \A y \in S : ~(<<y, x>> \in OpToRel(<, Nat))
    BY NatLessThanWellFounded, WFMin
  <1>2. ASSUME NEW y \in S
        PROVE  x <= y
    <2>1. x \in Nat /\ y \in Nat
      OBVIOUS
    <2>2. ~(y < x)
      <3>1. SUFFICES ASSUME y < x PROVE FALSE
        OBVIOUS
      <3>2. <<y, x>> \in OpToRel(<, Nat)
        BY <2>1, <3>1 DEF OpToRel
      <3>3. QED
        BY <1>1, <3>2
    <2>3. QED
      BY <2>1, <2>2
  <1>3. QED
    BY <1>2

LEMMA MinIsIn ==
  ASSUME NEW S \in SUBSET Nat, S # {}
  PROVE  Min(S) \in S
  BY LeastExists DEF Min

LEMMA MaxIsIn ==
  ASSUME NEW n \in Nat, NEW S \in SUBSET (1..n), S # {}
  PROVE  Max(S) \in S
  <1> DEFINE T == {n - x : x \in S}
  <1>1. T \in SUBSET Nat /\ T # {}
    <2>1. \A x \in S : x \in 1..n
      OBVIOUS
    <2>2. \A x \in 1..n : n - x \in Nat
      OBVIOUS
    <2>3. QED
      BY <2>1, <2>2
  <1>2. PICK t \in T : \A u \in T : t <= u
    BY <1>1, LeastExists
  <1>3. PICK x \in S : t = n - x
    OBVIOUS
  <1>4. ASSUME NEW y \in S
        PROVE  x >= y
    <2>1. x \in 1..n /\ y \in 1..n
      OBVIOUS
    <2>2. n - x <= n - y
      BY <1>2, <1>3
    <2>3. QED
      BY <2>1, <2>2
  <1>5. QED
    BY <1>3, <1>4 DEF Max

\* The members of a part of 1..n can be counted.
LEMMA PartIsFinite ==
  ASSUME NEW n \in Nat, NEW S \in SUBSET (1..n)
  PROVE  IsFiniteSet(S) /\ Cardinality(S) \in Nat /\ Cardinality(S) <= n
  <1>1. IsFiniteSet(1..n) /\ Cardinality(1..n) = n
    BY FS_Interval
  <1>2. QED
    BY <1>1, FS_Subset, FS_CardinalityType

-----------------------------------------------------------------------------
\* Data

LEMMA ListTypes ==
  ASSUME DataInv, NEW c \in Callers
  PROVE  /\ IsWork(work[c])
         /\ step[c] \in Steps
         /\ listed[c] \in Seq(Blocks) /\ Len(listed[c]) \in Nat
         /\ DOMAIN listed[c] = 1..Len(listed[c])
         /\ next[c] \in Nat /\ seen[c] \in Nat
         /\ fetch[c] \in Fetches
         /\ told[c] \in Seq(Reports) /\ Len(told[c]) \in Nat
         /\ signed[c] \in Seq(Range(signed[c])) /\ Len(signed[c]) \in Nat
         /\ DOMAIN signed[c] = 1..Len(signed[c])
         /\ attempt[c] \in 0..Retries
  <1>1. IsWork(work[c])
    BY ConstantsAssumption DEF DataInv
  <1>2. signed[c] \in Seq(Range(signed[c]))
    BY DEF DataInv
  <1>3. Len(signed[c]) \in Nat /\ DOMAIN signed[c] = 1..Len(signed[c])
    BY <1>2
  <1>4. listed[c] \in Seq(Blocks) /\ told[c] \in Seq(Reports)
    BY DEF DataInv
  <1>5. /\ Len(listed[c]) \in Nat /\ DOMAIN listed[c] = 1..Len(listed[c])
        /\ Len(told[c]) \in Nat
    BY <1>4
  <1>6. QED
    BY <1>1, <1>2, <1>3, <1>4, <1>5 DEF DataInv

\* The chain does not change below its head.
LEMMA SameItems ==
  ASSUME ledger' = ledger
  PROVE  Txs' = Txs /\ Items' = Items /\ Blocks' = Blocks /\ Fetches' = Fetches
  <1>1. Txs' = Txs
    BY DEF Txs
  <1>2. Items' = Items
    BY <1>1 DEF Items
  <1>3. QED
    BY <1>1, <1>2 DEF Blocks, Fetches

LEMMA LedgerBlock ==
  ASSUME DataInv, NEW h \in 1..Len(ledger), ledger[h] # Skipped
  PROVE  /\ h \in DOMAIN ledger
         /\ IsBlock(ledger[h])
         /\ Range(ledger[h]) \subseteq Txs
         /\ ledger[h] \in Seq(Txs) /\ Len(ledger[h]) \in Nat
         /\ DOMAIN ledger[h] = 1..Len(ledger[h])
  <1>1. ledger \in Seq(Range(ledger)) /\ \A txs \in Range(ledger) \ {Skipped} : IsBlock(txs)
    BY ConstantsAssumption DEF DataInv
  <1>2. h \in DOMAIN ledger /\ ledger[h] \in Range(ledger)
    BY <1>1 DEF Range
  <1>3. IsBlock(ledger[h])
    BY <1>1, <1>2
  <1>4. Range(ledger[h]) \subseteq Txs
    BY <1>2 DEF Txs
  <1>5. ledger[h] \in Seq(Range(ledger[h]))
    BY <1>3 DEF IsBlock
  <1>6. QED
    BY <1>2, <1>3, <1>4, <1>5

LEMMA LedgerLength ==
  ASSUME DataInv
  PROVE  Len(ledger) \in Nat /\ DOMAIN ledger = 1..Len(ledger) /\ head \in Nat /\ head <= Len(ledger)
  <1>1. ledger \in Seq(Range(ledger))
    BY ConstantsAssumption DEF DataInv
  <1>2. Len(ledger) \in Nat /\ DOMAIN ledger = 1..Len(ledger)
    BY <1>1
  <1>3. QED
    BY <1>2 DEF DataInv

LEMMA HydratedIs ==
  ASSUME NEW tx, NEW t
  PROVE  Hydrated(tx, t).hash = tx.id /\ Hydrated(tx, t).whole = TRUE
  BY DEF Hydrated

LEMMA HashOnlyIs ==
  ASSUME NEW tx
  PROVE  HashOnly(tx).hash = tx.id /\ HashOnly(tx).whole = FALSE
  BY DEF HashOnly

\* A block of bare hashes is whole.
LEMMA HashesAreWhole ==
  ASSUME NEW txs \in Seq(Txs)
  PROVE  Hashes(txs) \in Seq(Items) /\ Whole(Hashes(txs), txs)
  <1> DEFINE n == Len(txs)
  <1>1. n \in Nat /\ DOMAIN txs = 1..n /\ \A i \in 1..n : txs[i] \in Txs
    OBVIOUS
  <1>2. Hashes(txs) = [i \in 1..n |-> HashOnly(txs[i])]
    BY <1>1 DEF Hashes
  <1>3. \A i \in 1..n : HashOnly(txs[i]) \in Items
    BY <1>1 DEF Items, ItemsOf
  <1>4. Hashes(txs) \in Seq(Items) /\ Len(Hashes(txs)) = n /\ DOMAIN Hashes(txs) = 1..n
    BY <1>1, <1>2, <1>3
  <1>5. HashesOf(Hashes(txs)) = {txs[k].id : k \in DOMAIN txs}
    <2>1. \A k \in 1..n : Hashes(txs)[k].hash = txs[k].id
      BY <1>2, HashOnlyIs
    <2>2. QED
      BY <1>1, <1>4, <2>1 DEF HashesOf
  <1>6. \A k, l \in 1..n : Hashes(txs)[k].whole = Hashes(txs)[l].whole
    <2>1. \A k \in 1..n : Hashes(txs)[k].whole = FALSE
      BY <1>2, HashOnlyIs
    <2>2. QED
      BY <2>1
  <1>7. \A k \in 1..n : \E tx \in Range(txs) : Hashes(txs)[k] \in ItemsOf(tx)
    BY <1>1, <1>2 DEF ItemsOf, Range
  <1>8. QED
    BY <1>4, <1>5, <1>6, <1>7 DEF Whole

\* So is one transaction in full.
LEMMA OneIsWhole ==
  ASSUME NEW txs \in Seq(Txs), Len(txs) = 1, NEW t \in parseTransactionResult(txs[1])
  PROVE  <<Hydrated(txs[1], t)>> \in Seq(Items) /\ Whole(<<Hydrated(txs[1], t)>>, txs)
  <1> DEFINE x == Hydrated(txs[1], t)
  <1>1. DOMAIN txs = {1} /\ txs[1] \in Txs /\ txs[1] \in Range(txs)
    BY DEF Range
  <1>2. x \in ItemsOf(txs[1]) /\ x \in Items
    BY <1>1 DEF Items, ItemsOf
  <1>3. x.hash = txs[1].id
    BY HydratedIs
  <1> HIDE DEF x
  <1>4. <<x>> \in Seq(Items) /\ Len(<<x>>) = 1 /\ DOMAIN <<x>> = {1} /\ <<x>>[1] = x
    BY <1>2
  <1>5. HashesOf(<<x>>) = {txs[k].id : k \in DOMAIN txs}
    BY <1>1, <1>3, <1>4 DEF HashesOf
  <1>6. QED
    BY <1>1, <1>2, <1>4, <1>5 DEF Whole, x

-----------------------------------------------------------------------------
\* Steps

\* A step leaves the callers it is not about as they are, while the chain goes
\* on and the node takes transactions.
LEMMA OthersKeep ==
  ASSUME IInv, NEW d \in Callers,
         UNCHANGED <<work, ledger>>,
         step'[d] = step[d], listed'[d] = listed[d], next'[d] = next[d],
         fetch'[d] = fetch[d], failed'[d] = failed[d], seen'[d] = seen[d],
         signed'[d] = signed[d], told'[d] = told[d],
         head' \in Nat, head <= head', known \subseteq known'
  PROVE  CallerInv(d)'
  <1>1. CallerInv(d)
    BY DEF IInv
  <1>2. Progress(d)' /\ Counted(fetch[d])'
    BY <1>1 DEF CallerInv, Progress, Counted, At
  <1>3. FetchInv(d)'
    BY <1>1 DEF CallerInv, FetchInv
  <1>4. RangeInv(d)'
    <2>1. seen[d] <= head'
      <3>1. seen[d] <= head /\ seen[d] \in Nat /\ head \in Nat
        BY <1>1, ListTypes, LedgerLength DEF IInv, CallerInv, RangeInv
      <3>2. QED
        BY <3>1
    <2>2. QED
      BY <1>1, <2>1 DEF CallerInv, RangeInv
  <1>5. SignedInv(d)'
    <2>1. SignedInv(d)
      BY <1>1 DEF CallerInv
    <2>2. QED
      BY <2>1 DEF SignedInv, Verifies
  <1>6. QED
    BY <1>2, <1>3, <1>4, <1>5 DEF CallerInv

LEMMA StutterKeeps == ASSUME IInv, UNCHANGED vars PROVE IInv'
  <1>1. DataInv'
    BY SameItems DEF IInv, DataInv, vars, rangeVars, transferVars
  <1>2. \A d \in Callers : CallerInv(d)'
    BY OthersKeep, LedgerLength DEF IInv, vars, rangeVars, transferVars
  <1>3. QED
    BY <1>1, <1>2 DEF IInv

LEMMA FinalizeKeeps == ASSUME IInv, Finalize PROVE IInv'
  <1>1. head' \in 0..Len(ledger) /\ head' \in Nat /\ head <= head'
    BY LedgerLength DEF IInv, Finalize
  <1>2. DataInv'
    BY <1>1, SameItems DEF IInv, DataInv, Finalize, rangeVars, transferVars
  <1>3. \A d \in Callers : CallerInv(d)'
    BY <1>1, OthersKeep DEF Finalize, rangeVars, transferVars
  <1>4. QED
    BY <1>2, <1>3 DEF IInv

\* What one slot is listed with.
Entry(c, there, items) == [slot |-> next[c], there |-> there, txs |-> items]

\* Listing a slot, in either of the two places that do, leaves the list in
\* order and without a gap.
LEMMA ListKeepsRange ==
  ASSUME IInv, NEW c \in Callers, NEW there \in BOOLEAN, NEW items \in Seq(Items),
         List(c, there, items),
         UNCHANGED <<work, failed, ledger, head>>,
         step[c] \in {"range", "fetch"}, step'[c] \in {"range", "fetch"},
         seen[c] <= seen'[c], seen'[c] \in Nat, seen'[c] <= head,
         IF ~there THEN items = <<>>
         ELSE /\ next[c] \in 1..seen'[c]
              /\ ledger[next[c]] # Skipped
              /\ IF work[c].with THEN Whole(items, ledger[next[c]]) ELSE items = <<>>
  PROVE  /\ listed' \in [Callers -> Seq(Blocks)]
         /\ next' \in [Callers -> Nat]
         /\ RangeInv(c)'
  <1> DEFINE b == Entry(c, there, items)
             n == Len(listed[c])
  <1>1. /\ listed' = [listed EXCEPT ![c] = Append(@, b)]
        /\ next' = [next EXCEPT ![c] = @ + 1]
    BY DEF List, Entry
  <1>2. b.slot = next[c] /\ b.there = there /\ b.txs = items /\ b \in Blocks
    BY ListTypes DEF IInv, Entry, Blocks
  <1> HIDE DEF b
  <1>3. listed \in [Callers -> Seq(Blocks)] /\ next \in [Callers -> Nat]
    BY DEF IInv, DataInv
  <1>4. listed' \in [Callers -> Seq(Blocks)] /\ next' \in [Callers -> Nat]
    BY <1>1, <1>2, <1>3
  <1>5. listed'[c] = Append(listed[c], b) /\ next'[c] = next[c] + 1 /\ next[c] \in Nat
    BY <1>1, <1>3
  <1>6. /\ n \in Nat /\ DOMAIN listed[c] = 1..n /\ DOMAIN listed'[c] = 1..n+1
        /\ \A i \in 1..n : listed'[c][i] = listed[c][i] /\ listed[c][i].slot \in Nat
        /\ listed'[c][n+1] = b
    <2>1. listed[c] \in Seq(Blocks)
      BY <1>3
    <2>2. \A i \in 1..n : listed[c][i] \in Blocks
      BY <2>1
    <2>3. \A i \in 1..n : listed[c][i].slot \in Nat
      BY <2>2 DEF Blocks
    <2>4. QED
      BY <1>2, <1>5, <2>1, <2>3
  <1>7. RangeInv(c) /\ work[c].kind = "range" /\ work'[c] = work[c] /\ step'[c] # "done"
    BY DEF IInv, CallerInv, Progress
  <1> HIDE DEF n
  <1>8. ASSUME NEW i \in 1..n
        PROVE  /\ Shown(listed'[c][i], seen'[c], ledger, work[c].with)
               /\ listed'[c][i].slot < next'[c]
               /\ \A j \in 1..i-1 : listed'[c][j].slot < listed'[c][i].slot
    <2>1. /\ Shown(listed[c][i], seen[c], ledger, work[c].with)
          /\ listed[c][i].slot < next[c]
          /\ \A j \in 1..i-1 : listed[c][j].slot < listed[c][i].slot
      BY <1>6, <1>7 DEF RangeInv
    <2>2. Shown(listed'[c][i], seen'[c], ledger, work[c].with)
      <3>1. listed[c][i].slot \in 1..seen[c] => listed[c][i].slot \in 1..seen'[c]
        BY ListTypes DEF IInv
      <3>2. listed'[c][i] = listed[c][i]
        BY <1>6
      <3>3. QED
        BY <2>1, <3>1, <3>2 DEF Shown
    <2>3. listed[c][i].slot < next'[c]
      BY <1>5, <1>6, <2>1
    <2>4. \A j \in 1..i-1 : j \in 1..n
      BY <1>6
    <2>5. QED
      BY <1>6, <2>1, <2>2, <2>3, <2>4
  <1>9. /\ Shown(b, seen'[c], ledger, work[c].with)
        /\ b.slot < next'[c]
        /\ \A j \in 1..n : listed'[c][j].slot < b.slot
    <2>1. Shown(b, seen'[c], ledger, work[c].with)
      BY <1>2 DEF Shown
    <2>2. \A j \in 1..n : listed[c][j].slot < next[c]
      BY <1>6, <1>7 DEF RangeInv
    <2>3. QED
      BY <1>2, <1>5, <1>6, <2>1, <2>2
  <1>10. ASSUME NEW h \in work[c].first..next'[c]-1
         PROVE  \/ \E i \in DOMAIN listed'[c] : listed'[c][i].slot = h
                \/ h \in failed'[c]
                \/ h \in DOMAIN ledger /\ ledger[h] = Skipped
    <2>1. CASE h = next[c]
      BY <1>2, <1>6, <2>1
    <2>2. CASE h # next[c]
      <3>1. h \in work[c].first..next[c]-1
        BY <1>5, <2>2
      <3>2. \/ \E i \in DOMAIN listed[c] : listed[c][i].slot = h
            \/ h \in failed[c]
            \/ h \in DOMAIN ledger /\ ledger[h] = Skipped
        BY <1>7, <3>1 DEF RangeInv
      <3>3. ASSUME NEW i \in 1..n, listed[c][i].slot = h
            PROVE  i \in DOMAIN listed'[c] /\ listed'[c][i].slot = h
        BY <1>6, <3>3
      <3>4. DOMAIN listed[c] = 1..n /\ failed'[c] = failed[c]
        BY <1>6
      <3>5. QED
        BY <3>2, <3>3, <3>4
    <2>3. QED
      BY <2>1, <2>2
  <1>11. RangeInv(c)'
    <2>1. work[c].first <= next'[c]
      <3>1. work[c].first \in Nat /\ work[c].first <= next[c]
        BY <1>7, ListTypes DEF IInv, RangeInv, IsWork
      <3>2. QED
        BY <1>5, <3>1
    <2>2. ASSUME NEW i \in 1..n+1
          PROVE  /\ Shown(listed'[c][i], seen'[c], ledger, work[c].with)
                 /\ listed'[c][i].slot < next'[c]
                 /\ \A j \in 1..i-1 : listed'[c][j].slot < listed'[c][i].slot
      <3>1. CASE i \in 1..n
        BY <1>6, <1>8, <3>1
      <3>2. CASE i = n+1
        BY <1>6, <1>9, <3>2
      <3>3. QED
        BY <1>6, <3>1, <3>2
    <2>3. \A i \in DOMAIN listed'[c] :
             /\ Shown(listed'[c][i], seen'[c], ledger', work'[c].with)
             /\ listed'[c][i].slot < next'[c]
             /\ \A j \in 1..i-1 : listed'[c][j].slot < listed'[c][i].slot
      BY <1>6, <1>7, <2>2
    <2>4. QED
      BY <1>7, <1>10, <2>1, <2>3 DEF RangeInv
  <1>12. QED
    BY <1>4, <1>11

LEMMA ShownLater ==
  ASSUME NEW b, NEW u \in Nat, NEW v \in Nat, u <= v, NEW chain, NEW with, Shown(b, u, chain, with)
  PROVE  Shown(b, v, chain, with)
  <1>1. b.slot \in 1..u => b.slot \in 1..v
    OBVIOUS
  <1>2. QED
    BY <1>1 DEF Shown

\* A step of a caller that reads a range concerns its reading alone.
LEMMA ReadingKeeps ==
  ASSUME IInv, NEW c \in Callers,
         UNCHANGED <<work, transferVars, ledger, head, known>>,
         step[c] \in {"range", "fetch"},
         NEW s \in {"range", "fetch", "done", "error"}, step' = [step EXCEPT ![c] = s],
         s # "fetch" => fetch'[c] = NoFetch,
         listed' \in [Callers -> Seq(Blocks)], next' \in [Callers -> Nat],
         fetch' \in [Callers -> Fetches], seen' \in [Callers -> Nat],
         failed' = [d \in Callers |-> failed'[d]],
         \A d \in Callers \ {c} : /\ listed'[d] = listed[d] /\ next'[d] = next[d]
                                  /\ fetch'[d] = fetch[d] /\ seen'[d] = seen[d]
                                  /\ failed'[d] = failed[d],
         Counted(fetch'[c]), FetchInv(c)', RangeInv(c)'
  PROVE  IInv'
  <1>1. /\ step \in [Callers -> Steps] /\ step' \in [Callers -> Steps] /\ step'[c] = s
        /\ \A d \in Callers \ {c} : step'[d] = step[d]
    BY DEF IInv, DataInv, Steps
  <1>2. DataInv'
    BY <1>1, SameItems DEF IInv, DataInv, transferVars
  <1>3. ASSUME NEW d \in Callers \ {c}
        PROVE  CallerInv(d)'
    <2>1. head' \in Nat /\ head <= head'
      BY LedgerLength DEF IInv
    <2>2. /\ step'[d] = step[d] /\ listed'[d] = listed[d] /\ next'[d] = next[d]
          /\ fetch'[d] = fetch[d] /\ seen'[d] = seen[d] /\ failed'[d] = failed[d]
          /\ signed'[d] = signed[d] /\ told'[d] = told[d]
      BY <1>1 DEF transferVars
    <2>3. QED
      BY <2>1, <2>2, OthersKeep
  <1>4. CallerInv(c)'
    <2>1. Progress(c) /\ SignedInv(c)
      BY DEF IInv, CallerInv
    <2>2. Progress(c)'
      BY <1>1, <2>1 DEF Progress, transferVars
    <2>3. SignedInv(c)'
      BY <2>1 DEF SignedInv, Verifies, transferVars
    <2>4. QED
      BY <2>2, <2>3 DEF CallerInv
  <1>5. QED
    BY <1>2, <1>3, <1>4 DEF IInv

\* Without a fetch nothing is held.
LEMMA NoFetchIs ==
  NoFetch \in Fetches /\ Counted(NoFetch)
  <1>1. NoFetch \in Fetches
    <2>1. <<>> \in Seq(Txs) /\ <<>> \in Seq(Places) /\ <<>> \in Seq(0..maxRetries-1) /\ <<>> \in Seq(Items)
      OBVIOUS
    <2>2. QED
      BY <2>1 DEF NoFetch, Fetches
  <1>2. At(NoFetch, "in") = {} /\ At(NoFetch, "out") = {}
    BY DEF At, NoFetch
  <1>3. /\ NoFetch.held = 0 /\ Len(NoFetch.results) = 0 /\ NoFetch.errors = 0
        /\ NoFetch.at = <<>> /\ NoFetch.txs = <<>> /\ NoFetch.retry = <<>>
    BY DEF NoFetch
  <1>4. maxConcurrent \in Nat
    BY ConstantsAssumption
  <1>5. Cardinality({}) = 0
    BY FS_EmptySet
  <1>6. Counted(NoFetch)
    <2>1. Cardinality(At(NoFetch, "in")) = 0 /\ Cardinality(At(NoFetch, "out")) = 0
      BY <1>2, <1>5
    <2>2. Len(NoFetch.results) + NoFetch.errors = 0 /\ NoFetch.held <= maxConcurrent
      BY <1>3, <1>4
    <2>3. DOMAIN NoFetch.at = DOMAIN NoFetch.txs /\ DOMAIN NoFetch.retry = DOMAIN NoFetch.txs
      BY <1>3
    <2>4. QED
      BY <1>3, <2>1, <2>2, <2>3 DEF Counted
  <1>7. QED
    BY <1>1, <1>6

\* A fetch that begins has one goroutine for each transaction, none of which
\* holds a place.
Started(txs) == [NoFetch EXCEPT !.txs = txs, !.at = [i \in DOMAIN txs |-> "new"],
                                !.retry = [i \in DOMAIN txs |-> 0]]

LEMMA StartedIs ==
  ASSUME NEW txs \in Seq(Txs)
  PROVE  /\ Started(txs) \in Fetches /\ Started(txs).txs = txs
         /\ Counted(Started(txs)) /\ Collected(Started(txs))
  <1> DEFINE n == Len(txs)
             f == Started(txs)
  <1>1. n \in Nat /\ DOMAIN txs = 1..n
    OBVIOUS
  <1>2. /\ f.txs = txs /\ f.at = [i \in 1..n |-> "new"] /\ f.retry = [i \in 1..n |-> 0]
        /\ f.held = 0 /\ f.results = <<>> /\ f.errors = 0 /\ f.expired = FALSE
        /\ f = [txs |-> f.txs, at |-> f.at, retry |-> f.retry, held |-> f.held,
                results |-> f.results, errors |-> f.errors, expired |-> f.expired]
    <2>1. PICK no \in BOOLEAN : no = FALSE
      OBVIOUS
    <2>2. f = [txs |-> txs, at |-> [i \in 1..n |-> "new"], retry |-> [i \in 1..n |-> 0],
               held |-> 0, results |-> <<>>, errors |-> 0, expired |-> no]
      <3>1. NoFetch = [txs |-> <<>>, at |-> <<>>, retry |-> <<>>, held |-> 0,
                       results |-> <<>>, errors |-> 0, expired |-> no]
        BY <2>1 DEF NoFetch
      <3>2. PICK a, z : a = [i \in DOMAIN txs |-> "new"] /\ z = [i \in DOMAIN txs |-> 0]
        OBVIOUS
      <3>3. f = [NoFetch EXCEPT !.txs = txs, !.at = a, !.retry = z]
        BY <3>2 DEF Started
      <3>4. f = [txs |-> txs, at |-> a, retry |-> z, held |-> 0,
                 results |-> <<>>, errors |-> 0, expired |-> no]
        BY <3>1, <3>3
      <3>5. QED
        BY <1>1, <3>2, <3>4
    <2> HIDE DEF f
    <2>3. f.expired = no
      BY <2>2
    <2>4. QED
      BY <2>1, <2>2, <2>3
  <1> HIDE DEF f
  <1>3. f \in Fetches
    <2>1. f.at \in [1..n -> Places] /\ f.retry \in [1..n -> 0..maxRetries-1]
      BY <1>2 DEF Places, maxRetries
    <2>2. f.at \in Seq(Places) /\ f.retry \in Seq(0..maxRetries-1) /\ f.results \in Seq(Items)
      BY <1>1, <1>2, <2>1
    <2>3. f.held \in Nat /\ f.errors \in Nat
      BY <1>2
    <2>4. f.expired \in BOOLEAN
      BY <1>2, Zenon
    <2>5. QED
      BY <1>2, <2>2, <2>3, <2>4 DEF Fetches
  <1>4. At(f, "in") = {} /\ At(f, "out") = {}
    BY <1>2 DEF At
  <1>5. Counted(f)
    <2>1. maxConcurrent \in Nat
      BY ConstantsAssumption
    <2>2. DOMAIN f.at = DOMAIN f.txs /\ DOMAIN f.retry = DOMAIN f.txs /\ Len(f.results) = 0
      BY <1>1, <1>2
    <2>3. Cardinality({}) = 0
      BY FS_EmptySet
    <2>4. Cardinality(At(f, "in")) = 0 /\ Cardinality(At(f, "out")) = 0
      BY <1>4, <2>3
    <2>5. Len(f.results) + f.errors = 0 /\ f.held <= maxConcurrent
      BY <1>2, <2>1, <2>2
    <2>6. QED
      BY <1>2, <2>2, <2>4, <2>5 DEF Counted
  <1>6. Collected(f)
    BY <1>2, <1>4 DEF Collected, HashesOf
  <1>7. QED
    BY <1>2, <1>3, <1>5, <1>6 DEF f

-----------------------------------------------------------------------------
\* GetBatchBlock

\* A slot that is passed over, or is only about to be read, leaves the list.
LEMMA PassKeepsRange ==
  ASSUME IInv, NEW c \in Callers, work[c].kind = "range",
         UNCHANGED <<work, ledger, head>>, listed'[c] = listed[c],
         seen'[c] = head, failed[c] \subseteq failed'[c],
         \/ next'[c] = next[c]
         \/ next'[c] = next[c] + 1 /\ next[c] \in failed'[c],
         step'[c] = "done" => work[c].last < next'[c]
  PROVE  RangeInv(c)'
  <1>1. /\ RangeInv(c) /\ next[c] \in Nat /\ seen[c] \in Nat /\ head \in Nat
        /\ work[c].first \in Nat
        /\ DOMAIN listed[c] = 1..Len(listed[c]) /\ listed[c] \in Seq(Blocks)
    BY ListTypes, LedgerLength DEF IInv, CallerInv, IsWork
  <1>2. next'[c] \in Nat /\ next[c] <= next'[c] /\ work[c].first <= next'[c]
    <2>1. work[c].first <= next[c]
      BY <1>1 DEF RangeInv
    <2>2. QED
      BY <1>1, <2>1
  <1>3. ASSUME NEW i \in DOMAIN listed[c]
        PROVE  /\ Shown(listed[c][i], head, ledger, work[c].with)
               /\ listed[c][i].slot < next'[c]
               /\ \A j \in 1..i-1 : listed[c][j].slot < listed[c][i].slot
    <2>1. /\ Shown(listed[c][i], seen[c], ledger, work[c].with)
          /\ listed[c][i].slot < next[c]
          /\ \A j \in 1..i-1 : listed[c][j].slot < listed[c][i].slot
          /\ seen[c] <= head
      BY <1>1 DEF RangeInv
    <2>2. listed[c][i].slot \in Nat
      <3>1. listed[c][i] \in Blocks
        BY <1>1
      <3>2. QED
        BY <3>1 DEF Blocks
    <2>3. QED
      BY <1>1, <1>2, <2>1, <2>2, ShownLater
  <1>4. ASSUME NEW h \in work[c].first..next'[c]-1
        PROVE  \/ \E i \in DOMAIN listed[c] : listed[c][i].slot = h
               \/ h \in failed'[c]
               \/ h \in DOMAIN ledger /\ ledger[h] = Skipped
    <2>1. CASE h \in work[c].first..next[c]-1
      BY <1>1, <2>1 DEF RangeInv
    <2>2. CASE h \notin work[c].first..next[c]-1
      BY <1>1, <1>2, <2>2
    <2>3. QED
      BY <2>1, <2>2
  <1>5. QED
    BY <1>1, <1>2, <1>3, <1>4 DEF RangeInv

LEMMA BatchBlockKeeps ==
  ASSUME IInv, NEW c \in Callers, GetBatchBlock(c)
  PROVE  IInv'
  <1>1. /\ step[c] = "range" /\ work[c].kind = "range"
        /\ fetch[c] = NoFetch /\ UNCHANGED <<work, transferVars, ledger, head, known>>
    BY DEF IInv, CallerInv, Progress, GetBatchBlock
  <1>2. /\ work[c].first \in Nat \ {0} /\ work[c].last \in Nat /\ work[c].with \in BOOLEAN
        /\ next[c] \in Nat \ {0} /\ seen[c] \in Nat /\ seen[c] <= head
        /\ head \in Nat /\ head <= Len(ledger) /\ Len(ledger) \in Nat
    <2>1. /\ work[c].first \in Nat \ {0} /\ work[c].last \in Nat /\ work[c].with \in BOOLEAN
          /\ next[c] \in Nat /\ seen[c] \in Nat
      BY <1>1, ListTypes DEF IInv, IsWork
    <2>2. work[c].first <= next[c] /\ seen[c] <= head
      BY <1>1 DEF IInv, CallerInv, RangeInv
    <2>3. QED
      BY <2>1, <2>2, LedgerLength DEF IInv
  <1>3. /\ seen' = [seen EXCEPT ![c] = head] /\ seen' \in [Callers -> Nat] /\ seen'[c] = head
        /\ \A d \in Callers \ {c} : seen'[d] = seen[d]
    BY <1>2 DEF IInv, DataInv, GetBatchBlock
  <1>4. /\ listed \in [Callers -> Seq(Blocks)] /\ next \in [Callers -> Nat]
        /\ fetch \in [Callers -> Fetches] /\ failed = [d \in Callers |-> failed[d]]
        /\ step \in [Callers -> Steps]
    BY DEF IInv, DataInv
  <1>5. ASSUME NEW s \in {"range", "done", "error"}, Ends(c, s), UNCHANGED fetch
        PROVE  /\ step' = [step EXCEPT ![c] = s] /\ step'[c] = s
               /\ s # "fetch" /\ fetch'[c] = NoFetch /\ fetch' \in [Callers -> Fetches]
               /\ Counted(fetch'[c]) /\ FetchInv(c)'
    BY <1>1, <1>4, <1>5, NoFetchIs DEF Ends, FetchInv
  \* the end of the range
  <1>6. ASSUME next[c] > work[c].last, UNCHANGED <<listed, next, fetch, failed>>,
               Ends(c, IF work[c].first > work[c].last THEN "error" ELSE "done")
        PROVE  IInv'
    <2>1. PICK s \in {"done", "error"} : Ends(c, s)
      BY <1>6
    <2>2. RangeInv(c)'
      BY <1>1, <1>2, <1>3, <1>6, PassKeepsRange
    <2>3. QED
      BY <1>1, <1>3, <1>4, <1>5, <1>6, <2>1, <2>2, ReadingKeeps
  \* an error for the slot
  <1>7. ASSUME PassOver(c), UNCHANGED <<step, listed, fetch>>
        PROVE  IInv'
    <2>1. /\ next' = [next EXCEPT ![c] = @ + 1] /\ next' \in [Callers -> Nat]
          /\ next'[c] = next[c] + 1
          /\ \A d \in Callers \ {c} : next'[d] = next[d]
      BY <1>4, <1>7 DEF PassOver
    <2>2. /\ failed' = [d \in Callers |-> failed'[d]] /\ failed'[c] = failed[c] \cup {next[c]}
          /\ \A d \in Callers \ {c} : failed'[d] = failed[d]
      BY <1>4, <1>7 DEF PassOver
    <2>3. RangeInv(c)'
      BY <1>1, <1>3, <1>7, <2>1, <2>2, PassKeepsRange
    <2>4. step' = [step EXCEPT ![c] = "range"]
      BY <1>1, <1>4, <1>7
    <2>5. Ends(c, "range")
      BY <2>4 DEF Ends
    <2>6. QED
      BY <1>1, <1>3, <1>4, <1>5, <1>7, <2>1, <2>2, <2>3, <2>5, ReadingKeeps
  \* an answer that is listed at once
  <1>8. ASSUME NEW there \in BOOLEAN, NEW items \in Seq(Items), List(c, there, items),
               UNCHANGED <<step, fetch, failed>>, next[c] <= work[c].last,
               IF ~there THEN items = <<>>
               ELSE /\ next[c] \in 1..head
                    /\ ledger[next[c]] # Skipped
                    /\ IF work[c].with THEN Whole(items, ledger[next[c]]) ELSE items = <<>>
        PROVE  IInv'
    <2>1. step' = [step EXCEPT ![c] = "range"]
      BY <1>1, <1>4, <1>8
    <2>2. Ends(c, "range")
      BY <2>1 DEF Ends
    <2>3. /\ listed' \in [Callers -> Seq(Blocks)] /\ next' \in [Callers -> Nat]
          /\ RangeInv(c)'
      BY <1>1, <1>2, <1>3, <1>8, ListKeepsRange
    <2>4. \A d \in Callers \ {c} : listed'[d] = listed[d] /\ next'[d] = next[d]
      BY <1>4, <1>8 DEF List
    <2>5. QED
      BY <1>1, <1>3, <1>4, <1>5, <1>8, <2>2, <2>3, <2>4, ReadingKeeps
  <1>9. next[c] > head \/ ~(next[c] > head)
    OBVIOUS
  \* a block with its transactions
  <1>10. ASSUME next[c] <= work[c].last, next[c] <= head, ledger[next[c]] # Skipped, work[c].with,
                parseBlockTransactions(c, ledger[next[c]]), UNCHANGED failed
         PROVE  IInv'
    <2> DEFINE txs == ledger[next[c]]
    <2>1. next[c] \in 1..head /\ next[c] \in 1..Len(ledger)
      BY <1>2, <1>10
    <2>2. txs \in Seq(Txs)
      BY <1>10, <2>1, LedgerBlock DEF IInv
    <2>3. ASSUME List(c, TRUE, Hashes(txs)), UNCHANGED <<fetch, step>>
          PROVE  IInv'
      BY <1>8, <1>10, <2>1, <2>2, <2>3, HashesAreWhole
    <2>4. ASSUME NEW t \in parseTransactionResult(txs[1]), Len(txs) = 1,
                 List(c, TRUE, <<Hydrated(txs[1], t)>>), UNCHANGED <<fetch, step>>
          PROVE  IInv'
      BY <1>8, <1>10, <2>1, <2>2, <2>4, OneIsWhole
    <2>5. ASSUME fetch' = [fetch EXCEPT ![c] = Started(txs)], Ends(c, "fetch"),
                 UNCHANGED <<listed, next>>
          PROVE  IInv'
      <3>1. /\ Started(txs) \in Fetches /\ Started(txs).txs = txs
            /\ Counted(Started(txs)) /\ Collected(Started(txs))
        BY <2>2, StartedIs
      <3>2. /\ fetch' \in [Callers -> Fetches] /\ fetch'[c] = Started(txs)
            /\ \A d \in Callers \ {c} : fetch'[d] = fetch[d]
        BY <1>4, <2>5, <3>1
      <3>3. step' = [step EXCEPT ![c] = "fetch"] /\ step'[c] = "fetch"
        BY <1>4, <2>5 DEF Ends
      <3>4. FetchInv(c)'
        BY <1>1, <1>3, <1>10, <2>1, <2>5, <3>1, <3>2 DEF FetchInv
      <3>5. RangeInv(c)'
        BY <1>1, <1>3, <1>10, <2>5, <3>3, PassKeepsRange
      <3>6. QED
        BY <1>1, <1>3, <1>4, <1>10, <2>5, <3>1, <3>2, <3>3, <3>4, <3>5, ReadingKeeps
    <2>6. QED
      BY <1>10, <2>3, <2>4, <2>5 DEF parseBlockTransactions, Started
  <1>11. QED
    <2>1. "null" \in GetBlockBySlot(next[c]) => next[c] > head
      BY <1>2 DEF GetBlockBySlot
    <2>2. "block" \in GetBlockBySlot(next[c]) => next[c] <= head /\ ledger[next[c]] # Skipped
      BY <1>2 DEF GetBlockBySlot
    <2>3. \/ /\ next[c] > work[c].last
             /\ Ends(c, IF work[c].first > work[c].last THEN "error" ELSE "done")
             /\ UNCHANGED <<listed, next, fetch, failed>>
          \/ PassOver(c) /\ UNCHANGED <<step, listed, fetch>>
          \/ /\ next[c] <= work[c].last /\ "null" \in GetBlockBySlot(next[c])
             /\ List(c, FALSE, <<>>) /\ UNCHANGED <<step, fetch, failed>>
          \/ /\ next[c] <= work[c].last /\ "block" \in GetBlockBySlot(next[c])
             /\ work[c].with /\ parseBlockTransactions(c, ledger[next[c]]) /\ UNCHANGED failed
          \/ /\ next[c] <= work[c].last /\ "block" \in GetBlockBySlot(next[c])
             /\ ~work[c].with /\ List(c, TRUE, <<>>) /\ UNCHANGED <<step, fetch, failed>>
      BY DEF GetBatchBlock
    <2>4. <<>> \in Seq(Items)
      OBVIOUS
    <2>5. ASSUME next[c] <= work[c].last, List(c, FALSE, <<>>), UNCHANGED <<step, fetch, failed>>
          PROVE  IInv'
      BY <1>8, <2>4, <2>5
    <2>6. ASSUME next[c] <= work[c].last, next[c] <= head, ledger[next[c]] # Skipped,
                 ~work[c].with, List(c, TRUE, <<>>), UNCHANGED <<step, fetch, failed>>
          PROVE  IInv'
      <3>1. next[c] \in 1..head
        BY <1>2, <2>6
      <3>2. QED
        BY <1>8, <2>4, <2>6, <3>1
    <2>7. QED
      BY <1>6, <1>7, <1>10, <2>1, <2>2, <2>3, <2>5, <2>6

-----------------------------------------------------------------------------
\* GetTransactionRange

\* A fetch of which one goroutine moved.
Moved(f, at, held, results, errors) ==
    [txs |-> f.txs, at |-> at, retry |-> f.retry, held |-> held,
     results |-> results, errors |-> errors, expired |-> f.expired]

LEMMA FetchIs ==
  ASSUME NEW f \in Fetches
  PROVE  /\ f.txs \in Seq(Txs) /\ Len(f.txs) \in Nat /\ DOMAIN f.txs = 1..Len(f.txs)
         /\ f.at \in Seq(Places) /\ f.retry \in Seq(0..maxRetries-1)
         /\ f.held \in Nat /\ f.errors \in Nat
         /\ f.results \in Seq(Items) /\ Len(f.results) \in Nat
         /\ DOMAIN f.results = 1..Len(f.results)
  <1>1. /\ f.txs \in Seq(Txs) /\ f.results \in Seq(Items)
        /\ f.at \in Seq(Places) /\ f.retry \in Seq(0..maxRetries-1)
        /\ f.held \in Nat /\ f.errors \in Nat
    BY DEF Fetches
  <1>2. QED
    BY <1>1

LEMMA MovedIs ==
  ASSUME NEW f \in Fetches, NEW at \in Seq(Places), NEW held \in Nat,
         NEW results \in Seq(Items), NEW errors \in Nat
  PROVE  Moved(f, at, held, results, errors) \in Fetches
  BY DEF Moved, Fetches

\* Counting the goroutines in one place, when one of them enters or leaves it.
LEMMA OneMoves ==
  ASSUME NEW f \in Fetches, DOMAIN f.at = DOMAIN f.txs, NEW i \in DOMAIN f.at,
         NEW g, NEW place \in Places, NEW where \in Places, f.at[i] # place,
         g.at = [f.at EXCEPT ![i] = place]
  PROVE  /\ Cardinality(At(f, where)) \in Nat
         /\ At(g, where) = IF where = place THEN At(f, where) \cup {i}
                           ELSE At(f, where) \ {i}
         /\ Cardinality(At(g, where)) =
              IF where = place THEN Cardinality(At(f, where)) + 1
              ELSE IF where = f.at[i] THEN Cardinality(At(f, where)) - 1
              ELSE Cardinality(At(f, where))
  <1>1. DOMAIN f.at = 1..Len(f.txs) /\ Len(f.txs) \in Nat
    BY FetchIs
  <1>2. IsFiniteSet(At(f, where)) /\ Cardinality(At(f, where)) \in Nat
    <2>1. At(f, where) \in SUBSET (1..Len(f.txs))
      BY <1>1 DEF At
    <2>2. QED
      BY <1>1, <2>1, PartIsFinite
  <1>3. DOMAIN g.at = DOMAIN f.at /\ \A j \in DOMAIN f.at : g.at[j] = IF j = i THEN place ELSE f.at[j]
    BY <1>1
  <1>4. At(g, where) = IF where = place THEN At(f, where) \cup {i} ELSE At(f, where) \ {i}
    BY <1>3 DEF At
  <1>5. i \in At(f, where) <=> where = f.at[i]
    BY DEF At
  <1>6. /\ Cardinality(At(f, where) \cup {i}) =
             IF i \in At(f, where) THEN Cardinality(At(f, where)) ELSE Cardinality(At(f, where)) + 1
        /\ Cardinality(At(f, where) \ {i}) =
             IF i \in At(f, where) THEN Cardinality(At(f, where)) - 1 ELSE Cardinality(At(f, where))
    BY <1>2, FS_AddElement, FS_RemoveElement
  <1>7. QED
    BY <1>2, <1>4, <1>5, <1>6

\* A sequence of places in which one is another.
LEMMA PlaceSet ==
  ASSUME NEW at \in Seq(Places), NEW i \in DOMAIN at, NEW place \in Places
  PROVE  [at EXCEPT ![i] = place] \in Seq(Places) /\ DOMAIN [at EXCEPT ![i] = place] = DOMAIN at
  OBVIOUS

\* A goroutine takes a place of the semaphore.
LEMMA AcquireMoves ==
  ASSUME NEW f \in Fetches, Counted(f), Collected(f), NEW i \in DOMAIN f.at,
         f.at[i] = "new", f.held < maxConcurrent,
         NEW g, g = Moved(f, [f.at EXCEPT ![i] = "in"], f.held + 1, f.results, f.errors)
  PROVE  g \in Fetches /\ g.txs = f.txs /\ Counted(g) /\ Collected(g)
  <1>1. /\ f.at \in Seq(Places) /\ f.held \in Nat /\ f.errors \in Nat /\ f.results \in Seq(Items)
        /\ f.held + 1 \in Nat
    BY FetchIs
  <1>2. [f.at EXCEPT ![i] = "in"] \in Seq(Places) /\ DOMAIN [f.at EXCEPT ![i] = "in"] = DOMAIN f.at
    BY <1>1, PlaceSet DEF Places
  <1>3. /\ g \in Fetches /\ g.txs = f.txs /\ g.at = [f.at EXCEPT ![i] = "in"] /\ g.retry = f.retry
        /\ g.held = f.held + 1 /\ g.results = f.results /\ g.errors = f.errors
    <2>1. g \in Fetches
      BY <1>1, <1>2, MovedIs
    <2>2. QED
      BY <2>1 DEF Moved
  <1>4. DOMAIN f.at = DOMAIN f.txs /\ DOMAIN f.retry = DOMAIN f.txs
    BY DEF Counted
  <1>5. /\ Cardinality(At(f, "in")) \in Nat
        /\ Cardinality(At(g, "in")) = Cardinality(At(f, "in")) + 1
        /\ Cardinality(At(g, "out")) = Cardinality(At(f, "out"))
        /\ At(g, "out") = At(f, "out") \ {i}
    <2>1. /\ "in" \in Places /\ "out" \in Places /\ f.at[i] # "in" /\ f.at[i] # "out"
          /\ g.at = [f.at EXCEPT ![i] = "in"]
      BY <1>3 DEF Places
    <2>2. /\ Cardinality(At(f, "in")) \in Nat
          /\ Cardinality(At(g, "in")) = Cardinality(At(f, "in")) + 1
      BY <1>4, <2>1, OneMoves
    <2>3. /\ Cardinality(At(g, "out")) = Cardinality(At(f, "out"))
          /\ At(g, "out") = At(f, "out") \ {i}
      BY <1>4, <2>1, OneMoves
    <2>4. QED
      BY <2>2, <2>3
  <1>6. At(g, "out") = At(f, "out")
    BY <1>5 DEF At
  <1>7. g.held <= maxConcurrent
    BY <1>1, <1>3, ConstantsAssumption
  <1>8. Counted(g)
    BY <1>2, <1>3, <1>4, <1>5, <1>7 DEF Counted
  <1>9. Collected(g)
    BY <1>3, <1>6 DEF Collected
  <1>10. QED
    BY <1>3, <1>8, <1>9

\* It gives the place back with an error.
LEMMA FailMoves ==
  ASSUME NEW f \in Fetches, Counted(f), Collected(f), NEW i \in DOMAIN f.at, f.at[i] = "in",
         NEW g, g = Moved(f, [f.at EXCEPT ![i] = "out"], f.held - 1, f.results, f.errors + 1)
  PROVE  g \in Fetches /\ g.txs = f.txs /\ Counted(g) /\ Collected(g)
  <1>1. /\ f.at \in Seq(Places) /\ f.held \in Nat /\ f.errors \in Nat /\ f.results \in Seq(Items)
        /\ Len(f.results) \in Nat /\ f.errors + 1 \in Nat /\ f.errors + 1 # 0
    BY FetchIs
  <1>2. [f.at EXCEPT ![i] = "out"] \in Seq(Places) /\ DOMAIN [f.at EXCEPT ![i] = "out"] = DOMAIN f.at
    BY <1>1, PlaceSet DEF Places
  <1>3. DOMAIN f.at = DOMAIN f.txs /\ DOMAIN f.retry = DOMAIN f.txs
    BY DEF Counted
  <1>4. DOMAIN f.at = 1..Len(f.txs) /\ Len(f.txs) \in Nat
    BY <1>3, FetchIs
  <1>5. f.held # 0
    <2>1. At(f, "in") \in SUBSET (1..Len(f.txs)) /\ i \in At(f, "in")
      BY <1>4 DEF At
    <2>2. IsFiniteSet(At(f, "in")) /\ Cardinality(At(f, "in")) # 0
      BY <1>4, <2>1, PartIsFinite, FS_EmptySet
    <2>3. QED
      BY <2>2 DEF Counted
  <1>6. f.held - 1 \in Nat
    BY <1>1, <1>5
  <1>7. /\ g \in Fetches /\ g.txs = f.txs /\ g.at = [f.at EXCEPT ![i] = "out"] /\ g.retry = f.retry
        /\ g.held = f.held - 1 /\ g.results = f.results /\ g.errors = f.errors + 1
    <2>1. g \in Fetches
      BY <1>1, <1>2, <1>6, MovedIs
    <2>2. QED
      BY <2>1 DEF Moved
  <1>8. /\ Cardinality(At(f, "out")) \in Nat
        /\ Cardinality(At(g, "in")) = Cardinality(At(f, "in")) - 1
        /\ Cardinality(At(g, "out")) = Cardinality(At(f, "out")) + 1
    <2>1. /\ "in" \in Places /\ "out" \in Places /\ f.at[i] # "out"
          /\ g.at = [f.at EXCEPT ![i] = "out"]
      BY <1>7 DEF Places
    <2>2. Cardinality(At(g, "in")) = Cardinality(At(f, "in")) - 1
      BY <1>3, <2>1, OneMoves
    <2>3. /\ Cardinality(At(f, "out")) \in Nat
          /\ Cardinality(At(g, "out")) = Cardinality(At(f, "out")) + 1
      BY <1>3, <2>1, OneMoves
    <2>4. QED
      BY <2>2, <2>3
  <1>9. Len(g.results) + g.errors = Cardinality(At(g, "out"))
    <2>1. Len(f.results) + f.errors = Cardinality(At(f, "out"))
      BY DEF Counted
    <2>2. QED
      BY <1>1, <1>7, <1>8, <2>1
  <1>10. g.held = Cardinality(At(g, "in")) /\ g.held <= maxConcurrent
    <2>1. f.held = Cardinality(At(f, "in")) /\ f.held <= maxConcurrent
      BY DEF Counted
    <2>2. QED
      BY <1>1, <1>7, <1>8, <2>1, ConstantsAssumption
  <1>11. Counted(g)
    BY <1>2, <1>3, <1>7, <1>9, <1>10 DEF Counted
  <1>12. Collected(g)
    BY <1>1, <1>7 DEF Collected
  <1>13. QED
    BY <1>7, <1>11, <1>12

\* It gives the place back with a result.
LEMMA SucceedMoves ==
  ASSUME NEW f \in Fetches, Counted(f), Collected(f), NEW i \in DOMAIN f.at, f.at[i] = "in",
         NEW t \in parseTransactionResult(f.txs[i]), NEW g,
         g = Moved(f, [f.at EXCEPT ![i] = "out"], f.held - 1,
                   Append(f.results, Hydrated(f.txs[i], t)), f.errors)
  PROVE  g \in Fetches /\ g.txs = f.txs /\ Counted(g) /\ Collected(g)
  <1> DEFINE x == Hydrated(f.txs[i], t)
             m == Len(f.results)
  <1>1. /\ f.at \in Seq(Places) /\ f.held \in Nat /\ f.errors \in Nat /\ f.results \in Seq(Items)
        /\ m \in Nat /\ DOMAIN f.results = 1..m
    BY FetchIs
  <1>2. [f.at EXCEPT ![i] = "out"] \in Seq(Places) /\ DOMAIN [f.at EXCEPT ![i] = "out"] = DOMAIN f.at
    BY <1>1, PlaceSet DEF Places
  <1>3. DOMAIN f.at = DOMAIN f.txs /\ DOMAIN f.retry = DOMAIN f.txs
    BY DEF Counted
  <1>4. DOMAIN f.at = 1..Len(f.txs) /\ Len(f.txs) \in Nat
    BY <1>3, FetchIs
  <1>5. f.held # 0
    <2>1. At(f, "in") \in SUBSET (1..Len(f.txs)) /\ i \in At(f, "in")
      BY <1>4 DEF At
    <2>2. IsFiniteSet(At(f, "in")) /\ Cardinality(At(f, "in")) # 0
      BY <1>4, <2>1, PartIsFinite, FS_EmptySet
    <2>3. QED
      BY <2>2 DEF Counted
  <1>6. f.held - 1 \in Nat
    BY <1>1, <1>5
  <1>7. f.txs[i] \in Txs /\ f.txs[i] \in Range(f.txs)
    BY <1>3, FetchIs DEF Range
  <1>8. x \in Items /\ x \in Results(f.txs) /\ x.hash = f.txs[i].id
    <2>1. x \in Items
      BY <1>7 DEF Items, ItemsOf
    <2>2. x \in Results(f.txs)
      BY <1>7 DEF Results
    <2>3. QED
      BY <2>1, <2>2, HydratedIs
  <1> HIDE DEF x, m
  <1>9. /\ Append(f.results, x) \in Seq(Items) /\ Len(Append(f.results, x)) = m + 1
        /\ DOMAIN Append(f.results, x) = 1..m+1
        /\ \A k \in 1..m : Append(f.results, x)[k] = f.results[k]
        /\ Append(f.results, x)[m+1] = x
    BY <1>1, <1>8 DEF m
  <1>10. /\ g \in Fetches /\ g.txs = f.txs /\ g.at = [f.at EXCEPT ![i] = "out"] /\ g.retry = f.retry
         /\ g.held = f.held - 1 /\ g.results = Append(f.results, x) /\ g.errors = f.errors
    <2>1. g = Moved(f, [f.at EXCEPT ![i] = "out"], f.held - 1, Append(f.results, x), f.errors)
      BY DEF x
    <2>2. PICK a, h, y : a = [f.at EXCEPT ![i] = "out"] /\ h = f.held - 1 /\ y = Append(f.results, x)
      OBVIOUS
    <2>3. a \in Seq(Places) /\ h \in Nat /\ y \in Seq(Items) /\ f.errors \in Nat
      BY <1>1, <1>2, <1>6, <1>9, <2>2
    <2>4. Moved(f, a, h, y, f.errors) \in Fetches
      BY <2>3, MovedIs
    <2>5. g \in Fetches
      BY <2>1, <2>2, <2>4
    <2>6. QED
      BY <2>1, <2>5 DEF Moved
  <1>11. /\ Cardinality(At(f, "out")) \in Nat
         /\ Cardinality(At(g, "in")) = Cardinality(At(f, "in")) - 1
         /\ Cardinality(At(g, "out")) = Cardinality(At(f, "out")) + 1
         /\ At(g, "out") = At(f, "out") \cup {i}
    <2>1. /\ "in" \in Places /\ "out" \in Places /\ f.at[i] # "out"
          /\ g.at = [f.at EXCEPT ![i] = "out"]
      BY <1>10 DEF Places
    <2>2. Cardinality(At(g, "in")) = Cardinality(At(f, "in")) - 1
      BY <1>3, <2>1, OneMoves
    <2>3. /\ Cardinality(At(f, "out")) \in Nat
          /\ Cardinality(At(g, "out")) = Cardinality(At(f, "out")) + 1
      BY <1>3, <2>1, OneMoves
    <2>4. At(g, "out") = At(f, "out") \cup {i}
      BY <1>3, <2>1, OneMoves
    <2>5. QED
      BY <2>2, <2>3, <2>4
  <1>12. Len(g.results) + g.errors = Cardinality(At(g, "out"))
    <2>1. m + f.errors = Cardinality(At(f, "out"))
      BY DEF Counted, m
    <2>2. Len(g.results) = m + 1 /\ g.errors = f.errors
      BY <1>9, <1>10
    <2>3. QED
      BY <1>1, <1>11, <2>1, <2>2
  <1>13. g.held = Cardinality(At(g, "in")) /\ g.held <= maxConcurrent
    <2>1. f.held = Cardinality(At(f, "in")) /\ f.held <= maxConcurrent
      BY DEF Counted
    <2>2. QED
      BY <1>1, <1>10, <1>11, <2>1, ConstantsAssumption
  <1>14. Counted(g)
    BY <1>2, <1>3, <1>10, <1>12, <1>13 DEF Counted
  <1>15. Collected(g)
    <2>1. g.results \in Seq(Results(g.txs))
      <3>1. f.results \in Seq(Results(f.txs))
        BY DEF Collected
      <3>2. PICK R : R = Results(f.txs)
        OBVIOUS
      <3>3. Append(f.results, x) \in Seq(R)
        BY <1>8, <3>1, <3>2
      <3>4. QED
        BY <1>10, <3>2, <3>3
    <2>2. HashesOf(g.results) = HashesOf(f.results) \cup {f.txs[i].id}
      <3>1. HashesOf(g.results) = {g.results[k].hash : k \in 1..m+1}
        BY <1>9, <1>10 DEF HashesOf
      <3>2. HashesOf(f.results) = {f.results[k].hash : k \in 1..m}
        BY <1>1 DEF HashesOf
      <3>3. \A k \in 1..m : g.results[k].hash = f.results[k].hash
        BY <1>9, <1>10
      <3>4. g.results[m+1].hash = f.txs[i].id
        BY <1>8, <1>9, <1>10
      <3>5. \A k : k \in 1..m+1 <=> k \in 1..m \/ k = m+1
        BY <1>1
      <3>6. QED
        BY <3>1, <3>2, <3>3, <3>4, <3>5
    <2>3. ASSUME g.errors = 0
          PROVE  HashesOf(g.results) = {g.txs[j].id : j \in At(g, "out")}
      <3>1. HashesOf(f.results) = {f.txs[j].id : j \in At(f, "out")}
        BY <1>10, <2>3 DEF Collected
      <3>2. {f.txs[j].id : j \in At(f, "out") \cup {i}}
              = {f.txs[j].id : j \in At(f, "out")} \cup {f.txs[i].id}
        OBVIOUS
      <3>3. {g.txs[j].id : j \in At(g, "out")} = {f.txs[j].id : j \in At(f, "out") \cup {i}}
        BY <1>10, <1>11
      <3>4. QED
        BY <1>10, <2>2, <3>1, <3>2, <3>3
    <2>4. QED
      BY <2>1, <2>3 DEF Collected
  <1>16. QED
    BY <1>10, <1>14, <1>15

\* A fetch with as many turns of its loop, or without its time.
LEMMA RetryMoves ==
  ASSUME NEW f \in Fetches, Counted(f), Collected(f), NEW i \in DOMAIN f.at,
         f.retry[i] < maxRetries - 1,
         NEW g, g = [f EXCEPT !.retry = [f.retry EXCEPT ![i] = f.retry[i] + 1]]
  PROVE  g \in Fetches /\ g.txs = f.txs /\ Counted(g) /\ Collected(g)
  <1>1. f.retry \in Seq(0..maxRetries-1) /\ maxRetries = 3 /\ i \in DOMAIN f.retry
    BY FetchIs DEF Counted, maxRetries
  <1>2. f.retry[i] \in 0..maxRetries-1
    BY <1>1
  <1>3. f.retry[i] + 1 \in 0..maxRetries-1
    BY <1>1, <1>2
  <1>4. PICK z : z = [f.retry EXCEPT ![i] = f.retry[i] + 1]
    OBVIOUS
  <1>5. z \in Seq(0..maxRetries-1) /\ DOMAIN z = DOMAIN f.retry
    BY <1>1, <1>3, <1>4
  <1>6. g = [f EXCEPT !.retry = z]
    BY <1>4
  <1>7. g \in Fetches
    BY <1>5, <1>6 DEF Fetches
  <1>8. /\ g.txs = f.txs /\ g.at = f.at /\ g.retry = z /\ g.held = f.held
        /\ g.results = f.results /\ g.errors = f.errors
    BY <1>6 DEF Fetches
  <1>9. At(g, "in") = At(f, "in") /\ At(g, "out") = At(f, "out")
    BY <1>8 DEF At
  <1>10. Counted(g)
    BY <1>5, <1>8, <1>9 DEF Counted
  <1>11. Collected(g)
    BY <1>8, <1>9 DEF Collected
  <1>12. QED
    BY <1>7, <1>8, <1>10, <1>11

LEMMA ExpireMoves ==
  ASSUME NEW f \in Fetches, Counted(f), Collected(f), NEW g, g = [f EXCEPT !.expired = TRUE]
  PROVE  g \in Fetches /\ g.txs = f.txs /\ Counted(g) /\ Collected(g)
  <1>1. PICK yes \in BOOLEAN : yes = TRUE
    OBVIOUS
  <1>2. g = [f EXCEPT !.expired = yes]
    BY <1>1
  <1>3. g \in Fetches
    BY <1>2 DEF Fetches
  <1>4. /\ g.txs = f.txs /\ g.at = f.at /\ g.retry = f.retry /\ g.held = f.held
        /\ g.results = f.results /\ g.errors = f.errors
    BY <1>2 DEF Fetches
  <1>5. At(g, "in") = At(f, "in") /\ At(g, "out") = At(f, "out")
    BY <1>4 DEF At
  <1>6. Counted(g)
    BY <1>4, <1>5 DEF Counted
  <1>7. Collected(g)
    BY <1>4, <1>5 DEF Collected
  <1>8. QED
    BY <1>3, <1>4, <1>6, <1>7

LEMMA FetchStepKeeps ==
  ASSUME IInv, NEW c \in Callers, step[c] = "fetch",
         NEW g \in Fetches, g.txs = fetch[c].txs, Counted(g), Collected(g),
         fetch' = [fetch EXCEPT ![c] = g],
         UNCHANGED <<work, step, listed, next, failed, seen, transferVars, ledger, head, known>>
  PROVE  IInv'
  <1>1. /\ listed \in [Callers -> Seq(Blocks)] /\ next \in [Callers -> Nat]
        /\ fetch \in [Callers -> Fetches] /\ failed = [d \in Callers |-> failed[d]]
        /\ step \in [Callers -> Steps] /\ seen \in [Callers -> Nat]
    BY DEF IInv, DataInv
  <1>2. /\ fetch' \in [Callers -> Fetches] /\ fetch'[c] = g
        /\ \A d \in Callers \ {c} : fetch'[d] = fetch[d]
    BY <1>1
  <1>3. step' = [step EXCEPT ![c] = "fetch"]
    BY <1>1
  <1>4. FetchInv(c) /\ RangeInv(c)
    BY DEF IInv, CallerInv
  <1>5. FetchInv(c)'
    BY <1>2, <1>4 DEF FetchInv
  <1>6. RangeInv(c)'
    BY <1>4 DEF RangeInv
  <1>7. QED
    BY <1>1, <1>2, <1>3, <1>5, <1>6, ReadingKeeps

LEMMA ExpireKeeps == ASSUME IInv, NEW c \in Callers, Expire(c) PROVE IInv'
  <1>1. PICK g : g = [fetch[c] EXCEPT !.expired = TRUE]
    OBVIOUS
  <1>2. /\ step[c] = "fetch" /\ fetch' = [fetch EXCEPT ![c] = g]
        /\ UNCHANGED <<work, step, listed, next, failed, seen, transferVars, ledger, head, known>>
    BY <1>1 DEF Expire
  <1>3. fetch[c] \in Fetches /\ Counted(fetch[c]) /\ Collected(fetch[c])
    BY <1>2, ListTypes DEF IInv, CallerInv, FetchInv
  <1>4. g \in Fetches /\ g.txs = fetch[c].txs /\ Counted(g) /\ Collected(g)
    BY <1>1, <1>3, ExpireMoves
  <1>5. QED
    BY <1>2, <1>4, FetchStepKeeps

\* What the steps of a goroutine write.
LEMMA MovedByAcquire ==
  ASSUME NEW f \in Fetches, NEW a, NEW h, NEW g, g = [f EXCEPT !.at = a, !.held = h]
  PROVE  g = Moved(f, a, h, f.results, f.errors)
  BY DEF Moved, Fetches

LEMMA MovedByError ==
  ASSUME NEW f \in Fetches, NEW a, NEW h, NEW e, NEW g,
         g = [f EXCEPT !.at = a, !.held = h, !.errors = e]
  PROVE  g = Moved(f, a, h, f.results, e)
  BY DEF Moved, Fetches

LEMMA MovedByResult ==
  ASSUME NEW f \in Fetches, NEW a, NEW h, NEW r, NEW g,
         g = [f EXCEPT !.at = a, !.held = h, !.results = r]
  PROVE  g = Moved(f, a, h, r, f.errors)
  BY DEF Moved, Fetches

LEMMA AcquireWrites ==
  ASSUME fetch \in [Callers -> Fetches], NEW c \in Callers, NEW i, Acquire(c, i)
  PROVE  \E a, h, g : /\ a = [fetch[c].at EXCEPT ![i] = "in"] /\ h = fetch[c].held + 1
                      /\ g = Moved(fetch[c], a, h, fetch[c].results, fetch[c].errors)
                      /\ fetch' = [fetch EXCEPT ![c] = g]
  <1>1. PICK a, h : a = [fetch[c].at EXCEPT ![i] = "in"] /\ h = fetch[c].held + 1
    OBVIOUS
  <1>2. PICK g : g = [fetch[c] EXCEPT !.at = a, !.held = h]
    OBVIOUS
  <1>3. g = Moved(fetch[c], a, h, fetch[c].results, fetch[c].errors)
    BY <1>2, MovedByAcquire
  <1>4. fetch' = [fetch EXCEPT ![c] = g]
    BY <1>1, <1>2 DEF Acquire, Fetches
  <1>5. QED
    BY <1>1, <1>3, <1>4

LEMMA FailWrites ==
  ASSUME fetch \in [Callers -> Fetches], NEW c \in Callers, NEW i, Fail(c, i)
  PROVE  \E a, h, e, g : /\ a = [fetch[c].at EXCEPT ![i] = "out"] /\ h = fetch[c].held - 1
                         /\ e = fetch[c].errors + 1
                         /\ g = Moved(fetch[c], a, h, fetch[c].results, e)
                         /\ fetch' = [fetch EXCEPT ![c] = g]
  <1>1. PICK a, h, e : /\ a = [fetch[c].at EXCEPT ![i] = "out"] /\ h = fetch[c].held - 1
                       /\ e = fetch[c].errors + 1
    OBVIOUS
  <1>2. PICK g : g = [fetch[c] EXCEPT !.at = a, !.held = h, !.errors = e]
    OBVIOUS
  <1>3. g = Moved(fetch[c], a, h, fetch[c].results, e)
    BY <1>2, MovedByError
  <1>4. fetch' = [fetch EXCEPT ![c] = g]
    BY <1>1, <1>2 DEF Fail, Fetches
  <1>5. QED
    BY <1>1, <1>3, <1>4

LEMMA SucceedWrites ==
  ASSUME fetch \in [Callers -> Fetches], NEW c \in Callers, NEW i, Succeed(c, i)
  PROVE  \E t \in parseTransactionResult(fetch[c].txs[i]) : \E a, h, r, g :
            /\ a = [fetch[c].at EXCEPT ![i] = "out"] /\ h = fetch[c].held - 1
            /\ r = Append(fetch[c].results, Hydrated(fetch[c].txs[i], t))
            /\ g = Moved(fetch[c], a, h, r, fetch[c].errors)
            /\ fetch' = [fetch EXCEPT ![c] = g]
  <1>1. PICK t \in parseTransactionResult(fetch[c].txs[i]) :
          fetch' = [fetch EXCEPT ![c].at[i] = "out", ![c].held = @ - 1,
                                 ![c].results = Append(@, Hydrated(fetch[c].txs[i], t))]
    BY DEF Succeed
  <1>2. PICK a, h, r : /\ a = [fetch[c].at EXCEPT ![i] = "out"] /\ h = fetch[c].held - 1
                       /\ r = Append(fetch[c].results, Hydrated(fetch[c].txs[i], t))
    OBVIOUS
  <1>3. PICK g : g = [fetch[c] EXCEPT !.at = a, !.held = h, !.results = r]
    OBVIOUS
  <1>4. g = Moved(fetch[c], a, h, r, fetch[c].errors)
    BY <1>3, MovedByResult
  <1>5. fetch' = [fetch EXCEPT ![c] = g]
    BY <1>1, <1>2, <1>3 DEF Fetches
  <1>6. \E a1, h1, r1, g1 :
            /\ a1 = [fetch[c].at EXCEPT ![i] = "out"] /\ h1 = fetch[c].held - 1
            /\ r1 = Append(fetch[c].results, Hydrated(fetch[c].txs[i], t))
            /\ g1 = Moved(fetch[c], a1, h1, r1, fetch[c].errors)
            /\ fetch' = [fetch EXCEPT ![c] = g1]
    BY <1>2, <1>4, <1>5
  <1>7. QED
    BY <1>6

LEMMA GoroutineKeeps ==
  ASSUME IInv, NEW c \in Callers, NEW i \in DOMAIN fetch[c].at, Goroutine(c, i)
  PROVE  IInv'
  <1>1. /\ step[c] = "fetch"
        /\ UNCHANGED <<work, step, listed, next, failed, seen, transferVars, ledger, head, known>>
    BY DEF Goroutine
  <1>2. /\ fetch[c] \in Fetches /\ Counted(fetch[c]) /\ Collected(fetch[c])
        /\ fetch \in [Callers -> Fetches]
    BY <1>1, ListTypes DEF IInv, DataInv, CallerInv, FetchInv
  <1>3. CASE Acquire(c, i)
    <2>1. fetch[c].at[i] = "new" /\ fetch[c].held < maxConcurrent
      BY <1>3 DEF Acquire
    <2>2. PICK a, h, g : /\ a = [fetch[c].at EXCEPT ![i] = "in"] /\ h = fetch[c].held + 1
                         /\ g = Moved(fetch[c], a, h, fetch[c].results, fetch[c].errors)
                         /\ fetch' = [fetch EXCEPT ![c] = g]
      BY <1>2, <1>3, AcquireWrites
    <2>3. g \in Fetches /\ g.txs = fetch[c].txs /\ Counted(g) /\ Collected(g)
      BY <1>2, <2>1, <2>2, AcquireMoves
    <2>4. QED
      BY <1>1, <2>2, <2>3, FetchStepKeeps
  <1>4. CASE fetch[c].at[i] = "in" /\ Fail(c, i)
    <2>1. PICK a, h, e, g : /\ a = [fetch[c].at EXCEPT ![i] = "out"] /\ h = fetch[c].held - 1
                            /\ e = fetch[c].errors + 1
                            /\ g = Moved(fetch[c], a, h, fetch[c].results, e)
                            /\ fetch' = [fetch EXCEPT ![c] = g]
      BY <1>2, <1>4, FailWrites
    <2>2. g \in Fetches /\ g.txs = fetch[c].txs /\ Counted(g) /\ Collected(g)
      BY <1>2, <1>4, <2>1, FailMoves
    <2>3. QED
      BY <1>1, <2>1, <2>2, FetchStepKeeps
  <1>5. CASE fetch[c].at[i] = "in" /\ Succeed(c, i)
    <2>1. PICK t \in parseTransactionResult(fetch[c].txs[i]) : \E a, h, r, g :
             /\ a = [fetch[c].at EXCEPT ![i] = "out"] /\ h = fetch[c].held - 1
             /\ r = Append(fetch[c].results, Hydrated(fetch[c].txs[i], t))
             /\ g = Moved(fetch[c], a, h, r, fetch[c].errors)
             /\ fetch' = [fetch EXCEPT ![c] = g]
      BY <1>2, <1>5, SucceedWrites
    <2>2. PICK a, h, r, g :
             /\ a = [fetch[c].at EXCEPT ![i] = "out"] /\ h = fetch[c].held - 1
             /\ r = Append(fetch[c].results, Hydrated(fetch[c].txs[i], t))
             /\ g = Moved(fetch[c], a, h, r, fetch[c].errors)
             /\ fetch' = [fetch EXCEPT ![c] = g]
      BY <2>1
    <2>3. g \in Fetches /\ g.txs = fetch[c].txs /\ Counted(g) /\ Collected(g)
      <3>1. g = Moved(fetch[c], [fetch[c].at EXCEPT ![i] = "out"], fetch[c].held - 1,
                      Append(fetch[c].results, Hydrated(fetch[c].txs[i], t)), fetch[c].errors)
        BY <2>2
      <3>2. QED
        BY <1>2, <1>5, <3>1, SucceedMoves
    <2>4. QED
      BY <1>1, <2>2, <2>3, FetchStepKeeps
  <1>6. CASE MayRepeat(c, i) /\ fetch' = [fetch EXCEPT ![c].retry[i] = @ + 1]
    <2>1. fetch[c].retry[i] < maxRetries - 1
      BY <1>6 DEF MayRepeat
    <2>2. PICK g : g = [fetch[c] EXCEPT !.retry = [fetch[c].retry EXCEPT ![i] = fetch[c].retry[i] + 1]]
      OBVIOUS
    <2>3. fetch' = [fetch EXCEPT ![c] = g]
      BY <1>6, <2>2
    <2>4. g \in Fetches /\ g.txs = fetch[c].txs /\ Counted(g) /\ Collected(g)
      BY <1>2, <2>1, <2>2, RetryMoves
    <2>5. QED
      BY <1>1, <2>3, <2>4, FetchStepKeeps
  <1>7. QED
    BY <1>3, <1>4, <1>5, <1>6 DEF Goroutine, Turn

\* When all are out and none failed, the results are those of the whole block.
LEMMA ResultsAreWhole ==
  ASSUME NEW f \in Fetches, Counted(f), Collected(f), f.txs # <<>>,
         \A i \in DOMAIN f.at : f.at[i] = "out", f.errors = 0
  PROVE  Whole(f.results, f.txs)
  <1> DEFINE n == Len(f.txs)
             m == Len(f.results)
  <1>1. /\ n \in Nat /\ DOMAIN f.txs = 1..n /\ DOMAIN f.at = 1..n
        /\ m \in Nat /\ DOMAIN f.results = 1..m
    BY FetchIs DEF Counted
  <1>2. At(f, "out") = 1..n
    BY <1>1 DEF At
  <1>3. m = n
    <2>1. Cardinality(1..n) = n
      BY <1>1, FS_Interval
    <2>2. m + 0 = Cardinality(At(f, "out"))
      BY DEF Counted
    <2>3. QED
      BY <1>1, <1>2, <2>1, <2>2
  <1>4. HashesOf(f.results) = {f.txs[k].id : k \in DOMAIN f.txs}
    BY <1>1, <1>2 DEF Collected
  <1>5. ASSUME NEW k \in 1..m
        PROVE  /\ f.results[k].whole = TRUE
               /\ \E tx \in Range(f.txs) : f.results[k] \in ItemsOf(tx)
    <2>1. f.results[k] \in Results(f.txs)
      BY <1>1 DEF Collected
    <2>2. PICK tx \in Range(f.txs) : \E t \in parseTransactionResult(tx) : f.results[k] = Hydrated(tx, t)
      BY <2>1 DEF Results
    <2>3. f.results[k].whole = TRUE
      BY <2>2, HydratedIs
    <2>4. f.results[k] \in ItemsOf(tx)
      BY <2>2 DEF ItemsOf
    <2>5. QED
      BY <2>3, <2>4
  <1>6. \A k, l \in 1..m : f.results[k].whole = f.results[l].whole
    BY <1>5
  <1>7. QED
    BY <1>1, <1>3, <1>4, <1>5, <1>6 DEF Whole

LEMMA RangeFetchKeeps ==
  ASSUME IInv, NEW c \in Callers, GetTransactionRange(c)
  PROVE  IInv'
  <1> DEFINE f == fetch[c]
  <1>1. /\ step[c] = "fetch" /\ \A i \in DOMAIN f.at : f.at[i] = "out"
        /\ List(c, TRUE, Outcome(f)) /\ fetch' = [fetch EXCEPT ![c] = NoFetch]
        /\ Ends(c, "range")
        /\ UNCHANGED <<work, failed, seen, transferVars, ledger, head, known>>
    BY DEF GetTransactionRange
  <1>2. /\ f \in Fetches /\ Counted(f) /\ Collected(f)
        /\ next[c] \in 1..seen[c] /\ next[c] <= work[c].last /\ work[c].with
        /\ ledger[next[c]] # Skipped /\ f.txs = ledger[next[c]]
        /\ seen[c] <= head /\ seen[c] \in Nat
    BY <1>1, ListTypes DEF IInv, CallerInv, FetchInv, RangeInv
  <1>3. /\ listed \in [Callers -> Seq(Blocks)] /\ next \in [Callers -> Nat]
        /\ fetch \in [Callers -> Fetches] /\ failed = [d \in Callers |-> failed[d]]
        /\ step \in [Callers -> Steps] /\ seen \in [Callers -> Nat]
    BY DEF IInv, DataInv
  <1>4. /\ step' = [step EXCEPT ![c] = "range"] /\ step'[c] = "range"
        /\ fetch' \in [Callers -> Fetches] /\ fetch'[c] = NoFetch
        /\ \A d \in Callers \ {c} : fetch'[d] = fetch[d]
    BY <1>1, <1>3, NoFetchIs DEF Ends
  <1>5. Outcome(f) \in Seq(Items) /\ Whole(Outcome(f), f.txs)
    <2>1. /\ f.txs \in Seq(Txs) /\ f.results \in Seq(Items)
          /\ f.errors \in Nat /\ Len(f.results) \in Nat
      BY <1>2, FetchIs
    <2>2. Hashes(f.txs) \in Seq(Items) /\ Whole(Hashes(f.txs), f.txs)
      BY <2>1, HashesAreWhole
    <2>3. CASE f.errors > 0 \/ f.results = <<>>
      BY <2>2, <2>3 DEF Outcome
    <2>4. CASE ~(f.errors > 0 \/ f.results = <<>>)
      <3>1. f.errors = 0 /\ f.results # <<>>
        BY <2>1, <2>4
      <3>2. f.txs # <<>>
        <4>1. SUFFICES ASSUME f.txs = <<>> PROVE FALSE
          OBVIOUS
        <4>2. At(f, "out") = {}
          BY <1>2, <4>1 DEF At, Counted
        <4>3. Cardinality({}) = 0
          BY FS_EmptySet
        <4>4. Len(f.results) + f.errors = 0
          BY <1>2, <4>2, <4>3 DEF Counted
        <4>5. Len(f.results) = 0
          BY <2>1, <3>1, <4>4
        <4>6. QED
          BY <2>1, <3>1, <4>5
      <3>3. Whole(f.results, f.txs)
        BY <1>1, <1>2, <3>1, <3>2, ResultsAreWhole
      <3>4. QED
        BY <2>1, <2>4, <3>3 DEF Outcome
    <2>5. QED
      BY <2>3, <2>4
  <1>6. /\ listed' \in [Callers -> Seq(Blocks)] /\ next' \in [Callers -> Nat]
        /\ RangeInv(c)'
    <2>1. Outcome(f) \in Seq(Items) /\ List(c, TRUE, Outcome(f))
      BY <1>1, <1>5
    <2>2. /\ next[c] \in 1..seen'[c] /\ ledger[next[c]] # Skipped
          /\ work[c].with /\ Whole(Outcome(f), ledger[next[c]])
          /\ seen'[c] = seen[c] /\ seen[c] <= head /\ seen[c] \in Nat /\ seen[c] <= seen'[c]
      BY <1>1, <1>2, <1>5
    <2>3. step[c] \in {"range", "fetch"} /\ step'[c] \in {"range", "fetch"}
      BY <1>1, <1>4
    <2>4. QED
      BY <1>1, <2>1, <2>2, <2>3, ListKeepsRange
  <1>7. \A d \in Callers \ {c} : listed'[d] = listed[d] /\ next'[d] = next[d]
    BY <1>1, <1>3 DEF List
  <1>8. Counted(fetch'[c]) /\ FetchInv(c)'
    BY <1>4, NoFetchIs DEF FetchInv
  <1>9. QED
    BY <1>1, <1>3, <1>4, <1>6, <1>7, <1>8, ReadingKeeps

-----------------------------------------------------------------------------
\* Transfers

\* A step of a caller that makes a transfer concerns its transfer alone.
LEMMA TransferKeeps ==
  ASSUME IInv, NEW c \in Callers,
         UNCHANGED <<work, rangeVars, ledger, head>>, known \subseteq known',
         step[c] \in {"build", "sign", "send"},
         NEW s \in {"sign", "send", "done", "error", "panic"}, step' = [step EXCEPT ![c] = s],
         made' = [d \in Callers |-> made'[d]], signed' = [d \in Callers |-> signed'[d]],
         told' \in [Callers -> Seq(Reports)], attempt' \in [Callers -> 0..Retries],
         \A d \in Callers \ {c} : signed'[d] = signed[d] /\ told'[d] = told[d],
         signed'[c] \in Seq(Range(signed'[c])),
         s = "sign" => told'[c] = <<>>,
         s = "send" => Len(told'[c]) < Len(signed'[c]),
         Len(told'[c]) <= Len(signed'[c]),
         SignedInv(c)'
  PROVE  IInv'
  <1>1. /\ step \in [Callers -> Steps] /\ step' \in [Callers -> Steps] /\ step'[c] = s
        /\ \A d \in Callers \ {c} : step'[d] = step[d]
    BY DEF IInv, DataInv, Steps
  <1>2. \A d \in Callers : signed'[d] \in Seq(Range(signed'[d]))
    BY DEF IInv, DataInv
  <1>3. DataInv'
    BY <1>1, <1>2, SameItems DEF IInv, DataInv, rangeVars
  <1>4. ASSUME NEW d \in Callers \ {c}
        PROVE  CallerInv(d)'
    <2>1. head' \in Nat /\ head <= head'
      BY LedgerLength DEF IInv
    <2>2. /\ step'[d] = step[d] /\ listed'[d] = listed[d] /\ next'[d] = next[d]
          /\ fetch'[d] = fetch[d] /\ seen'[d] = seen[d] /\ failed'[d] = failed[d]
          /\ signed'[d] = signed[d] /\ told'[d] = told[d]
      BY <1>1 DEF rangeVars
    <2>3. QED
      BY <2>1, <2>2, OthersKeep
  <1>5. CallerInv(c)'
    <2>1. Progress(c) /\ Counted(fetch[c]) /\ FetchInv(c) /\ RangeInv(c)
      BY DEF IInv, CallerInv
    <2>2. work[c].kind = "transfers" /\ fetch[c] = NoFetch
      BY <2>1 DEF Progress
    <2>3. Progress(c)'
      BY <1>1, <2>2 DEF Progress, rangeVars
    <2>4. Counted(fetch[c])' /\ FetchInv(c)'
      BY <1>1, <2>1, <2>2, NoFetchIs DEF FetchInv, rangeVars
    <2>5. RangeInv(c)'
      BY <2>1, <2>2 DEF RangeInv, rangeVars
    <2>6. QED
      BY <2>3, <2>4, <2>5 DEF CallerInv
  <1>6. QED
    BY <1>3, <1>4, <1>5 DEF IInv

LEMMA BuildKeeps ==
  ASSUME IInv, NEW c \in Callers, BuildUnSignTransaction(c)
  PROVE  IInv'
  <1>1. /\ step[c] = "build"
        /\ UNCHANGED <<work, rangeVars, signed, told, attempt, ledger, head, known>>
    BY DEF BuildUnSignTransaction
  <1>2. PICK s \in {"sign", "error", "panic"} : step' = [step EXCEPT ![c] = s]
    BY DEF BuildUnSignTransaction, Ends
  <1>3. made' = [d \in Callers |-> made'[d]]
    BY DEF BuildUnSignTransaction, IInv, DataInv
  <1>4. /\ signed = [d \in Callers |-> signed[d]] /\ told \in [Callers -> Seq(Reports)]
        /\ attempt \in [Callers -> 0..Retries] /\ signed[c] \in Seq(Range(signed[c]))
    BY DEF IInv, DataInv
  <1>5. told[c] = <<>> /\ Len(told[c]) <= Len(signed[c]) /\ SignedInv(c)
    BY <1>1 DEF IInv, CallerInv, Progress
  <1>6. SignedInv(c)'
    BY <1>1, <1>5 DEF SignedInv, Verifies
  <1>7. QED
    BY <1>1, <1>2, <1>3, <1>4, <1>5, <1>6, TransferKeeps

\* A truly labelled signature of full length that is kept under a key was made
\* with that key.
LEMMA EntryIs ==
  ASSUME NEW entry, Labelled(entry), NEW k \in KeyOf(entry), entry.sig # Short
  PROVE  entry.sig = Signature(k, entry.env)
  <1>1. CASE entry.key \in Keys
    <2>1. KeyOf(entry) = {entry.key}
      BY <1>1, ConstantsAssumption DEF KeyOf
    <2>2. \E q \in {entry.key} : entry.sig = Signature(q, entry.env)
      BY <1>1 DEF Labelled
    <2>3. QED
      BY <2>1, <2>2
  <1>2. CASE entry.key \notin Keys
    <2>1. Len(SignerKeys(entry.env.payload)) = 1 /\ k = SignerKeys(entry.env.payload)[1]
      BY <1>2 DEF KeyOf
    <2>2. SignerKeys(entry.env.payload) = <<entry.env.payload.from>>
      BY <2>1 DEF SignerKeys
    <2>3. ToSet(SignerKeys(entry.env.payload)) = {k}
      BY <2>1, <2>2 DEF ToSet
    <2>4. \E q \in ToSet(SignerKeys(entry.env.payload)) : entry.sig = Signature(q, entry.env)
      BY <1>2 DEF Labelled
    <2>5. QED
      BY <2>3, <2>4
  <1>3. QED
    BY <1>1, <1>2

LEMMA KeptIs ==
  ASSUME NEW S, NEW n \in Nat, NEW entries \in [1..n -> S], NEW e, NEW k,
         \A i \in DOMAIN entries : entries[i].env = e => Labelled(entries[i]),
         Kept(entries, e, k) # Short
  PROVE  Kept(entries, e, k) = Signature(k, e)
  <1> DEFINE I == {i \in DOMAIN entries : entries[i].env = e /\ k \in KeyOf(entries[i])}
  <1>1. I \in SUBSET (1..n)
    OBVIOUS
  <1>2. I # {} /\ Kept(entries, e, k) = entries[Max(I)].sig
    BY DEF Kept
  <1>3. Max(I) \in I
    BY <1>1, <1>2, MaxIsIn
  <1> DEFINE m == Max(I)
  <1>4. m \in DOMAIN entries /\ entries[m].env = e /\ k \in KeyOf(entries[m])
    BY <1>3
  <1>5. entries[m].sig = Kept(entries, e, k)
    BY <1>2
  <1> HIDE DEF m, I
  <1>6. Labelled(entries[m])
    BY <1>4
  <1>7. entries[m].sig = Signature(k, entries[m].env)
    BY <1>4, <1>5, <1>6, EntryIs
  <1>8. QED
    BY <1>4, <1>5, <1>7

LEMMA AssembledIs ==
  ASSUME NEW S, NEW n \in Nat, NEW entries \in [1..n -> S], NEW e,
         assembleSignedTransaction(entries, e).success,
         assembleSignedTransaction(entries, e).labelled
  PROVE  Verifies(assembleSignedTransaction(entries, e))
  <1> DEFINE signers == SignerKeys(e.payload)
             sigs    == [i \in DOMAIN signers |-> Kept(entries, e, signers[i])]
             tx      == assembleSignedTransaction(entries, e)
  <1>1. /\ tx.env = e /\ tx.sigs = sigs /\ Short \notin ToSet(sigs)
        /\ \A i \in DOMAIN entries : entries[i].env = e => Labelled(entries[i])
    BY DEF assembleSignedTransaction
  <1>2. ASSUME NEW j \in DOMAIN signers
        PROVE  sigs[j] = Signature(signers[j], e)
    <2>1. sigs[j] \in ToSet(sigs)
      BY DEF ToSet
    <2>2. Kept(entries, e, signers[j]) # Short
      <3>1. sigs[j] # Short
        BY <1>1, <2>1
      <3>2. QED
        BY <3>1
    <2>3. \A i \in DOMAIN entries : entries[i].env = e => Labelled(entries[i])
      BY <1>1
    <2>4. Kept(entries, e, signers[j]) = Signature(signers[j], e)
      BY <2>2, <2>3, KeptIs
    <2>5. QED
      BY <2>4
  <1> HIDE DEF tx
  <1>3. Verifies(tx)
    BY <1>1, <1>2 DEF Verifies
  <1>4. QED
    BY <1>3 DEF tx

LEMMA SignKeeps ==
  ASSUME IInv, NEW c \in Callers, BuildSignedTransaction(c)
  PROVE  IInv'
  <1>1. /\ step[c] = "sign"
        /\ UNCHANGED <<work, rangeVars, made, told, attempt, ledger, head, known>>
    BY DEF BuildSignedTransaction
  <1>2. PICK n \in 1..MaxEntries : \E entries \in [1..n -> Entries(c)] : \E envs \in Grouped(entries) :
          LET all == [i \in DOMAIN envs |-> assembleSignedTransaction(entries, envs[i])]
          IN  /\ signed' = [signed EXCEPT ![c] = all]
              /\ Ends(c, IF all = <<>> THEN "done" ELSE "send")
    BY DEF BuildSignedTransaction
  <1> PICK entries \in [1..n -> Entries(c)] : \E envs \in Grouped(entries) :
          LET all == [i \in DOMAIN envs |-> assembleSignedTransaction(entries, envs[i])]
          IN  /\ signed' = [signed EXCEPT ![c] = all]
              /\ Ends(c, IF all = <<>> THEN "done" ELSE "send")
    BY <1>2
  <1> PICK envs \in Grouped(entries) :
          LET all == [i \in DOMAIN envs |-> assembleSignedTransaction(entries, envs[i])]
          IN  /\ signed' = [signed EXCEPT ![c] = all]
              /\ Ends(c, IF all = <<>> THEN "done" ELSE "send")
    OBVIOUS
  <1> DEFINE all == [i \in DOMAIN envs |-> assembleSignedTransaction(entries, envs[i])]
  <1>3. n \in Nat
    BY ConstantsAssumption
  <1>4. PICK m \in Nat : DOMAIN envs = 1..m
    <2> DEFINE I == {i \in DOMAIN entries : /\ decodeEnvelope(entries[i].env) # {}
                                            /\ \A j \in 1..i-1 : entries[j].env # entries[i].env}
    <2>1. I \in SUBSET (1..n)
      OBVIOUS
    <2>2. Cardinality(I) \in Nat
      BY <1>3, <2>1, PartIsFinite
    <2>3. \E o \in [1..Cardinality(I) -> I] : envs = [k \in DOMAIN o |-> entries[o[k]].env]
      BY DEF Grouped
    <2>4. QED
      BY <2>2, <2>3
  <1>5. /\ all \in Seq(Range(all)) /\ Len(all) = m /\ DOMAIN all = 1..m
        /\ \A i \in 1..m : all[i] = assembleSignedTransaction(entries, envs[i])
    <2>1. DOMAIN all = 1..m /\ \A i \in 1..m : all[i] \in Range(all)
      BY <1>4 DEF Range
    <2>2. all \in Seq(Range(all)) /\ Len(all) = m
      BY <1>4, <2>1
    <2>3. QED
      BY <1>4, <2>1, <2>2
  <1>6. /\ signed' = [signed EXCEPT ![c] = all]
        /\ Ends(c, IF all = <<>> THEN "done" ELSE "send")
    OBVIOUS
  <1>7. ASSUME NEW i \in 1..m, all[i].success, all[i].labelled
        PROVE  Verifies(all[i])
    BY <1>3, <1>5, <1>7, AssembledIs
  <1> HIDE DEF all
  <1>8. /\ signed = [d \in Callers |-> signed[d]] /\ made = [d \in Callers |-> made[d]]
        /\ told \in [Callers -> Seq(Reports)] /\ attempt \in [Callers -> 0..Retries]
        /\ told[c] = <<>>
    BY <1>1 DEF IInv, DataInv, CallerInv, Progress
  <1>9. /\ signed' = [d \in Callers |-> signed'[d]] /\ signed'[c] = all
        /\ \A d \in Callers \ {c} : signed'[d] = signed[d]
    BY <1>6, <1>8
  <1>10. PICK s \in {"send", "done"} : /\ step' = [step EXCEPT ![c] = s]
                                       /\ s = "send" => all # <<>>
    BY <1>6 DEF Ends
  <1>11. /\ told'[c] = <<>> /\ Len(told'[c]) = 0 /\ Len(all) \in Nat
         /\ all # <<>> => 0 < Len(all)
    BY <1>1, <1>5, <1>8
  <1>12. SignedInv(c)'
    <2>1. ASSUME NEW i \in DOMAIN signed'[c]
          PROVE  signed'[c][i].success /\ signed'[c][i].labelled => Verifies(signed'[c][i])
      <3>1. i \in 1..m /\ signed'[c][i] = all[i]
        BY <1>5, <1>9
      <3>2. QED
        BY <1>7, <3>1
    <2>2. DOMAIN told'[c] = {}
      BY <1>11
    <2>3. QED
      BY <2>1, <2>2 DEF SignedInv, Verifies
  <1>13. QED
    <2>1. /\ Len(told'[c]) <= Len(signed'[c])
          /\ s = "send" => Len(told'[c]) < Len(signed'[c])
          /\ signed'[c] \in Seq(Range(signed'[c]))
      BY <1>5, <1>9, <1>10, <1>11
    <2>2. /\ made' = [d \in Callers |-> made'[d]] /\ told' \in [Callers -> Seq(Reports)]
          /\ attempt' \in [Callers -> 0..Retries]
          /\ \A d \in Callers \ {c} : signed'[d] = signed[d] /\ told'[d] = told[d]
          /\ UNCHANGED <<work, rangeVars, ledger, head>> /\ known \subseteq known'
      BY <1>1, <1>8, <1>9
    <2>3. QED
      BY <1>1, <1>9, <1>10, <1>11, <1>12, <2>1, <2>2, TransferKeeps

\* A report is of the first transaction that has none.
LEMMA ReportKeeps ==
  ASSUME IInv, NEW c \in Callers, step[c] = "send",
         UNCHANGED <<work, rangeVars, made, signed, ledger, head>>, known \subseteq known',
         NEW what \in Reports, Report(c, what),
         what = "sent" => /\ signed[c][Len(told[c]) + 1].success
                          /\ Verifies(signed[c][Len(told[c]) + 1])
                          /\ signed[c][Len(told[c]) + 1].env \in known'
  PROVE  IInv'
  <1> DEFINE n == Len(told[c])
  <1>1. /\ signed = [d \in Callers |-> signed[d]] /\ made = [d \in Callers |-> made[d]]
        /\ told \in [Callers -> Seq(Reports)] /\ attempt \in [Callers -> 0..Retries]
        /\ told[c] \in Seq(Reports) /\ n \in Nat /\ DOMAIN told[c] = 1..n
        /\ signed[c] \in Seq(Range(signed[c])) /\ Len(signed[c]) \in Nat
        /\ n < Len(signed[c]) /\ SignedInv(c)
    BY DEF IInv, DataInv, CallerInv, Progress
  <1>2. /\ told' = [told EXCEPT ![c] = Append(told[c], what)]
        /\ attempt' = [attempt EXCEPT ![c] = 0]
    BY DEF Report
  <1>3. /\ Append(told[c], what) \in Seq(Reports) /\ Len(Append(told[c], what)) = n + 1
        /\ DOMAIN Append(told[c], what) = 1..n+1
        /\ \A i \in 1..n : Append(told[c], what)[i] = told[c][i]
        /\ Append(told[c], what)[n + 1] = what
    BY <1>1
  <1>4. /\ told' \in [Callers -> Seq(Reports)] /\ attempt' \in [Callers -> 0..Retries]
        /\ told'[c] = Append(told[c], what)
        /\ \A d \in Callers \ {c} : told'[d] = told[d]
    BY <1>1, <1>2, <1>3 DEF Retries
  <1>5. PICK s \in {"send", "done"} : /\ step' = [step EXCEPT ![c] = s]
                                      /\ s = "send" => Len(told'[c]) # Len(signed[c])
    <2>1. step' = [step EXCEPT ![c] = IF Len(told'[c]) = Len(signed[c]) THEN "done" ELSE step[c]]
      BY DEF Report
    <2>2. QED
      BY <2>1
  <1>6. /\ Len(told'[c]) <= Len(signed'[c])
        /\ s = "send" => Len(told'[c]) < Len(signed'[c])
    BY <1>1, <1>3, <1>4, <1>5
  <1>7. SignedInv(c)'
    <2>1. ASSUME NEW i \in DOMAIN signed[c], i \in DOMAIN told'[c], told'[c][i] = "sent"
          PROVE  signed[c][i].success /\ Verifies(signed[c][i]) /\ signed[c][i].env \in known'
      <3>1. i \in 1..n+1 /\ Append(told[c], what)[i] = "sent"
        BY <1>3, <1>4, <2>1
      <3>2. CASE i = n + 1
        BY <1>3, <3>1, <3>2
      <3>3. CASE i # n + 1
        <4>1. i \in 1..n
          BY <1>1, <3>1, <3>3
        <4>2. told[c][i] = "sent" /\ i \in DOMAIN told[c]
          BY <1>1, <1>3, <3>1, <4>1
        <4>3. QED
          BY <1>1, <4>2 DEF SignedInv
      <3>4. QED
        BY <3>2, <3>3
    <2>2. ASSUME NEW i \in DOMAIN signed[c], signed[c][i].success, signed[c][i].labelled
          PROVE  Verifies(signed[c][i])
      BY <1>1, <2>2 DEF SignedInv
    <2>3. signed' = signed
      OBVIOUS
    <2>4. QED
      BY <2>1, <2>2, <2>3 DEF SignedInv, Verifies
  <1>8. /\ signed' = [d \in Callers |-> signed'[d]] /\ made' = [d \in Callers |-> made'[d]]
        /\ \A d \in Callers \ {c} : signed'[d] = signed[d] /\ told'[d] = told[d]
        /\ signed'[c] \in Seq(Range(signed'[c]))
    BY <1>1, <1>4
  <1>9. QED
    BY <1>4, <1>5, <1>6, <1>7, <1>8, TransferKeeps

\* Without an answer the request is posted again, or has failed.
LEMMA SilenceKeeps ==
  ASSUME IInv, NEW c \in Callers, step[c] = "send",
         UNCHANGED <<work, rangeVars, made, signed, ledger, head>>, known \subseteq known',
         Silence(c)
  PROVE  IInv'
  <1>1. CASE Report(c, "failed")
    BY <1>1, ReportKeeps DEF Reports
  <1>2. CASE attempt[c] < Retries /\ attempt' = [attempt EXCEPT ![c] = @ + 1] /\ UNCHANGED <<told, step>>
    <2>1. /\ signed = [d \in Callers |-> signed[d]] /\ made = [d \in Callers |-> made[d]]
          /\ told \in [Callers -> Seq(Reports)] /\ attempt \in [Callers -> 0..Retries]
          /\ signed[c] \in Seq(Range(signed[c])) /\ step \in [Callers -> Steps]
          /\ Len(told[c]) < Len(signed[c]) /\ Len(told[c]) <= Len(signed[c]) /\ SignedInv(c)
      BY DEF IInv, DataInv, CallerInv, Progress
    <2>2. attempt[c] + 1 \in 0..Retries
      <3>1. attempt[c] \in 0..Retries /\ attempt[c] < Retries
        BY <1>2, <2>1
      <3>2. QED
        BY <3>1 DEF Retries
    <2>3. attempt' \in [Callers -> 0..Retries]
      BY <1>2, <2>1, <2>2
    <2>4. step' = [step EXCEPT ![c] = "send"]
      BY <1>2, <2>1
    <2>5. SignedInv(c)'
      BY <1>2, <2>1 DEF SignedInv, Verifies
    <2>6. QED
      BY <1>2, <2>1, <2>3, <2>4, <2>5, TransferKeeps
  <1>3. QED
    BY <1>1, <1>2 DEF Silence

LEMMA SendKeeps ==
  ASSUME IInv, NEW c \in Callers, SendTransaction(c)
  PROVE  IInv'
  <1> DEFINE tx == signed[c][Len(told[c]) + 1]
  <1>1. step[c] = "send" /\ UNCHANGED <<work, rangeVars, made, signed, ledger, head>>
    BY DEF SendTransaction
  <1>2. CASE Report(c, "failed") /\ known \subseteq known'
    BY <1>1, <1>2, ReportKeeps DEF Reports
  <1>3. CASE Silence(c) /\ known \subseteq known'
    BY <1>1, <1>3, SilenceKeeps
  <1>4. CASE tx.success /\ Verifies(tx) /\ known' = known \cup {tx.env} /\ Report(c, "sent")
    BY <1>1, <1>4, ReportKeeps DEF Reports
  <1>5. QED
    BY <1>2, <1>3, <1>4 DEF SendTransaction, Takes

-----------------------------------------------------------------------------
\* The invariant holds, and the properties follow

LEMMA InitHolds == Init => IInv
  <1>1. SUFFICES ASSUME Init PROVE IInv
    OBVIOUS
  <1>2. /\ fetch = [c \in Callers |-> NoFetch] /\ listed = [c \in Callers |-> <<>>]
        /\ signed = [c \in Callers |-> <<>>] /\ told = [c \in Callers |-> <<>>]
        /\ made = [c \in Callers |-> <<>>] /\ failed = [c \in Callers |-> {}]
        /\ seen = [c \in Callers |-> 0] /\ attempt = [c \in Callers |-> 0]
        /\ step = [c \in Callers |-> IF work[c].kind = "range" THEN "range" ELSE "build"]
        /\ next = [c \in Callers |-> IF work[c].kind = "range" THEN work[c].first ELSE 0]
        /\ work \in Work /\ ledger \in Ledgers /\ head \in 0..Len(ledger)
    BY <1>1 DEF Init
  <1>3. \A c \in Callers : IsWork(work[c])
    BY <1>2, ConstantsAssumption
  <1>4. Len(ledger) \in Nat /\ head \in Nat
    <2>1. ledger \in Seq(Range(ledger))
      BY <1>2, ConstantsAssumption
    <2>2. QED
      BY <1>2, <2>1
  <1>5. /\ next \in [Callers -> Nat] /\ seen \in [Callers -> Nat]
        /\ step \in [Callers -> Steps] /\ attempt \in [Callers -> 0..Retries]
        /\ fetch \in [Callers -> Fetches] /\ listed \in [Callers -> Seq(Blocks)]
        /\ told \in [Callers -> Seq(Reports)]
    BY <1>2, <1>3, NoFetchIs DEF IsWork, Steps, Retries
  <1>6. \A c \in Callers : signed[c] \in Seq(Range(signed[c])) /\ DOMAIN signed[c] = {}
    BY <1>2
  <1>7. /\ failed = [c \in Callers |-> failed[c]] /\ made = [c \in Callers |-> made[c]]
        /\ signed = [c \in Callers |-> signed[c]]
    BY <1>2
  <1>8. DataInv
    BY <1>2, <1>5, <1>6, <1>7 DEF DataInv
  <1>9. ASSUME NEW c \in Callers
        PROVE  CallerInv(c)
    <2>1. Len(told[c]) = 0 /\ Len(signed[c]) = 0 /\ told[c] = <<>> /\ DOMAIN listed[c] = {}
      BY <1>2
    <2>2. Progress(c)
      BY <1>2, <1>3, <2>1 DEF Progress, IsWork
    <2>3. Counted(fetch[c]) /\ FetchInv(c)
      BY <1>2, NoFetchIs DEF FetchInv
    <2>4. RangeInv(c)
      <3>1. seen[c] <= head /\ listed[c] = <<>> /\ step[c] # "done"
        BY <1>2, <1>4
      <3>2. work[c].kind = "range" => next[c] = work[c].first /\ work[c].first \in Nat
        BY <1>2, <1>3 DEF IsWork
      <3>3. work[c].kind = "range" => work[c].first..next[c]-1 = {}
        BY <3>2
      <3>4. work[c].kind = "range" => work[c].first <= next[c]
        BY <3>2
      <3>5. QED
        BY <2>1, <3>1, <3>3, <3>4 DEF RangeInv
    <2>5. SignedInv(c)
      BY <1>6 DEF SignedInv
    <2>6. QED
      BY <2>2, <2>3, <2>4, <2>5 DEF CallerInv
  <1>10. QED
    BY <1>8, <1>9 DEF IInv

LEMMA NextKeeps == IInv /\ [Next]_vars => IInv'
  <1>1. SUFFICES ASSUME IInv, [Next]_vars PROVE IInv'
    OBVIOUS
  <1>2. CASE UNCHANGED vars
    BY <1>1, <1>2, StutterKeeps
  <1>3. CASE Finalize
    BY <1>1, <1>3, FinalizeKeeps
  <1>4. ASSUME NEW c \in Callers, Call(c)
        PROVE  IInv'
    <2>1. CASE GetBatchBlock(c)
      BY <1>1, <2>1, BatchBlockKeeps
    <2>2. CASE GetTransactionRange(c)
      BY <1>1, <2>2, RangeFetchKeeps
    <2>3. ASSUME NEW i \in DOMAIN fetch[c].at, Goroutine(c, i)
          PROVE  IInv'
      BY <1>1, <2>3, GoroutineKeeps
    <2>4. CASE BuildUnSignTransaction(c)
      BY <1>1, <2>4, BuildKeeps
    <2>5. CASE BuildSignedTransaction(c)
      BY <1>1, <2>5, SignKeeps
    <2>6. CASE SendTransaction(c)
      BY <1>1, <2>6, SendKeeps
    <2>7. QED
      BY <1>4, <2>1, <2>2, <2>3, <2>4, <2>5, <2>6 DEF Call
  <1>5. ASSUME NEW c \in Callers, Expire(c)
        PROVE  IInv'
    BY <1>1, <1>5, ExpireKeeps
  <1>6. QED
    BY <1>1, <1>2, <1>3, <1>4, <1>5 DEF Next

LEMMA Invariance == Spec => []IInv
  BY InitHolds, NextKeeps, PTL DEF Spec

-----------------------------------------------------------------------------
\* What a transaction is parsed into

\* The sum that Net takes.
Owned(balances, holder) ==
    MapThenFoldSet(+, 0, LAMBDA i : balances[i].amount, LAMBDA S : CHOOSE i \in S : TRUE,
                   {i \in DOMAIN balances : HolderOf(balances[i]) = holder})

\* Where a holder has one account of a mint, what AmountIn finds is the sum.
LEMMA SumOfOne ==
  ASSUME NEW balances, balances \in Seq(Range(balances)), \A b \in Range(balances) : b.amount \in Nat,
         \A i, j \in DOMAIN balances : HolderOf(balances[i]) = HolderOf(balances[j]) => i = j,
         NEW holder
  PROVE  Owned(balances, holder) = AmountIn(balances, holder)
  <1> DEFINE S == {i \in DOMAIN balances : HolderOf(balances[i]) = holder}
             StepOf(f, s) == IF s = {} THEN 0
                             ELSE LET x == CHOOSE i \in s : TRUE
                                  IN  balances[x].amount + f[s \ {x}]
             iter == CHOOSE f : f = [s \in SUBSET S |-> StepOf(f, s)]
  <1>1. Owned(balances, holder) = iter[S]
    BY DEF Owned, MapThenFoldSet
  <1>2. AmountIn(balances, holder) = IF S = {} THEN 0 ELSE balances[Max(S)].amount
    BY DEF AmountIn
  <1>3. Len(balances) \in Nat /\ DOMAIN balances = 1..Len(balances)
    OBVIOUS
  <1>4. CASE S = {}
    <2> DEFINE g == [s \in SUBSET S |-> 0]
    <2>1. g = [s \in SUBSET S |-> StepOf(g, s)]
      BY <1>4
    <2>2. iter = [s \in SUBSET S |-> StepOf(iter, s)]
      <3> HIDE DEF StepOf, g
      <3>1. QED
        BY <2>1
    <2> HIDE DEF iter
    <2>3. iter[S] = StepOf(iter, S)
      <3> HIDE DEF StepOf
      <3>1. QED
        BY <2>2
    <2>4. QED
      BY <1>1, <1>2, <1>4, <2>3
  <1>5. CASE S # {}
    <2>1. Max(S) \in S
      BY <1>3, <1>5, MaxIsIn
    <2>2. PICK i : i = Max(S)
      OBVIOUS
    <2>3. S = {i} /\ i \in DOMAIN balances
      BY <2>1, <2>2
    <2>4. balances[i].amount \in Nat
      BY <2>3 DEF Range
    <2> DEFINE g == [s \in SUBSET S |-> IF s = {} THEN 0 ELSE balances[i].amount]
    <2>5. ASSUME NEW f, NEW s \in SUBSET S, s # {}
          PROVE  StepOf(f, s) = balances[i].amount + f[{}]
      <3>1. s = {i} /\ (CHOOSE x \in s : TRUE) = i /\ s \ {i} = {}
        BY <2>3, <2>5
      <3>2. QED
        BY <2>5, <3>1
    <2>6. ASSUME NEW f PROVE StepOf(f, {}) = 0
      OBVIOUS
    <2> HIDE DEF StepOf
    <2>7. g = [s \in SUBSET S |-> StepOf(g, s)]
      <3>1. g[{}] = 0
        OBVIOUS
      <3>2. ASSUME NEW s \in SUBSET S PROVE g[s] = StepOf(g, s)
        <4>1. CASE s = {}
          BY <2>6, <3>1, <4>1
        <4>2. CASE s # {}
          <5>1. StepOf(g, s) = balances[i].amount + 0
            BY <2>5, <3>1, <4>2
          <5>2. g[s] = balances[i].amount
            BY <4>2
          <5>3. QED
            BY <2>4, <5>1, <5>2
        <4>3. QED
          BY <4>1, <4>2
      <3>3. QED
        BY <3>2
    <2>8. iter = [s \in SUBSET S |-> StepOf(iter, s)]
      <3> HIDE DEF g
      <3>1. QED
        BY <2>7
    <2> HIDE DEF iter, S
    <2>9. iter[S] = StepOf(iter, S) /\ iter[{}] = StepOf(iter, {})
      BY <2>8
    <2>10. iter[{}] = 0
      BY <2>6, <2>9
    <2>11. iter[S] = balances[i].amount + 0
      BY <1>5, <2>5, <2>9, <2>10
    <2>12. QED
      BY <1>1, <1>2, <1>5, <2>2, <2>4, <2>11
  <1>6. QED
    BY <1>4, <1>5

LEMMA NetIs ==
  ASSUME NEW tx, OneAccountEach(tx),
         \A balances \in {tx.pre, tx.post} :
            balances \in Seq(Range(balances)) /\ \A b \in Range(balances) : b.amount \in Nat,
         NEW holder
  PROVE  Net(tx, holder) = Diff(tx, holder)
  <1>1. ASSUME NEW balances \in {tx.pre, tx.post}
        PROVE  Owned(balances, holder) = AmountIn(balances, holder)
    BY SumOfOne DEF OneAccountEach
  <1>2. Net(tx, holder) = Owned(tx.post, holder) - Owned(tx.pre, holder)
    BY DEF Net, Owned
  <1>3. QED
    BY <1>1, <1>2 DEF Diff

LEMMA TransferIs ==
  ASSUME NEW from, NEW to, NEW mint, NEW amount
  PROVE  /\ Transfer(from, to, mint, amount).to = to
         /\ Transfer(from, to, mint, amount).mint = mint
         /\ Transfer(from, to, mint, amount).amount = amount
  BY DEF Transfer

\* What a receipt may rest on, and an entry of a list whose receipt does.
Gained(tx, t) == t.amount > 0 /\ Net(tx, <<t.to, t.mint>>) = t.amount
Instructed(tx, t)   == \E k \in DOMAIN tx.instructions :
                    LET s == tx.instructions[k]
                    IN  IsTransfer(s) /\ t = Transfer(s.from, s.to, s.mint, s.amount)

Receipt(entry, txs) ==
    \A tx \in ToSet(txs) :
        tx.id = entry.hash /\ entry.whole /\ entry.ok /\ entry.transfer # Nothing /\ OneAccountEach(tx)
        => Gained(tx, entry.transfer) \/ Instructed(tx, entry.transfer)

\* A transfer is parsed from what somebody gained, or from an instruction.
LEMMA ParsedIs ==
  ASSUME NEW txs, IsBlock(txs), NEW tx \in Range(txs), OneAccountEach(tx),
         NEW t \in parseTransactionResult(tx), t # Nothing
  PROVE  Gained(tx, t) \/ Instructed(tx, t)
  <1> DEFINE I == {i \in DOMAIN tx.instructions : IsTransfer(tx.instructions[i])}
  <1>1. /\ \A balances \in {tx.pre, tx.post} :
              balances \in Seq(Range(balances)) /\ \A b \in Range(balances) : b.amount \in Nat
        /\ tx.instructions \in Seq(Range(tx.instructions))
    BY DEF IsBlock
  <1>2. CASE t \in parseSPLFromTokenBalances(tx)
    <2>1. PICK k \in Holders(tx), l \in Holders(tx) :
                 Diff(tx, l) > 0 /\ t = Transfer(k[1], l[1], l[2], Diff(tx, l))
      BY <1>2 DEF parseSPLFromTokenBalances
    <2>2. <<l[1], l[2]>> = l
      BY DEF Holders, HolderOf
    <2>3. t.to = l[1] /\ t.mint = l[2] /\ t.amount = Diff(tx, l)
      BY <2>1, TransferIs
    <2>4. Net(tx, l) = Diff(tx, l)
      BY <1>1, NetIs
    <2>5. QED
      BY <2>1, <2>2, <2>3, <2>4 DEF Gained
  <1>3. CASE t \notin parseSPLFromTokenBalances(tx)
    <2>1. /\ parseSPLFromTokenBalances(tx) = {}
          /\ t \in IF I = {} THEN {Nothing}
                   ELSE {Transfer(tx.instructions[Min(I)].from, tx.instructions[Min(I)].to,
                                  tx.instructions[Min(I)].mint, tx.instructions[Min(I)].amount)}
      BY <1>3 DEF parseTransactionResult
    <2>2. I # {} /\ t = Transfer(tx.instructions[Min(I)].from, tx.instructions[Min(I)].to,
                                 tx.instructions[Min(I)].mint, tx.instructions[Min(I)].amount)
      BY <2>1
    <2>3. I \in SUBSET Nat
      BY <1>1
    <2>4. Min(I) \in I
      BY <2>2, <2>3, MinIsIn
    <2>5. QED
      BY <2>2, <2>4 DEF Instructed
  <1>4. QED
    BY <1>2, <1>3

-----------------------------------------------------------------------------
\* What follows

\* GetTransactionRange never has more goroutines at work than the semaphore has
\* places, for any number of transactions of a block, and each of them has left
\* one result or one error by the end.
THEOREM SolanaTypesHold == Spec => []TypeOK
  <1>1. IInv => TypeOK
    <2>1. SUFFICES ASSUME IInv PROVE TypeOK
      OBVIOUS
    <2>2. step \in [Callers -> Steps]
      BY <2>1 DEF IInv, DataInv
    <2>3. ASSUME NEW c \in Callers
          PROVE  /\ fetch[c].held = Cardinality({i \in DOMAIN fetch[c].at : fetch[c].at[i] = "in"})
                 /\ fetch[c].held <= maxConcurrent
                 /\ Len(fetch[c].results) + fetch[c].errors
                      = Cardinality({i \in DOMAIN fetch[c].at : fetch[c].at[i] = "out"})
                 /\ \A i \in DOMAIN fetch[c].retry : fetch[c].retry[i] \in 0..maxRetries - 1
                 /\ attempt[c] \in 0..Retries
                 /\ Len(told[c]) <= Len(signed[c])
      <3>1. Counted(fetch[c]) /\ Progress(c)
        BY <2>1 DEF IInv, CallerInv
      <3>2. fetch[c] \in Fetches /\ attempt[c] \in 0..Retries
        BY <2>1, ListTypes DEF IInv
      <3>3. \A i \in DOMAIN fetch[c].retry : fetch[c].retry[i] \in 0..maxRetries - 1
        <4>1. fetch[c].retry \in Seq(0..maxRetries-1)
          BY <3>2 DEF Fetches
        <4>2. \A S, r : r \in Seq(S) => \A i \in DOMAIN r : r[i] \in S
          OBVIOUS
        <4>3. QED
          BY <4>1, <4>2
      <3>4. QED
        BY <3>1, <3>2, <3>3 DEF Counted, At, Progress
    <2>4. QED
      BY <2>2, <2>3 DEF TypeOK, Steps
  <1>2. QED
    BY <1>1, Invariance, PTL

\* An answer of GetBatchBlock has each slot of the range in its place and each
\* transaction of a listed block once, in whatever order its goroutines ended.
THEOREM BlocksAreListedWhole == Spec => []BlocksAreWhole
  <1>1. IInv => BlocksAreWhole
    <2>1. SUFFICES ASSUME IInv, NEW c \in Callers, work[c].kind = "range", step[c] = "done"
                   PROVE  /\ \A i \in DOMAIN listed[c] :
                               LET b == listed[c][i]
                               IN  /\ \A j \in 1..i-1 : listed[c][j].slot < b.slot
                                   /\ IF ~b.there THEN b.txs = <<>>
                                      ELSE /\ b.slot <= seen[c]
                                           /\ work[c].with =>
                                                /\ Len(b.txs) = Len(ledger[b.slot])
                                                /\ HashesOf(b.txs) = {ledger[b.slot][k].id :
                                                                        k \in DOMAIN ledger[b.slot]}
                                                /\ \A k, l \in DOMAIN b.txs :
                                                      b.txs[k].whole = b.txs[l].whole
                          /\ \A h \in work[c].first..work[c].last :
                               (\A i \in DOMAIN listed[c] : listed[c][i].slot # h)
                               => h \in failed[c] \/ (h \in DOMAIN ledger /\ ledger[h] = Skipped)
      BY DEF BlocksAreWhole
    <2>2. RangeInv(c) /\ IsWork(work[c]) /\ next[c] \in Nat /\ seen[c] \in Nat
      BY <2>1, ListTypes DEF IInv, CallerInv
    <2>3. ASSUME NEW i \in DOMAIN listed[c]
          PROVE  LET b == listed[c][i]
                 IN  /\ \A j \in 1..i-1 : listed[c][j].slot < b.slot
                     /\ IF ~b.there THEN b.txs = <<>>
                        ELSE /\ b.slot <= seen[c]
                             /\ work[c].with => Whole(b.txs, ledger[b.slot])
      <3>1. Shown(listed[c][i], seen[c], ledger, work[c].with)
        BY <2>1, <2>2 DEF RangeInv
      <3>2. \A j \in 1..i-1 : listed[c][j].slot < listed[c][i].slot
        BY <2>1, <2>2 DEF RangeInv
      <3>3. QED
        BY <2>2, <3>1, <3>2 DEF Shown
    <2>4. ASSUME NEW h \in work[c].first..work[c].last, \A i \in DOMAIN listed[c] : listed[c][i].slot # h
          PROVE  h \in failed[c] \/ (h \in DOMAIN ledger /\ ledger[h] = Skipped)
      <3>1. h \in work[c].first..next[c]-1
        <4>1. work[c].first \in Nat /\ work[c].last \in Nat /\ work[c].last < next[c]
          BY <2>1, <2>2 DEF RangeInv, IsWork
        <4>2. QED
          BY <2>2, <4>1
      <3>2. QED
        BY <2>1, <2>2, <2>4, <3>1 DEF RangeInv
    <2>5. QED
      BY <2>3, <2>4 DEF Whole
  <1>2. QED
    BY <1>1, Invariance, PTL

\* Of truly labelled signatures assembleSignedTransaction puts each signer's own
\* in its place, however many keys and signers there are and whatever is sent for
\* other envelopes; and SendTransaction reports as sent only what verified at the
\* node, through every loss of a request or an answer.
THEOREM SignersSigned == Spec => []SignedByItsSigners
  <1>1. IInv => SignedByItsSigners
    BY DEF IInv, CallerInv, SignedInv, SignedByItsSigners
  <1>2. QED
    BY <1>1, Invariance, PTL

\* parseTransactionResult invents no receipt, in whatever order Go visits the
\* balances, for any accounts of any owners and mints.
THEOREM ReceiptsAreReal == Spec => []ReceiptsHappened
  <1>1. IInv => ReceiptsHappened
    <2>1. SUFFICES ASSUME IInv, NEW c \in Callers, NEW i \in DOMAIN listed[c],
                          NEW j \in DOMAIN listed[c][i].txs
                   PROVE  Receipt(listed[c][i].txs[j], ledger[listed[c][i].slot])
      BY DEF ReceiptsHappened, Receipt, Gained, Instructed
    <2> DEFINE h     == listed[c][i].slot
               entry == listed[c][i].txs[j]
    <2>2. /\ RangeInv(c) /\ IsWork(work[c]) /\ seen[c] \in Nat
          /\ listed[c] \in Seq(Blocks) /\ DOMAIN listed[c] = 1..Len(listed[c])
      BY <2>1, ListTypes DEF IInv, CallerInv
    <2>3. work[c].kind = "range"
      <3>1. listed[c] # <<>>
        BY <2>1
      <3>2. QED
        BY <2>2, <3>1 DEF RangeInv, IsWork
    <2>4. Shown(listed[c][i], seen[c], ledger, work[c].with)
      BY <2>2, <2>3 DEF RangeInv
    <2>5. /\ h \in 1..seen[c] /\ ledger[h] # Skipped
          /\ Whole(listed[c][i].txs, ledger[h])
      <3>1. listed[c][i].txs # <<>>
        BY <2>1
      <3>2. QED
        BY <2>4, <3>1 DEF Shown
    <2>6. h \in 1..Len(ledger)
      <3>1. seen[c] <= head
        BY <2>2 DEF RangeInv
      <3>2. Len(ledger) \in Nat /\ head \in Nat /\ head <= Len(ledger)
        BY <2>1, LedgerLength DEF IInv
      <3>3. QED
        BY <2>2, <2>5, <3>1, <3>2
    <2>7. IsBlock(ledger[h])
      BY <2>1, <2>5, <2>6, LedgerBlock DEF IInv
    <2>8. ASSUME NEW tx \in ToSet(ledger[h]), tx.id = entry.hash, entry.whole,
                 entry.transfer # Nothing, OneAccountEach(tx)
          PROVE  Gained(tx, entry.transfer) \/ Instructed(tx, entry.transfer)
      <3>1. PICK own \in Range(ledger[h]) : entry \in ItemsOf(own)
        BY <2>1, <2>5 DEF Whole
      <3>2. PICK t \in parseTransactionResult(own) : entry = Hydrated(own, t)
        BY <2>8, <3>1, HashOnlyIs DEF ItemsOf
      <3>3. entry.hash = own.id /\ entry.transfer = t
        BY <3>2 DEF Hydrated
      <3>4. own = tx
        <4>1. PICK k, l \in DOMAIN ledger[h] : own = ledger[h][k] /\ tx = ledger[h][l]
          BY <2>8, <3>1 DEF Range, ToSet
        <4>2. QED
          BY <2>7, <2>8, <3>3, <4>1 DEF IsBlock
      <3>5. QED
        BY <2>7, <2>8, <3>1, <3>2, <3>3, <3>4, ParsedIs
    <2>9. QED
      BY <2>8 DEF Receipt
  <1>2. QED
    BY <1>1, Invariance, PTL

=============================================================================
