--------------------------- MODULE GasFeesProofs ---------------------------
(***************************************************************************)
(* What the fee arithmetic of GasFees returns, for every answer of a node. *)
(***************************************************************************)
EXTENDS GasFees, TLAPS

\* The fallback fees are fees a node accepts.
LEMMA DefaultIsFeePair == DefaultEip1559GasFees \in FeePairs
  BY DefaultFeesAssumption DEF DefaultEip1559GasFees, FeePairs

\* Whatever the node quotes, ResolveEip1559GasFees returns a positive tip
\* and a cap that covers it.
LEMMA ResolvedIsFeePair ==
  ASSUME NEW quote \in MarketQuotes
  PROVE  ResolveEip1559GasFees(quote) \in FeePairs
  <1> DEFINE gasPrice == IF quote.gasPrice <= 0 THEN DefaultGasFeeCap
                                                ELSE quote.gasPrice
             tip == IF quote.tip <= 0 THEN AtLeast(gasPrice \div 10, 1)
                                      ELSE quote.tip
             cap == IF quote.baseFee > 0 THEN 2 * quote.baseFee + tip
                                         ELSE (12 * gasPrice) \div 10
  <1>1. gasPrice \in Nat \ {0}
    BY DefaultFeesAssumption DEF MarketQuotes, QuoteFailed
  <1>2. tip \in Nat \ {0}
    BY <1>1 DEF AtLeast, MarketQuotes
  <1>3. cap \in Nat
    BY <1>1, <1>2 DEF MarketQuotes
  <1> HIDE DEF gasPrice, tip, cap
  <1>4. [tip |-> tip, cap |-> AtLeast(cap, tip)] \in FeePairs
    BY <1>2, <1>3 DEF AtLeast, FeePairs
  <1>5. QED
    BY <1>4 DEF ResolveEip1559GasFees, gasPrice, tip, cap

=============================================================================
