------------------------------ MODULE GasFees ------------------------------
(***************************************************************************)
(* The EIP-1559 fee arithmetic of chain/evmbase/gas.go and                 *)
(* chain/evmbase/send_retry.go.  Amounts are in one unit, fixed by the     *)
(* values given to the two defaults; divisions truncate as big.Int.Div     *)
(* does on the non-negative operands that occur here.                      *)
(***************************************************************************)
EXTENDS Integers

CONSTANTS
    DefaultGasTipCap,   \* 1 gwei in the code
    DefaultGasFeeCap    \* 3 gwei in the code

ASSUME DefaultFeesAssumption ==
    /\ DefaultGasTipCap \in Nat \ {0}
    /\ DefaultGasFeeCap \in Nat \ {0}
    /\ DefaultGasTipCap <= DefaultGasFeeCap

\* The fee pair of an outer transaction: neither part is ever zero and the
\* cap covers the tip, or the node refuses the transaction outright.
FeePairs == {f \in [tip : Nat \ {0}, cap : Nat \ {0}] : f.tip <= f.cap}

\* eth_gasPrice failed: ResolveEip1559GasFees returns an error.
QuoteFailed == -1

\* What the three fee calls answer: 0 stands for an absent, zero or failed
\* tip or base fee, which the code treats alike.
MarketQuotes == [gasPrice : Nat \cup {QuoteFailed}, tip : Nat, baseFee : Nat]

AtLeast(x, floor) == IF x < floor THEN floor ELSE x

\* A slip: the tenth of a tiny gas price is not raised to one unit.
ResolveWithoutFloor(quote) ==
    LET gasPrice == IF quote.gasPrice <= 0 THEN DefaultGasFeeCap
                                           ELSE quote.gasPrice
        tip      == IF quote.tip <= 0 THEN gasPrice \div 10 ELSE quote.tip
    IN  [tip |-> tip, cap |-> 2 * quote.baseFee + tip]

ResolveEip1559GasFees(quote) ==
    LET gasPrice == IF quote.gasPrice <= 0 THEN DefaultGasFeeCap
                                           ELSE quote.gasPrice
        tip      == IF quote.tip <= 0 THEN AtLeast(gasPrice \div 10, 1)
                                      ELSE quote.tip
        cap      == IF quote.baseFee > 0 THEN 2 * quote.baseFee + tip
                                         ELSE (12 * gasPrice) \div 10
    IN  [tip |-> tip, cap |-> AtLeast(cap, tip)]

DefaultEip1559GasFees == [tip |-> DefaultGasTipCap, cap |-> DefaultGasFeeCap]

\* A slip: the percentage counted from the attempt before this one.
BumpOneAttemptBehind(fee, attempt) ==
    LET multiplier == 100 + 20 * (attempt - 1)
    IN  [tip |-> (fee.tip * multiplier) \div 100,
         cap |-> (fee.cap * multiplier) \div 100]

BumpEip1559GasFees(fee, attempt) ==
    LET multiplier == 120 + 20 * attempt
        tip        == AtLeast((fee.tip * multiplier) \div 100, 1)
        cap        == (fee.cap * multiplier) \div 100
    IN  [tip |-> tip, cap |-> AtLeast(cap, tip)]

=============================================================================
