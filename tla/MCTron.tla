------------------------------- MODULE MCTron -------------------------------
(***************************************************************************)
(* Two callers about one account: rentals made and given back at the same  *)
(* time, payments whose block is being read, an activation that is asked   *)
(* for.  The unit of an amount is a tenth of a TRX; the greatest int64     *)
(* lies between what 131001 and what 200001 energy cost.                   *)
(***************************************************************************)
EXTENDS Tron, TLC

CONSTANTS s1, q1, a1

PayloadOf(kind, energy, value, form) ==
    [kind |-> kind, to |-> a1, energy |-> energy, value |-> value, form |-> form]

One(kind, energy, value) == Batch(<<PayloadOf(kind, energy, value, "ok")>>)

MCWork ==
    {s1 :> w[1] @@ q1 :> w[2] :
       w \in {<<One("rent", 65001, 0), One("return", 65001, 0)>>,
             <<One("rent", 131001, 0), Ask("__justlend_rental__", a1)>>,
             <<One("rent", 200001, 250), One("return", 200001, 0)>>,
             <<One("rent", 1, 100), One("return", 65001, 0)>>,
             <<One("return", 131001, 0), One("return", 65001, 0)>>,
             <<One("rent", 65001, 250), One("rent", 0, 250)>>,
             <<Batch(<<PayloadOf("trc20", 0, 1, "malformed"), PayloadOf("transfer", 0, 1, "ok")>>),
               Heights(1, 2)>>,
             <<One("activate", 0, 0), Ask("__activated__", a1)>>,
             <<One("transfer", 0, 1), Heights(0, 1)>>,
             <<Batch(<<PayloadOf("delegate", 0, 0, "short")>>), Heights(2, 1)>>}}

\* The default price in tenths, and one for which the amounts are not whole.
MCPrices   == {10450, 10333}
MCDeposits == {50, 260}

=============================================================================
