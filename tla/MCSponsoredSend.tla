-------------------------- MODULE MCSponsoredSend --------------------------
(***************************************************************************)
(* Small instances of SponsoredSend.  Amounts are in units of 0.1 gwei.    *)
(***************************************************************************)
EXTENDS SponsoredSend

CONSTANTS r1, r2, r3, s1, s2

\* Two calls for one account, and one for another.
MCSenderOf3 == [r \in {r1, r2, r3} |-> IF r = r3 THEN s2 ELSE s1]
MCSenderOf2 == [r \in {r1, r2} |-> s1]

\* A failed quote (the defaults 10/30 are used) and a node without a tip.
MCMarkets == {[gasPrice |-> QuoteFailed, tip |-> 0, baseFee |-> 0],
              [gasPrice |-> 5, tip |-> 0, baseFee |-> 4]}

\* 20% above the defaults a foreign holder of the key pays.
MCRisenMarket == {[gasPrice |-> 40, tip |-> 12, baseFee |-> 12]}

\* A quiet chain that asks for a tip of one unit.
MCLowTip == {[gasPrice |-> 5, tip |-> 1, baseFee |-> 4]}

=============================================================================
