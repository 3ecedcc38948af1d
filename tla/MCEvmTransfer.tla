--------------------------- MODULE MCEvmTransfer ---------------------------
(***************************************************************************)
(* Two wallet programs use one account: one sends two payloads in a batch, *)
(* the other a single one, which may have something wrong with it.         *)
(***************************************************************************)
EXTENDS EvmTransfer

CONSTANTS w1, w2, a1

Transfer(id, form) == [id |-> id, from |-> a1, form |-> form]

MCBatches ==
    [w \in {w1, w2} |->
       IF w = w1 THEN {<<Transfer("p1", "ok"), Transfer("p2", "ok")>>}
                 ELSE {<<Transfer("p3", form)>> : form \in Forms}]

\* A quiet market, and one in which both fees are more than a tenth higher.
MCMarkets == {[gasPrice |-> QuoteFailed, tip |-> 0, baseFee |-> 0],
              [gasPrice |-> 40, tip |-> 12, baseFee |-> 12]}

=============================================================================
