---------------------------- MODULE MCBnbBlocks ----------------------------
(***************************************************************************)
(* Three heights and seven transactions of two users, two tokens of which  *)
(* one is tracked, and an entry point.                                     *)
(***************************************************************************)
EXTENDS BnbBlocks

CONSTANTS u1, u2, usd, other, entry, nobody

Log(token, value) == [token |-> token, from |-> u1, to |-> u2, value |-> value]
Call(to, value, input, ok, logs) ==
    [from |-> u1, to |-> to, value |-> value, input |-> input,
     arg |-> [to |-> u2, amount |-> 5], success |-> ok, logs |-> logs]

\* Two equal token transfers, a bundle that moves two tokens (and nothing,
\* and one amount twice), a native transfer, a failed token transfer, call
\* data that a lenient token accepts, and a creation.
MCTx == [pay1   |-> Call(usd, 0, "transfer", TRUE, <<Log(usd, 5)>>),
         pay2   |-> Call(usd, 0, "transfer", TRUE, <<Log(usd, 5)>>),
         bundle |-> Call(entry, 0, "handleOps", TRUE,
                         <<Log(other, 5), Log(usd, 0), Log(usd, 5), Log(usd, 5)>>),
         gift   |-> Call(u2, 7, "none", TRUE, <<>>),
         failed |-> Call(usd, 0, "transfer", FALSE, <<>>),
         cut    |-> Call(usd, 0, "cut transfer", TRUE, <<Log(usd, 3)>>),
         create |-> Call(nobody, 0, "none", TRUE, <<Log(usd, 2)>>)]

MCTxIds == DOMAIN MCTx

MCBodies == {<<"pay1", "pay2">>, <<"bundle", "failed", "create">>,
             <<"gift", "cut">>, <<>>}

=============================================================================
