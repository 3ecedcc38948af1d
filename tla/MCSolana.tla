------------------------------ MODULE MCSolana ------------------------------
(***************************************************************************)
(* One caller reads three slots, the first of them with three transactions *)
(* behind a semaphore of two places, or makes transfers with one or two    *)
(* signers; another reads headers meanwhile.                               *)
(***************************************************************************)
EXTENDS Solana, TLC

CONSTANTS a1, b1

Balance(owner, mint, amount) == [owner |-> owner, mint |-> mint, amount |-> amount]
Instruction(program, from, to, mint, amount) ==
    [program |-> program, from |-> from, to |-> to, mint |-> mint, amount |-> amount]

\* One sender and two receivers of a token.
Split == [id |-> "split", chars |-> 88, ok |-> TRUE,
          pre  |-> <<Balance("u", "m", 10), Balance("v", "m", 0)>>,
          post |-> <<Balance("u", "m", 0), Balance("v", "m", 4), Balance("w", "m", 6)>>,
          instructions |-> <<Instruction("token", "u", "v's account", "", 4),
                             Instruction("token", "u", "w's account", "", 6)>>]

\* Two mints change hands; one owner has two accounts.
Swap == [id |-> "swap", chars |-> 88, ok |-> TRUE,
         pre  |-> <<Balance("u", "m", 5), Balance("v", "n", 7), Balance("v", "m", 1)>>,
         post |-> <<Balance("u", "n", 7), Balance("v", "n", 0), Balance("v", "m", 6), Balance("u", "m", 0)>>,
         instructions |-> <<>>]

Own == [Swap EXCEPT !.id = "own",
                    !.pre = <<Balance("u", "m", 9), Balance("u", "m", 0), Balance("v", "m", 3)>>,
                    !.post = <<Balance("u", "m", 5), Balance("u", "m", 4), Balance("v", "m", 2)>>]

\* A payment that failed, after something else.
Native == [id |-> "native", chars |-> 88, ok |-> FALSE, pre |-> <<>>, post |-> <<>>,
           instructions |-> <<Instruction("other", "", "", "", 0),
                              Instruction("system", "u", "v", "", 2)>>]

\* The text of a signature may also have 87 characters.
Brief == [Native EXCEPT !.id = "brief", !.chars = 87, !.ok = TRUE]

MCLedgers == {<<<<Split, Native, Swap>>, Skipped>>,
              <<<<Split, Brief>>, <<>>, <<Own>>>>}

Payload(from, payer, hash, form) ==
    [from |-> from, payer |-> payer, hash |-> hash, form |-> form]

MCWork ==
    {a1 :> w[1] @@ b1 :> w[2] :
       w \in {<<Heights(1, 3, TRUE), Heights(3, 2, FALSE)>>,
             <<Transfers(<<Payload("k", "p", 0, "ok")>>), Heights(3, 2, FALSE)>>,
             <<Transfers(<<Payload("k", "k", 2, "ok"), Payload("k", "k", 1, "ok")>>), Heights(3, 2, TRUE)>>,
             <<Transfers(<<Payload("k", "k", 0, "malformed"), Payload("k", "k", 0, "bad hash")>>),
               Heights(2, 2, FALSE)>>,
             <<Transfers(<<Payload("k", "k", 0, "bad hash")>>), Heights(3, 2, FALSE)>>}}

=============================================================================
