---------------------------- MODULE SponsorQueue ----------------------------
(***************************************************************************)
(* What the sponsored-transfer endpoint promises while the node it talks   *)
(* to is consistent: requests take the sponsor's nonces one after the      *)
(* other, each request at most one of them, no nonce is skipped or given   *)
(* to another request later, and a client told "success" holds one.        *)
(* A client told "error" may hold one too: the answer of the node can be   *)
(* lost after the node has taken the transaction.                          *)
(***************************************************************************)
EXTENDS Naturals, Sequences

CONSTANT Requests

VARIABLES
    queue,    \* queue[n + 1] is the request whose transaction has nonce n
    answer    \* what the client of each request was told

vars == <<queue, answer>>

Init ==
    /\ queue = <<>>
    /\ answer = [r \in Requests |-> "none"]

Queued(r) == \E i \in 1..Len(queue) : queue[i] = r

\* The request takes the next nonce; its client learns so unless the answer
\* is lost.
Sponsor(r) ==
    /\ answer[r] = "none"
    /\ ~Queued(r)
    /\ queue' = Append(queue, r)
    /\ \E a \in {"success", "error"} : answer' = [answer EXCEPT ![r] = a]

Refuse(r) ==
    /\ answer[r] = "none"
    /\ answer' = [answer EXCEPT ![r] = "error"]
    /\ UNCHANGED queue

Next == \E r \in Requests : Sponsor(r) \/ Refuse(r)

Spec == Init /\ [][Next]_vars

=============================================================================
