----------------------------- MODULE MCGateway -----------------------------
(***************************************************************************)
(* One client asks for anything, another for one query whose handler       *)
(* panics when the node fails.                                             *)
(***************************************************************************)
EXTENDS Gateway

CONSTANTS c1, c2

Request(chain, method, shapes) ==
    [token |-> TRUE, chain |-> chain, method |-> method, shapes |-> shapes]

\* The queries of a chain, with the shapes that its handlers tell apart.
AnyQuery ==
    UNION {{Request(chain, method, <<shape>>) :
              method \in QueriesOf(chain),
              shape \in {"plain", "contract call", "creation", "malformed", "no inputs"}} :
           chain \in Chains}

AnyList ==
    {Request(chain, method, <<"malformed", shape>>) :
        chain \in Chains, method \in Lists,
        shape \in {"plain", "too short"}}

MCRequests ==
    [c \in {c1, c2} |->
       IF c = c1
       THEN AnyQuery \cup AnyList
            \cup {Request("bitcoin", "SendTransaction", <<"malformed", "plain">>),
                  Request("dogecoin", "GetBlock", <<"plain">>),
                  Request("dogecoin", "GetSupportChains", <<"plain">>),
                  [Request("bitcoin", "GetBlock", <<"plain">>) EXCEPT !.token = FALSE]}
       ELSE {Request("ethereum", "GetBlock", <<"plain">>)}]

\* The configuration names a chain that nothing is known of.
MCConfigured == <<"ethereum", "dogecoin", "bnb", "bitcoin", "tron", "solana">>

=============================================================================
