----------------------------- MODULE MCGraphRun -----------------------------
(***************************************************************************)
(* Instances of GraphRun for TLC: small graphs with what validate_graph      *)
(* accepts: branches, a merge, decisions, routers, error routes.             *)
(***************************************************************************)
EXTENDS GraphRun

G(n, edges, merges, approvals, routed, handled) ==
    [nodes |-> 1..n, edges |-> edges,
     kind |-> [i \in 1..n |-> IF i \in merges THEN "merge"
                              ELSE IF i \in approvals THEN "approval" ELSE "step"],
     routes |-> [i \in 1..n |-> IF i \in routed THEN {"yes", "no"} ELSE {}],
     onError |-> [i \in 1..n |-> IF <<i, "route">> \in handled THEN "route"
                                 ELSE IF <<i, "continue">> \in handled THEN "continue"
                                 ELSE "fail"]]

\* A decision beside a branch, both joined by a merge that "no" goes round.
Joined == G(5, {<<1, 2, Plain>>, <<1, 3, Plain>>, <<2, 5, Plain>>, <<3, 5, "yes">>,
                <<3, 4, "no">>}, {5}, {3}, {3}, {})
\* A router, then a decision on one branch, then a second decision.
Chained == G(5, {<<1, 2, "yes">>, <<1, 3, "no">>, <<2, 4, "yes">>, <<2, 4, "no">>,
                 <<3, 4, Plain>>, <<4, 5, Plain>>}, {}, {2, 4}, {1, 2}, {})
\* A node with an error route, one that goes on, a branch.
Guarded == G(5, {<<1, 2, Plain>>, <<2, 3, Plain>>, <<2, 4, Error>>, <<1, 5, Plain>>},
             {}, {}, {}, {<<2, "route">>, <<5, "continue">>})
\* The same, with one more branch and one more node after the failure.
Extended == G(6, {<<1, 2, Plain>>, <<2, 3, Plain>>, <<2, 4, Error>>, <<1, 5, Plain>>,
                  <<1, 6, Plain>>}, {}, {}, {}, {<<2, "route">>, <<5, "continue">>})
\* Two branches, one longer, that end in one router without a merge; a third one
\* meets its decision before what the router calls the second time.
Converging == G(8, {<<1, 4, Plain>>, <<2, 5, Plain>>, <<5, 4, Plain>>, <<4, 8, "no">>,
                    <<3, 6, Plain>>, <<6, 7, Plain>>}, {}, {7}, {4}, {})

MCGraph == <<Joined, Chained, Guarded, Extended, Converging>>
=============================================================================
