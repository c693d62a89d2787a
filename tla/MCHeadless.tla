----------------------------- MODULE MCHeadless -----------------------------
(* Two orders with the same key, and orders removed by the server.         *)
EXTENDS HeadlessServer

Req(n, key, amount) == [n |-> n, key |-> key, amount |-> amount]
MCRemovals ==
    {[reqs |-> {Req(1, 1, 1), Req(2, 1, 1)}, coins |-> {1, 2}, removals |-> TRUE, faults |-> 0, warm |-> FALSE]}
=============================================================================
