------------------------------ MODULE MCDealer ------------------------------
EXTENDS Dealer
At(p) == [bid |-> p, ask |-> p]
Rich == [btc |-> 1000, asset |-> 2800000, blinded |-> TRUE]
Poor == [btc |-> 350, asset |-> 0, blinded |-> TRUE]
Maker(price, n, f) == [sides |-> {TRUE}, offers |-> {}, price |-> price, wallet |-> Rich,
                       inputs |-> n, faults |-> f]
Taker(price, n, f) == [Maker(price, n, f) EXCEPT !.sides = {},
    !.offers = {[id |-> -1, send |-> FALSE, amount |-> 300, price |-> 9000]}]
MCSetups ==
    {Maker(At(10000), 1, 1), Maker(NoPrice, 1, 0), Taker(At(10000), 1, 1)}
MCPairs == {At(11000)}
MCLimits == {[recvAsset |-> 2500000]}
MCBalances == {Rich, Poor}
-----------------------------------------------------------------------------
(* The shape of the state, with at most one request under way, and replies *)
(* that are read by the handler that asked for them (send_request).        *)
CallsAreOwn == TypeOK /\ ReplyIsOwn

(* Every swap is known when it completes and reported to the owner once,   *)
(* with its amount.                                                        *)
SwapsReported == SwapsAreKnown /\ SwapsReportedOnce

(* The dealer never offers or takes the same thing twice: one open order   *)
(* of a side, and one request for an order of the list.                    *)
OffersOnce == OneOpenOrder /\ TakesOnce

(* No handler waits for ever, and orders without a price are withdrawn.    *)
DealerSettles == HandlersEnd /\ OrdersAreWithdrawn
=============================================================================
