----------------------------- MODULE MCServices -----------------------------
(***************************************************************************)
(* The programs that run unattended, one after the other: the transfers of *)
(* the Bitfinex dealer (BfxRatio), its main loop (BfxMain) and the         *)
(* headless server (HeadlessServer).  `part' says which one a behaviour is *)
(* of; the state of the last two is kept in the same variables.            *)
(***************************************************************************)
EXTENDS BfxRatio

CONSTANTS Price, Interest, MinHedge, SignLimit

VARIABLES part, net, main, srv, side, told, subs, faults

Swap(id, instant, send, amount) == [id |-> id, instant |-> instant, send |-> send, amount |-> amount]
Setup(warm, server, n, deals) == [warm |-> warm, server |-> server, faults |-> n, deals |-> deals]
BfxSetups ==
    {Setup(FALSE, TRUE, 1, {}),
     Setup(TRUE, TRUE, 1, {Swap(1, TRUE, TRUE, 100)}),
     Setup(TRUE, TRUE, 1, {Swap(1, TRUE, FALSE, 10), Swap(2, FALSE, TRUE, 10)}),
     Setup(TRUE, FALSE, 1, {Swap(1, FALSE, FALSE, 100)}),
     Setup(TRUE, FALSE, 0, {Swap(1, FALSE, FALSE, 100), Swap(2, FALSE, TRUE, 50)})}

Req(n, key, amount) == [n |-> n, key |-> key, amount |-> amount]
SameKey == {Req(1, 1, 1), Req(2, 1, 1)}
NoKey == {Req(1, 0, 1), Req(2, 0, 2)}
HeadlessSetups ==
    {[reqs |-> SameKey, coins |-> {1, 2}, removals |-> FALSE, faults |-> 0, warm |-> TRUE],
     [reqs |-> SameKey, coins |-> {1}, removals |-> FALSE, faults |-> 1, warm |-> TRUE],
     [reqs |-> NoKey, coins |-> {1, 2}, removals |-> TRUE, faults |-> 1, warm |-> FALSE],
     [reqs |-> {Req(1, 0, 1)}, coins |-> {1}, removals |-> TRUE, faults |-> 2, warm |-> FALSE]}

B == INSTANCE BfxMain WITH Setups <- BfxSetups, d <- main, px <- side
H == INSTANCE HeadlessServer WITH Setups <- HeadlessSetups, data <- main, api <- side, wal <- told

ratioVars == <<balances, moved>>
serviceVars == <<net, main, srv, side, told, subs, faults>>
allVars == <<ratioVars, serviceVars, part>>

NoRatio == wallet_btc = 0 /\ exchange_btc = 0 /\ wallet_usdt = 0 /\ exchange_usdt = 0 /\ moved = {}
NoService == net = 0 /\ main = 0 /\ srv = 0 /\ side = 0 /\ told = 0 /\ subs = 0 /\ faults = 0

ServicesInit ==
    \/ part = "ratio" /\ Init /\ NoService
    \/ part = "main" /\ B!Init /\ NoRatio
    \/ part = "headless" /\ H!Init /\ NoRatio /\ subs = 0

Of_ratio == part = "ratio" /\ Next /\ UNCHANGED <<serviceVars, part>>
Of_main(A) == part = "main" /\ A /\ UNCHANGED <<ratioVars, part>>
Of_headless(A) == part = "headless" /\ A /\ UNCHANGED <<ratioVars, subs, part>>

ServicesNext == Of_ratio \/ Of_main(B!Next) \/ Of_headless(H!Next)

ServicesSpec ==
    /\ ServicesInit /\ [][ServicesNext]_allVars
    /\ WF_allVars(Of_main(B!Main) \/ Of_headless(H!Worker))
    /\ WF_allVars(Of_main(B!ServerAnswers) \/ Of_headless(H!ServerAnswers))
    /\ WF_allVars(Of_main(B!Socket) \/ Of_headless(H!Socket))
    /\ WF_allVars(Of_main(B!ModuleUp) \/ Of_headless(H!Wallet))
    /\ WF_allVars(Of_main(B!Proxy))
-----------------------------------------------------------------------------
(* The shape of the state of the main loop; it takes no reply for another  *)
(* request's (send_request), and the dealer library knows the last price   *)
(* and limits of the exchange.                                             *)
MainKnowsThePresent == part = "main" => B!TypeOK /\ B!ReplyIsOwn /\ B!DealerIsTold

(* Every swap done is known and hedged once, with the right amount, and a  *)
(* hedge order that did not reach the exchange is reported.                *)
MainSwapsHedged == part = "main" => B!SwapsAreKnown /\ B!SwapsHedged /\ B!LostOrdersReported

(* The exchange is logged in to again after any loss.                      *)
MainModuleRecovers == <>[](part = "main" => side.logged /\ main.module_connected)

(* The shape of the state of the headless server: sign_request_count is    *)
(* the number of signatures under way.  The coins of an order are not used *)
(* by another, and one order of a key is confirmed and not failed.         *)
HeadlessPromisesOnce ==
    part = "headless" => H!TypeOK /\ H!SignsCounted /\ H!CoinsReserved /\ H!OneOrderPerKey

(* Every API request is answered in the end, and an order reported as      *)
(* failed is withdrawn.                                                    *)
HeadlessSettles == []<>(part = "headless" => H!AllAnswered) /\ []<>(part = "headless" => H!FailedAreGone)
=============================================================================
