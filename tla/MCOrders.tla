------------------------------ MODULE MCOrders ------------------------------
(***************************************************************************)
(* The order list (OrderList), with two orders of one asset's market, one  *)
(* of them own, and a token order; and, in other behaviours, the reviews   *)
(* (OrderSign) of two orders.  `part' says which one a behaviour is of;    *)
(* the other stays as it was in the beginning.                             *)
(***************************************************************************)
EXTENDS OrderList

CONSTANTS None, m1, m2

MCOrder == {"bid", "own", "token"}
MCAssetOf == [o \in MCOrder |-> IF o = "token" THEN "gold" ELSE "usdt"]
MCOwn == {"own"}
MCSwapAsset == {"usdt"}

VARIABLES
    part, online, submit_data, active_submits, active_sign, visible_submit,
    waiting_submit, pending_sign_prompts, pending_sign_requests, pending_signs,
    pending_submits, pending_links, processed_signs, pending_succeed, shown_succeed,
    pc, taken, review, fromUi, agreed, terms, autoOn, sent, psets, final,
    clicks, notifs, faults, logouts, restarts

R == INSTANCE OrderSign WITH
        connected <- online, Order <- {m1, m2}, Taken <- {}, Index <- {}, Price <- {10}, Relinks <- FALSE,
        MaxClicks <- 2, MaxNotifs <- 3, MaxFaults <- 1, MaxLogouts <- 0, MaxRestarts <- 0

reviewVars == <<online, submit_data, active_submits, active_sign, visible_submit,
    waiting_submit, pending_sign_prompts, pending_sign_requests, pending_signs,
    pending_submits, pending_links, processed_signs, pending_succeed, shown_succeed,
    pc, taken, review, fromUi, agreed, terms, autoOn, sent, psets, final,
    clicks, notifs, faults, logouts, restarts>>
allVars == <<vars, reviewVars, part>>

OrdersInit == Init /\ R!Init /\ part \in {"list", "reviews"}

Of_list(A) == part = "list" /\ A /\ UNCHANGED <<reviewVars, part>>
Of_reviews(A) == part = "reviews" /\ A /\ UNCHANGED <<vars, part>>

OrdersNext == Of_list(Next) \/ Of_reviews(R!Next)

(* The fairness of the list's worker, thread and server, and that of       *)
(* OrderSign's LiveSpec.                                                   *)
OrdersSpec ==
    /\ OrdersInit /\ [][OrdersNext]_allVars
    /\ WF_allVars(Of_list(WorkerStep))
    /\ WF_allVars(Of_list(ThreadStep))
    /\ WF_allVars(Of_list(ServerServes))
    /\ WF_allVars(Of_reviews(R!PendingStep))
    /\ WF_allVars(Of_reviews(R!process_ui))
    /\ WF_allVars(Of_reviews(R!process_ws_connected))
    /\ WF_allVars(Of_reviews(R!UserDecision))
-----------------------------------------------------------------------------
(* In the end every review is decided, every prompt was shown and every    *)
(* request is carried out (ReviewsSettle of OrderSign).                    *)
ReviewsSettle == R!ReviewsSettle

(* After the last loss, failed ping or failed login the client is online   *)
(* for good, with nothing left to handle (ListComesBack of OrderList).     *)
ListReturns == part = "list" => ListComesBack
=============================================================================
