----------------------------- MODULE OrderSign ------------------------------
(***************************************************************************)
(* Submitting, reviewing and signing orders in the client's worker         *)
(* (worker.rs).                                                            *)
(*                                                                         *)
(* An order is submitted or linked and shown to the user for review; the   *)
(* accepted order's inputs go to the server (PsetMaker, PsetTaker).  When  *)
(* it is matched, the server asks for a signature, in a notification or in *)
(* a push message after which the client asks for the data itself.  The    *)
(* worker signs at once or asks the user with a second review, of which    *)
(* one is shown at a time.                                                 *)
(*                                                                         *)
(* The price stands for the terms of an order: verify_amounts makes the    *)
(* amounts and the fee a function of it.  The model has orders of the      *)
(* regular account that are not two-step swaps.  The server is loose: it   *)
(* may ask for signatures at any price, in any order and repeatedly, for   *)
(* orders whose inputs it has.  The worker is blocked during a request, so *)
(* a request and its outcome are one step; a request that fails may have   *)
(* been executed by the server nevertheless.                               *)
(***************************************************************************)
EXTENDS Naturals, Sequences

CONSTANTS
    Order, Taken,     \* the orders; those in which the client is the taker
    Index,            \* orders that track the index price
    Price,            \* 0 stands for terms that verify_amounts refuses
    None,
    Relinks,          \* may the user open an order that is being opened?
    MaxClicks,        \* bound: user requests other than decisions
    MaxNotifs,        \* bound: notifications and push messages
    MaxFaults,        \* bound: failed requests and lost connections
    MaxLogouts,       \* bound
    MaxRestarts       \* bound

ASSUME SignAssumption ==
    /\ Taken \subseteq Order /\ Index \subseteq Order
    /\ Price \subseteq Nat
    /\ None \notin Order \cup [order : Order, price : Price, pset : Price]
    /\ Relinks \in BOOLEAN
    /\ \A n \in {MaxClicks, MaxNotifs, MaxFaults, MaxLogouts, MaxRestarts} : n \in Nat

VARIABLES
    connected, submit_data, active_submits, active_sign, visible_submit,
    waiting_submit, pending_sign_prompts, pending_sign_requests, pending_signs,
    pending_submits, pending_links, processed_signs, pending_succeed, shown_succeed,
    pc,          \* where process_pending_requests is, or "idle"
    taken,       \* the pending_signs it still has to download
    review,      \* UI: the review shown
    fromUi,      \* UI: requests the worker has not read
    agreed,      \* prices the user accepted in a review before signing
    terms,       \* prices the user accepted for the order itself
    autoOn,      \* orders for which the user switched auto-sign on
    sent,        \* prices signed for each order in this run of the program
    psets,       \* server: orders whose inputs it has
    final,       \* orders whose transaction the wallet reported as confirmed
    clicks, notifs, faults, logouts, restarts

dataVars == <<submit_data, active_submits, sent, psets>>
reviewVars == <<active_sign, visible_submit, waiting_submit, pending_sign_prompts,
                review>>
signVars == <<pending_sign_requests, pending_signs, processed_signs>>
linkVars == <<pending_submits, pending_links>>
pendVars == <<pc, taken>>
succeedVars == <<pending_succeed, shown_succeed, final>>
userVars == <<fromUi, agreed, terms, autoOn>>
bounds == <<clicks, notifs, logouts, restarts>>
vars == <<connected, linkVars, dataVars, reviewVars, signVars, pendVars,
          succeedVars, userVars, bounds, faults>>

SideOf(o) == IF o \in Taken THEN "Taker" ELSE "Maker"

SignNotification == [order : Order, price : Price, pset : Price]
SubmitData == [side : {"Maker", "Taker"}, price : Price, auto_sign : BOOLEAN,
               index_price : BOOLEAN, signed : BOOLEAN, txid : BOOLEAN]
Review == [order : Order, step : {"Submit", "Quote", "Sign"}, price : Price]
UiRequest ==
    [type : {"Submit", "Link"}, order : Order]
    \cup [type : {"Logout"}, order : {None}]
    \cup [type : {"Decision"}, order : Order, accept : BOOLEAN, auto_sign : BOOLEAN]
    \cup [type : {"EditPrice"}, order : Order, price : Price]
    \cup [type : {"EditAutoSign"}, order : Order, auto_sign : BOOLEAN]

IsMap(f, S, T) == DOMAIN f \subseteq S /\ \A x \in DOMAIN f : f[x] \in T

TypeOK ==
    /\ connected \in BOOLEAN
    /\ IsMap(submit_data, Order, SubmitData)
    /\ IsMap(active_submits, Order, Price)
    /\ active_sign \in SignNotification \cup {None}
    /\ visible_submit \in Order \cup {None}
    /\ waiting_submit \in Order \cup {None}
    /\ pending_sign_prompts \in Seq(SignNotification)
    /\ pending_sign_requests \in Seq(SignNotification)
    /\ pending_signs \subseteq Order /\ taken \subseteq Order
    /\ pending_submits \in Seq(Order) /\ pending_links \in Seq(Order)
    /\ processed_signs \subseteq Order
    /\ pending_succeed \in Seq(Order) /\ shown_succeed \subseteq Order
    /\ pc \in {"idle", "signs", "links", "requests"}
    /\ review \in Review \cup {None}
    /\ fromUi \in Seq(UiRequest)
    /\ agreed \in [Order -> SUBSET Price] /\ terms \in [Order -> SUBSET Price]
    /\ autoOn \subseteq Order
    /\ sent \in [Order -> Seq(Price)]
    /\ psets \subseteq Order /\ final \subseteq Order

WorkerInit ==
    /\ connected = FALSE
    /\ submit_data = <<>> /\ active_submits = <<>>
    /\ active_sign = None /\ visible_submit = None /\ waiting_submit = None
    /\ pending_sign_prompts = <<>> /\ pending_sign_requests = <<>>
    /\ pending_submits = <<>> /\ pending_links = <<>>
    /\ pending_signs = {} /\ processed_signs = {}
    /\ pending_succeed = <<>> /\ shown_succeed = {}
    /\ pc = "idle" /\ taken = {}
    /\ review = None /\ fromUi = <<>>
    /\ sent = [o \in Order |-> <<>>]

Init ==
    /\ WorkerInit
    /\ agreed = [o \in Order |-> {}] /\ terms = [o \in Order |-> {}]
    /\ autoOn = {} /\ psets = {} /\ final = {}
    /\ clicks = 0 /\ notifs = 0 /\ faults = 0 /\ logouts = 0 /\ restarts = 0
-----------------------------------------------------------------------------
Put(f, k, v) == [x \in DOMAIN f \cup {k} |-> IF x = k THEN v ELSE f[x]]
Drop(f, k) == [x \in DOMAIN f \ {k} |-> f[x]]

Fault == faults < MaxFaults /\ faults' = faults + 1
NoFault == UNCHANGED faults
-----------------------------------------------------------------------------
(* The review on the screen *)

(* Shows the first of the waiting prompts whose order is still known,      *)
(* unless a review is visible; prompts of forgotten orders are dropped.    *)
process_pending_sign_prompts(visible, prompts, sign, data, shown) ==
    LET known == {i \in 1..Len(prompts) : prompts[i].order \in DOMAIN data}
    IN  \/ /\ visible /= None
           /\ visible_submit' = visible /\ active_sign' = sign /\ review' = shown
           /\ pending_sign_prompts' = prompts
        \/ /\ visible = None /\ known = {}
           /\ visible_submit' = None /\ active_sign' = sign /\ review' = shown
           /\ pending_sign_prompts' = <<>>
        \/ /\ visible = None
           /\ \E i \in known :
                /\ \A j \in known : i <= j
                /\ visible_submit' = prompts[i].order
                /\ active_sign' = prompts[i]
                /\ review' = [order |-> prompts[i].order, step |-> "Sign",
                              price |-> data[prompts[i].order].price]
                /\ pending_sign_prompts' = SubSeq(prompts, i + 1, Len(prompts))

(* Bug: results wait whether or not a review is visible. *)
Bug_process_pending_succeed(queue) == pending_succeed' = queue

(* The results of completed swaps wait for the end of a review.            *)
process_pending_succeed(queue) ==
    pending_succeed' = IF visible_submit' = None THEN <<>> ELSE queue
-----------------------------------------------------------------------------
(* Signing *)

verify_amounts(price) == price > 0

(* The PSET is signed when it has the amounts of submit_data.              *)
try_sign(m, data, ok) ==
    LET o == m.order
        verified == o \in DOMAIN data /\ data[o].price = m.pset
        signs == sent' = [sent EXCEPT ![o] = Append(@, m.pset)]
    IN  \/ /\ ok /\ verified /\ NoFault
           /\ signs
           /\ submit_data' = [data EXCEPT ![o].signed = TRUE]
        \/ /\ ~ok /\ ~verified /\ NoFault
           /\ submit_data' = data /\ UNCHANGED sent
        \/ /\ ~ok /\ verified /\ Fault
           /\ submit_data' = data
           /\ signs \/ UNCHANGED sent

SignMatches(m, data) ==
    /\ verify_amounts(m.price)
    /\ m.order \in DOMAIN data
    /\ data[m.order].side = SideOf(m.order)
    /\ data[m.order].price = m.price \/ SideOf(m.order) /= "Taker"

(* AUTO_SIGN_ALLOWED_INDEX_PRICE_CHANGE: 10 per cent of the known price.   *)
Within10(price, known) ==
    IF price < known THEN 10 * (known - price) <= known
                     ELSE 10 * (price - known) <= known

(* Bug: a changed price is signed as well. *)
Bug_auto_sign_any_price(price, d) == d.side = "Taker" \/ d.auto_sign

auto_sign_allowed(price, d) ==
    \/ d.side = "Taker"
    \/ /\ d.auto_sign
       /\ price = d.price \/ (d.index_price /\ Within10(price, d.price))

(* Bug: a request that was answered already is processed again. *)
Bug_Existing_never(o) == FALSE

Existing(o) == o \in processed_signs

(* An order is signed, or put before the user, once.                       *)
try_process_sign(m, data) ==
    \/ /\ Existing(m.order)
       /\ submit_data' = data
       /\ UNCHANGED <<processed_signs, sent, faults, reviewVars>>
    \/ /\ ~Existing(m.order)
       /\ processed_signs' = processed_signs \cup {m.order}
       /\ \/ /\ ~SignMatches(m, data)
             /\ submit_data' = data
             /\ UNCHANGED <<sent, faults, reviewVars>>
          \/ /\ SignMatches(m, data)
             /\ LET new == [data EXCEPT ![m.order].price = m.price]
                IN  \/ /\ auto_sign_allowed(m.price, data[m.order])
                       /\ \E ok \in BOOLEAN : try_sign(m, new, ok)
                       /\ UNCHANGED reviewVars
                    \/ /\ ~auto_sign_allowed(m.price, data[m.order])
                       /\ submit_data' = new
                       /\ process_pending_sign_prompts(visible_submit,
                              Append(pending_sign_prompts, m), active_sign, new,
                              review)
                       /\ UNCHANGED <<waiting_submit, sent, faults>>

(* Own orders the server reports, which an application that was restarted  *)
(* does not know.                                                          *)
add_missing_submit_data(o, price, data) ==
    IF o \in DOMAIN data \/ ~verify_amounts(price) THEN data
    ELSE Put(data, o, [side |-> "Maker", price |-> price, auto_sign |-> FALSE,
                       index_price |-> FALSE, signed |-> FALSE, txid |-> FALSE])
-----------------------------------------------------------------------------
(* process_pending_requests: nothing is done without a connection.  Its    *)
(* loops are steps, in the order of the code, and nothing else is handled  *)
(* until it is done.  The download of a maker's sign request runs the      *)
(* other loops before the next download (the recursive call).              *)

process_pending_requests(signs) ==
    IF connected'
    THEN pc' = "signs" /\ taken' = signs /\ pending_signs' = {}
    ELSE pc' = "idle" /\ taken' = {} /\ pending_signs' = signs

Pending(at) ==
    /\ pc = at
    /\ UNCHANGED <<connected, pending_signs, succeedVars, userVars, bounds, psets>>

download_sign_request(o) ==
    /\ Pending("signs")
    /\ o \in taken
    /\ taken' = taken \ {o}
    /\ UNCHANGED <<linkVars, active_submits>>
    /\ \/ (* already processed, or the request fails *)
          /\ o \in processed_signs \/ o \notin psets \/ Fault
          /\ o \in processed_signs \/ o \notin psets => NoFault
          /\ pc' = "signs"
          /\ UNCHANGED <<submit_data, sent, reviewVars, pending_sign_requests,
                         processed_signs>>
       \/ /\ o \notin processed_signs /\ o \in psets
          /\ \E p, q \in Price :
               LET m == [order |-> o, price |-> p, pset |-> q]
                   data == add_missing_submit_data(o, p, submit_data)
               IN  \/ /\ o \notin DOMAIN data
                      /\ pc' = "signs" /\ NoFault
                      /\ UNCHANGED <<submit_data, sent, reviewVars,
                                     pending_sign_requests, processed_signs>>
                   \/ /\ o \in DOMAIN data /\ o \in Taken
                      /\ try_process_sign(m, data)
                      /\ pc' = "signs" /\ UNCHANGED pending_sign_requests
                   \/ /\ o \in DOMAIN data /\ o \notin Taken
                      /\ submit_data' = data
                      /\ pending_sign_requests' = Append(pending_sign_requests, m)
                      /\ pc' = "links" /\ NoFault
                      /\ UNCHANGED <<sent, reviewVars, processed_signs>>

SignsDownloaded ==
    /\ Pending("signs")
    /\ taken = {}
    /\ pc' = "links"
    /\ UNCHANGED <<taken, linkVars, submit_data, active_submits, sent, reviewVars,
                   pending_sign_requests, processed_signs, faults>>

(* The order is shown to the user, whatever review is visible.             *)
try_process_downloaded_link(o) ==
    \E p \in Price :
        /\ review' = [order |-> o, price |-> p,
                      step |-> IF o \in Taken THEN "Quote" ELSE "Submit"]
        /\ visible_submit' = o
        /\ active_submits' = Put(active_submits, o, p)
        /\ UNCHANGED <<active_sign, waiting_submit, pending_sign_prompts>>

(* The server answers a Link until it has the maker's inputs.              *)
LinkOrder(o) ==
    /\ UNCHANGED <<taken, submit_data, sent, pending_sign_requests, processed_signs>>
    /\ pc' = "links"
    /\ \/ /\ o \in Taken \/ o \notin psets
          /\ NoFault
          /\ try_process_downloaded_link(o)
       \/ /\ o \notin Taken /\ o \in psets
          /\ NoFault
          /\ UNCHANGED <<active_submits, reviewVars>>
       \/ /\ Fault
          /\ UNCHANGED <<active_submits, reviewVars>>

PendingSubmit ==
    /\ Pending("links")
    /\ pending_submits /= <<>>
    /\ LinkOrder(Head(pending_submits))
    /\ pending_submits' = Tail(pending_submits)
    /\ UNCHANGED pending_links

PendingLink ==
    /\ Pending("links")
    /\ pending_submits = <<>> /\ pending_links /= <<>>
    /\ LinkOrder(Head(pending_links))
    /\ pending_links' = Tail(pending_links)
    /\ UNCHANGED pending_submits

LinksDone ==
    /\ Pending("links")
    /\ pending_submits = <<>> /\ pending_links = <<>>
    /\ pc' = "requests"
    /\ process_pending_sign_prompts(visible_submit, pending_sign_prompts,
                                    active_sign, submit_data, review)
    /\ UNCHANGED <<taken, linkVars, submit_data, active_submits, sent,
                   waiting_submit, pending_sign_requests, processed_signs, faults>>

PendingSignRequest ==
    /\ Pending("requests")
    /\ pending_sign_requests /= <<>>
    /\ try_process_sign(Head(pending_sign_requests), submit_data)
    /\ pending_sign_requests' = Tail(pending_sign_requests)
    /\ UNCHANGED <<pc, taken, linkVars, active_submits>>

RequestsDone ==
    /\ Pending("requests")
    /\ pending_sign_requests = <<>>
    /\ pc' = IF taken = {} THEN "idle" ELSE "signs"
    /\ UNCHANGED <<taken, linkVars, submit_data, active_submits, sent, reviewVars,
                   pending_sign_requests, processed_signs, faults>>
-----------------------------------------------------------------------------
(* Requests of the UI *)

UiStep(type) ==
    /\ pc = "idle"
    /\ fromUi /= <<>> /\ Head(fromUi).type = type
    /\ fromUi' = Tail(fromUi)
    /\ UNCHANGED <<agreed, terms, autoOn, shown_succeed, final, bounds>>

process_submit_order ==
    /\ UiStep("Submit")
    /\ pending_submits' = Append(pending_submits, Head(fromUi).order)
    /\ UNCHANGED connected
    /\ process_pending_requests(pending_signs)
    /\ UNCHANGED <<pending_links, dataVars, reviewVars, pending_sign_requests,
                   processed_signs, pending_succeed, faults>>

process_link_order ==
    /\ UiStep("Link")
    /\ pending_links' = Append(pending_links, Head(fromUi).order)
    /\ UNCHANGED connected
    /\ process_pending_requests(pending_signs)
    /\ UNCHANGED <<pending_submits, dataVars, reviewVars, pending_sign_requests,
                   processed_signs, pending_succeed, faults>>

(* Bug: the next prompt is not shown. *)
Bug_Decided_no_prompt(sign) ==
    /\ visible_submit' = None /\ active_sign' = sign /\ review' = review
    /\ UNCHANGED pending_sign_prompts
    /\ process_pending_succeed(pending_succeed)

(* Bug: the review is not over. *)
Bug_Decided_stays(sign) ==
    /\ active_sign' = sign
    /\ UNCHANGED <<visible_submit, review, pending_sign_prompts>>
    /\ process_pending_succeed(pending_succeed)

(* The end of process_submit_decision: the next review, or the results.    *)
Decided(sign) ==
    /\ process_pending_sign_prompts(None, pending_sign_prompts, sign, submit_data',
                                    review)
    /\ process_pending_succeed(pending_succeed)

Decision ==
    /\ UiStep("Decision")
    /\ UNCHANGED <<connected, linkVars, signVars, pendVars>>

IsSign(o) == active_sign /= None /\ active_sign.order = o

SubmitRejected ==
    /\ Decision
    /\ ~Head(fromUi).accept
    /\ UNCHANGED <<dataVars, waiting_submit, faults>>
    /\ Decided(active_sign)

SignAccepted ==
    /\ Decision
    /\ Head(fromUi).accept /\ IsSign(Head(fromUi).order)
    /\ \E ok \in BOOLEAN :
          /\ try_sign(active_sign, submit_data, ok)
          /\ waiting_submit' = IF ok THEN visible_submit ELSE waiting_submit
    /\ UNCHANGED <<active_submits, psets>>
    /\ Decided(None)

(* The decision names no review the worker knows, or the amounts are bad.  *)
SubmitUnknown ==
    /\ Decision
    /\ LET o == Head(fromUi).order
       IN  /\ Head(fromUi).accept /\ ~IsSign(o)
           /\ o \in DOMAIN active_submits => ~verify_amounts(active_submits[o])
           /\ active_submits' = Drop(active_submits, o)
    /\ UNCHANGED <<submit_data, sent, psets, waiting_submit, faults>>
    /\ Decided(active_sign)

NewSubmitData(o, auto_sign) ==
    [side |-> SideOf(o), price |-> active_submits[o],
     auto_sign |-> auto_sign /\ o \notin Taken, index_price |-> o \in Index,
     signed |-> FALSE, txid |-> FALSE]

(* PsetMaker or PsetTaker.                                                 *)
SubmitAccepted ==
    /\ Decision
    /\ LET o == Head(fromUi).order
       IN  /\ Head(fromUi).accept /\ ~IsSign(o)
           /\ o \in DOMAIN active_submits /\ verify_amounts(active_submits[o])
           /\ active_submits' = Drop(active_submits, o)
           /\ \/ /\ NoFault
                 /\ psets' = psets \cup {o}
                 /\ submit_data' = Put(submit_data, o,
                                       NewSubmitData(o, Head(fromUi).auto_sign))
                 /\ waiting_submit' = IF o \in Taken THEN visible_submit
                                                     ELSE waiting_submit
              \/ /\ Fault
                 /\ psets' \in {psets, psets \cup {o}}
                 /\ UNCHANGED <<submit_data, waiting_submit>>
    /\ UNCHANGED sent
    /\ Decided(active_sign)

(* Orders of the list can be edited; the list is empty while offline.      *)
(* A price edit fails, although the server may have executed it, or the    *)
(* client's copy follows, so that auto-sign can proceed.                   *)
try_edit_order_price ==
    /\ UiStep("EditPrice")
    /\ LET o == Head(fromUi).order
           p == Head(fromUi).price
       IN  \/ /\ NoFault
              /\ submit_data' = IF o \in DOMAIN submit_data
                                THEN [submit_data EXCEPT ![o].price = p]
                                ELSE submit_data
           \/ Fault /\ UNCHANGED submit_data
    /\ UNCHANGED <<connected, linkVars, signVars, pendVars, reviewVars,
                   active_submits, sent, psets, pending_succeed>>

try_edit_order_auto_sign ==
    /\ UiStep("EditAutoSign")
    /\ LET o == Head(fromUi).order
       IN  \/ /\ o \in DOMAIN submit_data
              /\ submit_data' = [submit_data EXCEPT ![o].auto_sign =
                                                        Head(fromUi).auto_sign]
           \/ UNCHANGED submit_data
    /\ UNCHANGED <<connected, linkVars, signVars, pendVars, reviewVars,
                   active_submits, sent, psets, pending_succeed, faults>>

(* The other fields survive.  The UI leaves the review.                    *)
process_logout_request ==
    /\ UiStep("Logout")
    /\ active_submits' = <<>>
    /\ active_sign' = None
    /\ review' = None
    /\ connected' = FALSE
    /\ UNCHANGED <<linkVars, signVars, pendVars, submit_data, sent, psets,
                   visible_submit, waiting_submit, pending_sign_prompts,
                   pending_succeed, faults>>
-----------------------------------------------------------------------------
(* Notifications of the server, the connection and the wallet *)

Notified ==
    /\ pc = "idle"
    /\ notifs < MaxNotifs
    /\ notifs' = notifs + 1
    /\ UNCHANGED <<userVars, clicks, logouts, restarts, final, active_submits>>

(* Sign: the taker has reviewed the price and signs at once, the maker's   *)
(* request goes through process_pending_requests.                          *)
process_sign(m) ==
    /\ Notified
    /\ m.order \in psets
    /\ UNCHANGED <<psets, connected, linkVars, pending_succeed, shown_succeed>>
    /\ \/ /\ m.order \in Taken
          /\ try_process_sign(m, submit_data)
          /\ UNCHANGED <<pendVars, pending_sign_requests, pending_signs>>
       \/ /\ m.order \notin Taken
          /\ pending_sign_requests' = Append(pending_sign_requests, m)
          /\ process_pending_requests(pending_signs)
          /\ UNCHANGED <<submit_data, sent, reviewVars, processed_signs, faults>>

(* Bug: an order the client does not know gets an entry. *)
Bug_CompleteWithTxid_unknown(o) ==
    /\ Notified
    /\ o \in psets
    /\ submit_data' = Put(submit_data, o, [txid |-> TRUE])
    /\ UNCHANGED <<connected, linkVars, signVars, pendVars, reviewVars, sent, psets,
                   pending_succeed, shown_succeed, faults>>

CompleteWithTxid(o) ==
    /\ Notified
    /\ o \in psets
    /\ submit_data' = IF o \in DOMAIN submit_data
                      THEN [submit_data EXCEPT ![o].txid = TRUE] ELSE submit_data
    /\ UNCHANGED <<connected, linkVars, signVars, pendVars, reviewVars, sent, psets,
                   pending_succeed, shown_succeed, faults>>

(* The review of an order that is gone is closed with an error.            *)
OrderRemoved(o) ==
    \/ /\ visible_submit = o \/ (visible_submit = None /\ waiting_submit = o)
       /\ process_pending_sign_prompts(None, pending_sign_prompts, active_sign,
              submit_data', IF visible_submit = o THEN None ELSE review)
       /\ process_pending_succeed(pending_succeed)
       /\ UNCHANGED waiting_submit
    \/ /\ ~(visible_submit = o \/ (visible_submit = None /\ waiting_submit = o))
       /\ UNCHANGED <<reviewVars, pending_succeed>>

CompleteWithoutTxid(o) ==
    /\ Notified
    /\ o \in psets
    /\ psets' = psets \ {o}
    /\ submit_data' = Drop(submit_data, o)
    /\ OrderRemoved(o)
    /\ UNCHANGED <<connected, linkVars, signVars, pendVars, sent, shown_succeed,
                   faults>>

process_order_created(o) ==
    /\ Notified
    /\ o \in psets \ Taken
    /\ \E p \in Price : submit_data' = add_missing_submit_data(o, p, submit_data)
    /\ UNCHANGED <<connected, linkVars, signVars, pendVars, reviewVars, sent, psets,
                   pending_succeed, shown_succeed, faults>>

(* A push message checks the connection with a Ping.                       *)
process_push_message(o) ==
    /\ Notified
    /\ \/ UNCHANGED <<connected, faults>>
       \/ connected /\ connected' = FALSE /\ Fault
    /\ process_pending_requests(pending_signs \cup {o})
    /\ UNCHANGED <<linkVars, pending_sign_requests, processed_signs, reviewVars,
                   submit_data, sent, psets, pending_succeed, shown_succeed>>

(* The transaction of an order; it is reported until it is confirmed.      *)
send_new_transactions(o, confirmed) ==
    /\ pc = "idle"
    /\ notifs < MaxNotifs /\ notifs' = notifs + 1
    /\ o \in psets \ final
    /\ UNCHANGED <<connected, linkVars, dataVars, reviewVars, signVars, pendVars,
                   userVars, clicks, logouts, restarts, faults>>
    /\ final' = IF confirmed THEN final \cup {o} ELSE final
    /\ \/ /\ o \in DOMAIN submit_data /\ submit_data[o].txid /\ o \notin shown_succeed
          /\ process_pending_succeed(Append(pending_succeed, o))
          /\ shown_succeed' = shown_succeed \cup {o}
       \/ /\ ~(o \in DOMAIN submit_data /\ submit_data[o].txid /\ o \notin shown_succeed)
          /\ process_pending_succeed(pending_succeed)
          /\ UNCHANGED shown_succeed

(* The login reports the own orders.                                       *)
process_ws_connected ==
    /\ pc = "idle" /\ ~connected
    /\ connected' = TRUE
    /\ \E p \in [psets \ Taken -> Price] :
          submit_data' = [o \in DOMAIN submit_data \cup
                                  {q \in psets \ Taken : verify_amounts(p[q])} |->
                            IF o \in DOMAIN submit_data THEN submit_data[o]
                            ELSE add_missing_submit_data(o, p[o], submit_data)[o]]
    /\ process_pending_requests(pending_signs)
    /\ UNCHANGED <<linkVars, active_submits, sent, psets, reviewVars, succeedVars,
                   pending_sign_requests, processed_signs, userVars, bounds, faults>>

process_ws_disconnected ==
    /\ pc = "idle" /\ connected
    /\ connected' = FALSE
    /\ Fault
    /\ UNCHANGED <<linkVars, dataVars, reviewVars, signVars, pendVars, succeedVars,
                   userVars, bounds>>

(* The application is killed and started again; none of this is saved.     *)
Restart ==
    /\ restarts < MaxRestarts
    /\ restarts' = restarts + 1
    /\ connected' = FALSE
    /\ submit_data' = <<>> /\ active_submits' = <<>>
    /\ active_sign' = None /\ visible_submit' = None /\ waiting_submit' = None
    /\ pending_sign_prompts' = <<>> /\ pending_sign_requests' = <<>>
    /\ pending_submits' = <<>> /\ pending_links' = <<>>
    /\ pending_signs' = {} /\ processed_signs' = {}
    /\ pending_succeed' = <<>> /\ shown_succeed' = {}
    /\ pc' = "idle" /\ taken' = {}
    /\ review' = None /\ fromUi' = <<>>
    /\ sent' = [o \in Order |-> <<>>]
    /\ UNCHANGED <<agreed, terms, autoOn, psets, final, clicks, notifs, faults,
                   logouts>>
-----------------------------------------------------------------------------
(* The user *)

workerVars == <<connected, linkVars, dataVars, active_sign, visible_submit,
                waiting_submit, pending_sign_prompts, signVars, pendVars,
                succeedVars>>

Click(request) ==
    /\ review = None
    /\ clicks < MaxClicks
    /\ clicks' = clicks + 1
    /\ fromUi' = Append(fromUi, request)
    /\ UNCHANGED <<workerVars, review, agreed, notifs, logouts, restarts, faults>>

InHand(o) ==
    \/ \E i \in 1..Len(fromUi) : fromUi[i].order = o
    \/ \E i \in 1..Len(pending_submits) : pending_submits[i] = o
    \/ \E i \in 1..Len(pending_links) : pending_links[i] = o

UserLinks(o) ==
    /\ Relinks \/ ~InHand(o)
    /\ \/ o \notin Taken /\ Click([type |-> "Submit", order |-> o])
       \/ Click([type |-> "Link", order |-> o])
    /\ UNCHANGED <<terms, autoOn>>

UserEditsPrice(o, p) ==
    /\ o \in psets \ Taken /\ verify_amounts(p)
    /\ Click([type |-> "EditPrice", order |-> o, price |-> p])
    /\ terms' = [terms EXCEPT ![o] = @ \cup {p}]
    /\ UNCHANGED autoOn

(* The list shows the order at the price the client knows.                 *)
UserEditsAutoSign(o, on) ==
    /\ o \in DOMAIN submit_data \ Taken
    /\ Click([type |-> "EditAutoSign", order |-> o, auto_sign |-> on])
    /\ \/ /\ on
          /\ terms' = [terms EXCEPT ![o] = @ \cup {submit_data[o].price}]
          /\ autoOn' = autoOn \cup {o}
       \/ ~on /\ UNCHANGED <<terms, autoOn>>

UserLogsOut ==
    /\ logouts < MaxLogouts
    /\ logouts' = logouts + 1
    /\ fromUi' = Append(fromUi, [type |-> "Logout", order |-> None])
    /\ UNCHANGED <<workerVars, review, agreed, terms, autoOn, clicks, notifs,
                   restarts, faults>>

UserDecides(accept, auto_sign) ==
    /\ review /= None
    /\ fromUi' = Append(fromUi, [type |-> "Decision", order |-> review.order,
                                 accept |-> accept, auto_sign |-> auto_sign])
    /\ review' = None
    /\ \/ /\ accept /\ review.step = "Sign"
          /\ agreed' = [agreed EXCEPT ![review.order] = @ \cup {review.price}]
          /\ UNCHANGED <<terms, autoOn>>
       \/ /\ accept /\ review.step /= "Sign"
          /\ terms' = [terms EXCEPT ![review.order] = @ \cup {review.price}]
          /\ autoOn' = IF auto_sign THEN autoOn \cup {review.order} ELSE autoOn
          /\ UNCHANGED agreed
       \/ ~accept /\ UNCHANGED <<agreed, terms, autoOn>>
    /\ UNCHANGED <<workerVars, bounds, faults>>
-----------------------------------------------------------------------------
PendingStep ==
    \/ \E o \in Order : download_sign_request(o)
    \/ SignsDownloaded
    \/ PendingSubmit
    \/ PendingLink
    \/ LinksDone
    \/ PendingSignRequest
    \/ RequestsDone

process_ui ==
    \/ process_submit_order
    \/ process_link_order
    \/ SubmitRejected
    \/ SignAccepted
    \/ SubmitUnknown
    \/ SubmitAccepted
    \/ try_edit_order_price
    \/ try_edit_order_auto_sign
    \/ process_logout_request

Notification ==
    \/ \E m \in SignNotification : process_sign(m)
    \/ \E o \in Order :
          \/ CompleteWithTxid(o)
          \/ CompleteWithoutTxid(o)
          \/ process_order_created(o)
          \/ process_push_message(o)
          \/ \E confirmed \in BOOLEAN : send_new_transactions(o, confirmed)

UserDecision == \E accept, auto_sign \in BOOLEAN : UserDecides(accept, auto_sign)

User ==
    \/ \E o \in Order : UserLinks(o)
    \/ \E o \in Order, p \in Price : UserEditsPrice(o, p)
    \/ \E o \in Order, on \in BOOLEAN : UserEditsAutoSign(o, on)
    \/ UserLogsOut
    \/ UserDecision

Next ==
    \/ PendingStep
    \/ process_ui
    \/ Notification
    \/ process_ws_connected
    \/ process_ws_disconnected
    \/ Restart
    \/ User

Spec == Init /\ [][Next]_vars

(* The worker runs, the connection comes back and the user decides on the  *)
(* review shown.                                                           *)
LiveSpec ==
    /\ Spec
    /\ WF_vars(PendingStep)
    /\ WF_vars(process_ui)
    /\ WF_vars(process_ws_connected)
    /\ WF_vars(UserDecision)
-----------------------------------------------------------------------------
(* Properties *)

(* Nothing is signed that the user did not agree to: a signature is for a  *)
(* price accepted in the review before signing, or, for the taker, in the  *)
(* quote, or for the price of an order with auto-sign, from which only an  *)
(* index order may deviate, by 10 per cent (try_process_sign, try_sign);   *)
(* or the user set the price while a review before signing was open.       *)
SignedAsAgreed ==
    \A o \in DOMAIN sent : \A i \in 1..Len(sent[o]) :
        LET p == sent[o][i]
        IN  \/ p \in agreed[o]
            \/ p \in terms[o] /\ (o \in Taken \cup autoOn \/ agreed[o] /= {})
            \/ o \in Index \cap autoOn /\ \E q \in terms[o] : Within10(p, q)

(* "Taker: Auto-sign is always used because price was already reviewed     *)
(* earlier (and can't change since that)" (try_process_sign): the taker    *)
(* signs only prices the user accepted.                                    *)
TakerReviewed ==
    \A o \in Taken : \A i \in 1..Len(sent[o]) : sent[o][i] \in terms[o]

(* An order is signed once, however often and on whatever way the server   *)
(* asks for it (processed_signs, active_sign).                             *)
SignedOnce == \A o \in DOMAIN sent : Len(sent[o]) <= 1

(* No prompt and no result waits behind a review that is over: every       *)
(* handler that ends a review shows the next one or the results.           *)
PromptsWaitForReview ==
    visible_submit = None => pending_sign_prompts = <<>> /\ pending_succeed = <<>>

(* In the end every review is decided, every prompt was shown and every    *)
(* request is carried out, as long as nobody logs out: a logout leaves     *)
(* visible_submit set and prompts behind it (process_logout_request).      *)
ReviewsSettle ==
    <>[](/\ visible_submit = None /\ pending_sign_prompts = <<>>
         /\ pending_succeed = <<>> /\ pending_submits = <<>>
         /\ pending_links = <<>> /\ pending_sign_requests = <<>>
         /\ pending_signs = {})
-----------------------------------------------------------------------------
(* The inductive invariants behind SignedOnce and SignedAsAgreed.  In a    *)
(* run of the program an order is first not processed, then it may wait    *)
(* for its review before signing, and then that review is the active one;  *)
(* it does not go back.                                                    *)

In(x, q) == \E i \in 1..Len(q) : q[i] = x
Once(x, q) == \A i, j \in 1..Len(q) : q[i] = x /\ q[j] = x => i = j

Prompted(o) ==
    \E i \in 1..Len(pending_sign_prompts) : pending_sign_prompts[i].order = o
Fresh(o) == o \notin processed_signs \/ Prompted(o)
Reviewed(o) == review /= None /\ review.order = o
Asks(r, o) == r.type \in {"Submit", "Link", "Decision"} /\ r.order = o
Decides(r, o) == r.type = "Decision" /\ r.order = o
TurnsOn(r, o) == r.type = "EditAutoSign" /\ r.order = o /\ r.auto_sign

(* An order that may still be signed was not, and a prompt is not repeated.*)
OnceInv ==
    /\ \A i, j \in 1..Len(pending_sign_prompts) :
          pending_sign_prompts[i].order = pending_sign_prompts[j].order => i = j
    /\ \A o \in Order :
          /\ Prompted(o) => o \in processed_signs
          /\ Fresh(o) => ~IsSign(o)
          /\ Fresh(o) \/ IsSign(o) => sent[o] = <<>>
          /\ Len(sent[o]) <= 1

(* Before its review for signing an order goes through the user interface  *)
(* once at a time: it is asked for, pending, shown, or decided.  What was  *)
(* accepted is what submit_data will hold, and a maker's order is not at   *)
(* the server while it is decided.                                         *)
FlowInv(o) ==
    /\ Once(o, pending_submits) /\ Once(o, pending_links)
    /\ In(o, pending_submits) => ~In(o, pending_links) /\ ~Reviewed(o)
    /\ In(o, pending_links) => ~Reviewed(o)
    /\ \A i \in 1..Len(fromUi) : Asks(fromUi[i], o) =>
          /\ ~In(o, pending_submits) /\ ~In(o, pending_links) /\ ~Reviewed(o)
          /\ \A j \in 1..Len(fromUi) : Asks(fromUi[j], o) => i = j
    /\ Reviewed(o) =>
          /\ review.step /= "Sign"
          /\ o \in DOMAIN active_submits => active_submits[o] = review.price
          /\ o \in Taken \/ o \notin psets
    /\ \A i \in 1..Len(fromUi) : Decides(fromUi[i], o) =>
          /\ o \in Taken \/ o \notin psets
          /\ fromUi[i].accept =>
                /\ o \in DOMAIN active_submits => active_submits[o] \in terms[o]
                /\ fromUi[i].auto_sign => o \in autoOn

(* While an order is not processed, what may be signed without a further   *)
(* review was accepted; auto-sign is switched on for the price seen.       *)
TermsInv(o) ==
    /\ o \in DOMAIN submit_data =>
          /\ submit_data[o].side = "Taker" => submit_data[o].price \in terms[o]
          /\ o \notin Taken /\ submit_data[o].auto_sign =>
                submit_data[o].price \in terms[o] /\ o \in autoOn
    /\ \A j \in 1..Len(fromUi) : TurnsOn(fromUi[j], o) =>
          /\ o \in autoOn
          /\ \A i \in 1..(j - 1) : ~Decides(fromUi[i], o)
          /\ o \in psets => o \in DOMAIN submit_data /\ submit_data[o].price \in terms[o]

(* While the review before signing is active, the price that would be      *)
(* signed is the one shown, or one the user has set since.                 *)
PromptInv(o) ==
    /\ o \in psets => o \in DOMAIN submit_data
    /\ Reviewed(o) /\ o \in psets =>
          /\ review.step = "Sign"
          /\ submit_data[o].price \in terms[o] \cup {review.price}
    /\ \A i \in 1..Len(fromUi) : Decides(fromUi[i], o) /\ fromUi[i].accept /\ o \in psets =>
          agreed[o] /= {} /\ submit_data[o].price \in agreed[o] \cup terms[o]

DataInv ==
    \A o \in DOMAIN submit_data :
        o \in psets /\ (submit_data[o].index_price => o \in Index)

EditsInv ==
    \A i \in 1..Len(fromUi) :
        /\ fromUi[i].type = "EditPrice" => fromUi[i].price \in terms[fromUi[i].order]
        /\ fromUi[i].type \in {"EditPrice", "EditAutoSign"} => fromUi[i].order \notin Taken

AgreedInv ==
    /\ DataInv /\ EditsInv
    /\ \A o \in Order :
          /\ Prompted(o) \/ IsSign(o) => o \notin Taken
          /\ Fresh(o) => FlowInv(o)
          /\ o \notin processed_signs => TermsInv(o)
          /\ IsSign(o) => PromptInv(o)
=============================================================================
