------------------------------- MODULE Dealer -------------------------------
(***************************************************************************)
(* The worker thread of the dealer library (sideswap_dealer/dealer.rs)     *)
(* composed with the auto web-socket thread (WsAuto), a server and the     *)
(* wallet of the node.                                                     *)
(*                                                                         *)
(* The worker reads one message at a time.  A handler makes blocking       *)
(* requests: it waits 30 seconds for the next entry of the reply channel,  *)
(* which it takes for the reply, and panics when none comes.  The socket   *)
(* thread, the server and the owner run on meanwhile, so the connection    *)
(* that answers need not be the one the handler started on.                *)
(*                                                                         *)
(* One ticker is modelled.  Amounts are in satoshi-like units, prices are  *)
(* asset units per bitcoin unit, interests are percentages.                *)
(***************************************************************************)
EXTENDS Integers, Sequences, FiniteSets, FiniteSetsExt, SequencesExt

CONSTANTS
    Setups,          \* sides the dealer offers (send_bitcoins: a subset of BOOLEAN),
                     \*   details of the other parties' orders, the price known and the
                     \*   balance at the start, and two bounds: inputs (messages of the owner and
                     \*   wallet changes) and faults (connections lost, requests
                     \*   refused or answered too late)
    Pairs,           \* index prices the owner may send
    Limits,          \* limits the owner may send
    Balances,        \* balances of the node's wallet
    MinAmount, SubmitAmount, MaxAmount,       \* Params.bitcoin_amount_*
    InterestSubmit, InterestSign,             \* Params.interest_*
    Fee,             \* the server's fee
    MaxOrders        \* bound: orders submitted

VARIABLES
    net,      \* the socket thread and the channels (WsAuto)
    w,        \* the local variables of the worker
    srv,      \* the server: its session with the dealer, and the orders
    wallet,   \* the wallet of the node
    inputs, losses, refusals

INSTANCE WsAuto WITH IsReply <- LAMBDA m : m.t = "Reply"

bounds == <<inputs, losses, refusals>>
vars == <<net, w, srv, wallet, bounds>>

Sides == srv.setup.sides
Offers == srv.setup.offers
None == [id |-> 0]
NoPrice == [bid |-> 0, ask |-> 0]
NoLimit == 10000000
NoCall == [op |-> "none", arg |-> None]
Idle == [h |-> "idle"]

(* job: the handler being run; call: the request it waits for.  Time is    *)
(* left open: a price may expire, and a price edit be due, at any Timer.   *)
Started(sides) ==
    [server_connected |-> FALSE, own_orders |-> [s \in sides |-> None],
     orders |-> {}, taken_orders |-> {}, pending_signs |-> {},
     index_price |-> NoPrice, utxos |-> [btc |-> 0, asset |-> 0],
     all |-> [btc |-> 0, asset |-> 0, sendBtc |-> NoLimit, recvBtc |-> NoLimit,
              sendAsset |-> NoLimit, recvAsset |-> NoLimit],
     wallet_balance |-> None, job |-> Idle, call |-> NoCall]

Init ==
    /\ net = NetInit
    /\ \E setup \in Setups :
         /\ w = [Started(setup.sides) EXCEPT !.index_price = setup.price]
         /\ wallet = setup.wallet
         /\ srv = [setup |-> setup, session |-> "none", orders |-> {}, listed |-> {}, next |-> 1,
                   done |-> {}, missed |-> {}, from |-> <<>>]
    /\ inputs = 0 /\ losses = 0 /\ refusals = 0
-----------------------------------------------------------------------------
(* Bug: the fee is left out. *)
Bug_no_fee(d) == d.amount

(* The bitcoin amount of a swap, with the server's fee.                    *)
actual_bitcoin_amount(d) == IF d.send THEN d.amount + Fee ELSE d.amount - Fee

(* get_price with interest_take_ajusted: the interest and the server's fee *)
(* on the submitted amount.                                                *)
get_price(send) ==
    IF send THEN (w.index_price.ask * (100 + InterestSubmit) * (SubmitAmount + Fee))
                     \div (100 * SubmitAmount)
    ELSE (w.index_price.bid * 100 * SubmitAmount)
             \div ((100 + InterestSubmit) * (SubmitAmount + Fee))

(* What wallet and limits allow at a price; without max_amount 3% of the   *)
(* asset is kept for later price edits.                                    *)
get_bitcoin_amount(price, send, max_amount) ==
    LET scaled(x) == (IF max_amount THEN x ELSE (x * 100) \div 103) \div price
    IN  IF send
        THEN Min({(w.all.btc * 1000) \div 1001, scaled(w.all.recvAsset), w.all.sendBtc})
        ELSE Min({scaled(w.all.asset), w.all.recvBtc, scaled(w.all.sendAsset)})

(* May the order be taken, or signed, at the index price of now?           *)
take_order(d, interest) ==
    /\ d.amount \in MinAmount..MaxAmount
    /\ w.index_price /= NoPrice
    /\ IF d.send
       THEN d.price * d.amount * 100
                >= w.index_price.ask * (100 + interest) * actual_bitcoin_amount(d)
       ELSE d.price * d.amount * (100 + interest)
                <= w.index_price.bid * 100 * actual_bitcoin_amount(d)
    /\ d.amount <= get_bitcoin_amount((d.price * d.amount) \div actual_bitcoin_amount(d),
                                      d.send, TRUE)

(* get_pset finds coins for the whole amount; it reserves none of them.    *)
get_pset(d) ==
    IF d.send THEN d.amount + Fee <= w.utxos.btc ELSE d.price * d.amount <= w.utxos.asset
-----------------------------------------------------------------------------
(* A Timer queued behind another finds nothing new: one at the end of the  *)
(* queue stands for any number of them.                                    *)
Timer == [t |-> "Timer"]
Post(q, m) == IF q /= <<>> /\ Last(q) = m THEN q ELSE Append(q, m)

(* send_request, up to the wait for the reply.                             *)
Request(n, state, op, arg) ==
    LET c == [op |-> op, arg |-> arg]
    IN  /\ net' = [n EXCEPT !.reqs = Append(@, c)]
        /\ w' = [state EXCEPT !.call = c]
        /\ UNCHANGED <<srv, wallet, bounds>>

(* The first entry of the reply channel is taken for the reply; the field  *)
(* req of a reply is for the properties only.                              *)
Answer == Head(net.resps)
Answered(op, res) == w.call.op = op /\ net.resps /= <<>> /\ Answer.res = res
Read == [net EXCEPT !.resps = Tail(@)]

Step(n, state) == net' = n /\ w' = state /\ UNCHANGED <<srv, wallet, bounds>>
Return(state) == Step(Read, [state EXCEPT !.call = NoCall])

(* A message is taken from the queue by an idle worker.                    *)
Next_msg == Head(net.msgs)
Receives(t) == w.job = Idle /\ net.msgs /= <<>> /\ Next_msg.t = t
Taken == [net EXCEPT !.msgs = Tail(@)]
TakenThen(m) == [net EXCEPT !.msgs = Post(Tail(@), m)]
-----------------------------------------------------------------------------
(* Msg::Connected: Assets, Login and Subscribe, which fills the order list *)
(* before anything else is handled.  An error is a panic.  The answer to a *)
(* Login of a new session has no orders, which the code asserts.           *)
Connected ==
    /\ Receives("Connected")
    /\ Request(Taken, [w EXCEPT !.job = [h |-> "connected"]], "Assets", None)

ConnectedNext(op, next) ==
    /\ w.job.h = "connected" /\ Answered(op, "ok")
    /\ Request(Read, w, next, None)

Subscribed ==
    /\ Answered("Subscribe", "ok")
    /\ Step([Read EXCEPT !.msgs = Append(@, [t |-> "ReloadUtxo"])],
            [w EXCEPT !.orders = @ \cup Answer.arg, !.server_connected = TRUE,
                      !.job = Idle, !.call = NoCall])

Bug_keeps_own ==
    /\ Receives("Disconnected")
    /\ Step(Taken, [w EXCEPT !.server_connected = FALSE, !.orders = {}, !.taken_orders = {}])

Disconnected ==
    /\ Receives("Disconnected")
    /\ Step(Taken, [w EXCEPT !.server_connected = FALSE, !.orders = {}, !.taken_orders = {},
                             !.own_orders = [s \in Sides |-> None]])
-----------------------------------------------------------------------------
(* Notifications of the order list.                                        *)
OrderCreated ==
    /\ Receives("OrderCreated")
    /\ Step(TakenThen(Timer), [w EXCEPT !.orders = @ \cup {Next_msg.arg}])

OrderRemoved ==
    /\ Receives("OrderRemoved")
    /\ Step(Taken, [w EXCEPT !.orders = {d \in @ : d.id /= Next_msg.arg.id}])

(* Notification::Sign: the terms are checked again, at the lower interest. *)
Sign ==
    /\ Receives("Sign")
    /\ IF take_order(Next_msg.arg, InterestSign)
       THEN Request(Taken, [w EXCEPT !.job = [h |-> "sign"]], "Sign", Next_msg.arg)
       ELSE Step(Taken, w)

Details(id) == {d \in w.pending_signs : d.id = id}

(* Bug: the details are kept only for orders of the others. *)
Bug_no_details ==
    /\ Answered("Sign", "ok")
    /\ Return([w EXCEPT !.pending_signs =
                   IF w.call.arg.id > 0 THEN @ ELSE (@ \ Details(w.call.arg.id)) \cup {w.call.arg},
                        !.job = Idle])

SignSent ==
    /\ Answered("Sign", "ok")
    /\ Return([w EXCEPT !.pending_signs = (@ \ Details(w.call.arg.id)) \cup {w.call.arg},
                        !.job = Idle])

(* Notification::Complete: an own order of that id is forgotten; a swap is *)
(* reported to the owner with the details it was signed with.  Without     *)
(* them the worker panics (see UnknownSwap).                               *)
Complete ==
    /\ Receives("Complete")
    /\ LET id == Next_msg.arg.id
       IN  /\ Next_msg.txid => Details(id) /= {}
           /\ net' = Taken
           /\ w' = [w EXCEPT !.own_orders = [s \in Sides |-> IF @[s].id = id THEN None ELSE @[s]],
                             !.pending_signs = @ \ Details(id)]
           /\ srv' = IF Next_msg.txid
                     THEN [srv EXCEPT !.from = Append(@, LET d == CHOOSE d \in Details(id) : TRUE
                              IN [id |-> id, send |-> d.send, amount |-> actual_bitcoin_amount(d)])]
                     ELSE srv
    /\ UNCHANGED <<wallet, bounds>>
-----------------------------------------------------------------------------
(* The owner's messages, and ReloadUtxo.                                   *)
ReloadUtxo ==
    /\ Receives("ReloadUtxo")
    /\ Step(Taken, [w EXCEPT !.all.btc = wallet.btc, !.all.asset = wallet.asset,
                             !.utxos = IF wallet.blinded
                                       THEN [btc |-> wallet.btc, asset |-> wallet.asset]
                                       ELSE [btc |-> 0, asset |-> 0]])

ToPrice ==
    /\ Receives("Price")
    /\ Step(TakenThen(Timer), [w EXCEPT !.index_price = Next_msg.arg])

ToLimitBalance ==
    /\ Receives("LimitBalance")
    /\ Step(TakenThen(Timer), [w EXCEPT !.all = Next_msg.arg @@ @])

ToResetPrices ==
    /\ Receives("ResetPrices")
    /\ Step(Taken, [w EXCEPT !.index_price = NoPrice])
-----------------------------------------------------------------------------
(* Bug: the own orders are left alone without a price. *)
Bug_needs_price ==
    /\ Receives("Timer")
    /\ \E keys \in IF w.server_connected /\ w.index_price /= NoPrice THEN {{}, Sides} ELSE {{}} :
          Step(Taken, [w EXCEPT !.job = [h |-> "timer", keys |-> keys,
                                         left |-> {d \in w.orders : d.id \notin w.taken_orders}]])

(* Msg::Timer: the own orders are updated, the others' orders are taken,   *)
(* the wallet is looked at and an expired price is dropped, in this order. *)
StartTimer ==
    /\ Receives("Timer")
    /\ \E keys \in IF w.server_connected THEN {{}, Sides} ELSE {{}} :
          Step(Taken, [w EXCEPT !.job = [h |-> "timer", keys |-> keys,
                                         left |-> {d \in w.orders : d.id \notin w.taken_orders}]])

(* What update_price asks of the server for a side.                        *)
update_price(s) ==
    LET own == w.own_orders[s]
        known == w.index_price /= NoPrice
        price == get_price(s)
        normal == Min({get_bitcoin_amount(price, s, FALSE), SubmitAmount})
        most == get_bitcoin_amount(price, s, TRUE)
        resized == \/ most = 0
                   \/ own.amount > most
                   \/ (normal - own.amount) * 100 >= 5 * own.amount
    IN  CASE own = None /\ known /\ normal >= MinAmount ->
               [op |-> "Submit", arg |-> [send |-> s, amount |-> normal, price |-> price]]
          [] own /= None /\ known /\ resized -> [op |-> "Cancel", arg |-> [id |-> own.id]]
          [] own /= None /\ ~known -> [op |-> "Cancel", arg |-> [id |-> own.id]]
          [] own /= None /\ known /\ ~resized /\ own.price /= price ->
               [op |-> "Edit", arg |-> [id |-> own.id, price |-> price]]
          [] OTHER -> NoCall

InTimer == w.job.h = "timer" /\ w.call = NoCall
Side == IF FALSE \in w.job.keys THEN FALSE ELSE TRUE
Updated == [w EXCEPT !.job.keys = @ \ {Side}]

UpdatePrice ==
    /\ InTimer /\ w.job.keys /= {}
    /\ LET u == update_price(Side)
       IN  IF u = NoCall THEN Step(net, Updated) ELSE Request(net, w, u.op, u.arg)

(* Submit, then PsetMaker; the order is known once that succeeds, with the *)
(* amount and the price that were asked for.                               *)
OnSubmit ==
    \/ /\ Answered("Submit", "ok") /\ get_pset(Answer.arg)
       /\ Request(Read, w, "PsetMaker", w.call.arg @@ [id |-> Answer.arg.id])
    \/ /\ Answered("Submit", "err") \/ (Answered("Submit", "ok") /\ ~get_pset(Answer.arg))
       /\ Return(Updated)

(* Bug: the order is not remembered. *)
Bug_forgets_order ==
    /\ Answered("PsetMaker", "ok") \/ Answered("PsetMaker", "err")
    /\ Return(Updated)

OnPsetMaker ==
    \/ /\ Answered("PsetMaker", "ok")
       /\ Return([Updated EXCEPT !.own_orders[Side] =
              [id |-> w.call.arg.id, amount |-> w.call.arg.amount, price |-> w.call.arg.price]])
    \/ Answered("PsetMaker", "err") /\ Return(Updated)

(* cancel_order: the order is forgotten when Complete comes.               *)
OnCancel ==
    /\ Answered("Cancel", "ok") \/ Answered("Cancel", "err")
    /\ Return(Updated)

(* A failed Edit cancels the order and forgets it whatever the answer.     *)
OnEdit ==
    \/ /\ Answered("Edit", "ok")
       /\ Return([Updated EXCEPT !.own_orders[Side].price = w.call.arg.price])
    \/ /\ Answered("Edit", "err")
       /\ Request(Read, w, "CancelForget", [id |-> w.call.arg.id])

OnCancelForget ==
    /\ Answered("CancelForget", "ok") \/ Answered("CancelForget", "err")
    /\ Return([Updated EXCEPT !.own_orders[Side] = None])

(* The others' orders, in turn.                                            *)
Tried(d) == [w EXCEPT !.job.left = @ \ {d}]
TakeOrder(d) ==
    /\ InTimer /\ w.job.keys = {} /\ d \in w.job.left
    /\ IF take_order(d, InterestSubmit) /\ get_pset(d)
       THEN Request(net, w, "PsetTaker", d)
       ELSE Step(net, Tried(d))

Bug_not_taken ==
    /\ Answered("PsetTaker", "ok") \/ Answered("PsetTaker", "err")
    /\ Return(Tried(w.call.arg))

OnPsetTaker ==
    \/ Answered("PsetTaker", "ok") /\ Return([Tried(w.call.arg) EXCEPT !.taken_orders = @ \cup {w.call.arg.id}])
    \/ Answered("PsetTaker", "err") /\ Return(Tried(w.call.arg))

EndTimer ==
    /\ InTimer /\ w.job.keys = {} /\ w.job.left = {}
    /\ \E price \in {w.index_price, NoPrice} :
          Step(IF w.wallet_balance = wallet THEN net
               ELSE [net EXCEPT !.msgs = Append(@, [t |-> "ReloadUtxo"])],
               [w EXCEPT !.wallet_balance = wallet, !.job = Idle, !.index_price = price])
-----------------------------------------------------------------------------
(* The server (external), as the worker sees it: it answers in order, and  *)
(* forgets the dealer's orders when the connection ends.                   *)
Fault == losses + refusals < srv.setup.faults

ServerOrder(id) == {o \in srv.orders : o.id = id}
InStage(id, stages) == \E o \in ServerOrder(id) : o.stage \in stages
Restaged(id, stage) ==
    [srv EXCEPT !.orders = {IF o.id = id THEN [o EXCEPT !.stage = stage] ELSE o : o \in @}]
Without(id) == [srv EXCEPT !.orders = @ \ ServerOrder(id)]
Terms(o) == [id |-> o.id, send |-> o.send, amount |-> o.amount, price |-> o.price]

Accepts(c) ==
    CASE c.op = "Submit" -> srv.next <= MaxOrders
      [] c.op = "PsetMaker" -> InStage(c.arg.id, {"new"})
      [] c.op \in {"Cancel", "CancelForget"} -> InStage(c.arg.id, {"new", "ready"})
      [] c.op = "Edit" -> InStage(c.arg.id, {"ready"})
      [] c.op = "PsetTaker" -> Terms(c.arg) \in srv.listed /\ ServerOrder(c.arg.id) = {}
      [] c.op = "Sign" -> InStage(c.arg.id, {"asked"})
      [] OTHER -> TRUE

(* A request made while the end of an earlier connection is not handled.   *)
Early == \E i \in DOMAIN net.msgs : net.msgs[i].t = "Disconnected"

Executed(c) ==
    CASE c.op = "Subscribe" -> [srv EXCEPT !.session = "in"]
      [] c.op = "Submit" ->
           [srv EXCEPT !.orders = @ \cup {c.arg @@ [id |-> srv.next, stage |-> "new", early |-> Early]},
                       !.next = @ + 1]
      [] c.op \in {"PsetMaker", "Sign"} ->
           Restaged(c.arg.id, IF c.op = "Sign" THEN "signed" ELSE "ready")
      [] c.op \in {"Cancel", "CancelForget"} -> Without(c.arg.id)
      [] c.op = "Edit" ->
           [srv EXCEPT !.orders = {IF o.id = c.arg.id THEN [o EXCEPT !.price = c.arg.price]
                                   ELSE o : o \in @}]
      [] c.op = "PsetTaker" ->
           [srv EXCEPT !.orders = @ \cup {c.arg @@ [stage |-> "ready", early |-> Early]}]
      [] OTHER -> srv

Completed(id, txid) == [t |-> "Complete", arg |-> [id |-> id], txid |-> txid]
ServerAnswers ==
    /\ net.sock /= <<>>
    /\ LET c == Head(net.sock)
           arg == CASE c.op = "Submit" -> c.arg @@ [id |-> srv.next]
                    [] c.op = "Subscribe" -> srv.listed
                    [] OTHER -> None
           reply(res) == [t |-> "Reply", res |-> res, arg |-> arg, req |-> c]
           news == IF c.op \in {"Cancel", "CancelForget"}
                   THEN <<Completed(c.arg.id, FALSE)>> ELSE <<>>
       IN  \/ /\ Accepts(c)
              /\ srv' = Executed(c)
              /\ net' = [net EXCEPT !.sock = Tail(@),
                                    !.stream = Append(@, reply("ok")) \o news]
              /\ UNCHANGED refusals
           \/ /\ IF Accepts(c) THEN Fault /\ refusals' = refusals + 1
                 ELSE UNCHANGED refusals
              /\ net' = [net EXCEPT !.sock = Tail(@), !.stream = Append(@, reply("err"))]
              /\ UNCHANGED srv
    /\ UNCHANGED <<w, wallet, inputs, losses>>

List(d) ==
    /\ d \notin srv.done
    /\ inputs < srv.setup.inputs /\ inputs' = inputs + 1
    /\ srv' = [srv EXCEPT !.listed = IF d \in @ THEN @ \ {d} ELSE @ \cup {d}]
    /\ LET m == [t |-> IF d \in srv.listed THEN "OrderRemoved" ELSE "OrderCreated", arg |-> d]
       IN  net' = [net EXCEPT !.stream = IF srv.session = "in" THEN Append(@, m) ELSE @]
    /\ UNCHANGED <<w, wallet, losses, refusals>>

AskSign(o) ==
    /\ o.stage = "ready"
    /\ srv' = Restaged(o.id, "asked")
    /\ net' = [net EXCEPT !.stream = Append(@, [t |-> "Sign", arg |-> Terms(o)])]
    /\ UNCHANGED <<w, wallet, bounds>>

(* A swap of two signatures is broadcast; an order in a swap may fail.     *)
Finish(o) ==
    /\ \/ /\ o.stage = "signed"
          /\ srv' = [Without(o.id) EXCEPT !.done = @ \cup {Terms(o)},
                                          !.listed = @ \ {Terms(o)}]
          /\ net' = [net EXCEPT !.stream = @ \o <<Completed(o.id, TRUE)>> \o
                        IF o.id > 0 THEN <<>> ELSE <<[t |-> "OrderRemoved", arg |-> Terms(o)]>>]
       \/ /\ o.stage \in {"asked", "signed"}
          /\ srv' = Without(o.id)
          /\ net' = [net EXCEPT !.stream = Append(@, Completed(o.id, FALSE))]
    /\ UNCHANGED <<w, wallet, bounds>>

(* The end of a connection.  A swap that was signed may still be broadcast *)
(* and a Complete on its way is lost: the dealer never hears of them.      *)
EndSession(unread) ==
    \E swaps \in SUBSET {o \in srv.orders : o.stage = "signed"} :
       LET lost == {j \in DOMAIN unread : unread[j].t = "Complete" /\ unread[j].txid}
           done == {Terms(o) : o \in swaps}
       IN  srv' = [srv EXCEPT
              !.session = "none", !.orders = {},
              !.done = @ \cup done, !.listed = @ \ done,
              !.missed = @ \cup {unread[i].arg.id : i \in lost} \cup {d.id : d \in done}]
-----------------------------------------------------------------------------
(* A panic ends the process, which is started again.  A handler panics     *)
(* when no reply comes in time, when a request it counts on is refused,    *)
(* and when a swap it has no details of is complete.                       *)
Restart ==
    /\ EndSession(net.stream \o net.msgs)
    /\ net' = NetInit
    /\ w' = Started(Sides)

InFlight ==
    \/ net.reqs /= <<>> \/ net.sock /= <<>>
    \/ \E i \in DOMAIN net.stream : net.stream[i].t = "Reply"

(* Bug: a request that times out is taken for one that failed. *)
Bug_timeout_is_an_error ==
    /\ w.call /= NoCall /\ net.resps = <<>>
    /\ Fault /\ refusals' = refusals + 1
    /\ net' = [net EXCEPT !.resps = <<[t |-> "Reply", res |-> "err", arg |-> None,
                                       req |-> w.call]>>]
    /\ UNCHANGED <<w, srv, wallet, inputs, losses>>

(* Bug: recv in place of recv_timeout. *)
Bug_no_timeout == FALSE /\ UNCHANGED vars

RequestTimeout ==
    /\ w.call /= NoCall /\ net.resps = <<>>
    /\ IF InFlight THEN Fault /\ refusals' = refusals + 1
       ELSE UNCHANGED refusals
    /\ Restart
    /\ UNCHANGED <<wallet, inputs, losses>>

Refused ==
    /\ \E op \in {"Assets", "Login", "Subscribe", "Sign"} : Answered(op, "err")
    /\ Restart
    /\ UNCHANGED <<wallet, bounds>>

UnknownSwap ==
    /\ Receives("Complete") /\ Next_msg.txid /\ Details(Next_msg.arg.id) = {}
-----------------------------------------------------------------------------
(* The surroundings of the worker.                                         *)
Lost ==
    /\ Fault /\ losses' = losses + 1
    /\ AutoLost
    /\ EndSession(net.stream)
    /\ UNCHANGED <<w, wallet, inputs, refusals>>

Socket ==
    /\ AutoConnected \/ AutoSend \/ AutoDeliver
    /\ UNCHANGED <<w, srv, wallet, bounds>>

(* Bound: the thread's Timer is posted when the queue is empty.            *)
Tick ==
    /\ net.msgs = <<>>
    /\ net' = [net EXCEPT !.msgs = <<Timer>>]
    /\ UNCHANGED <<w, srv, wallet, bounds>>

Owner ==
    /\ inputs < srv.setup.inputs /\ inputs' = inputs + 1
    /\ \E m \in [t : {"Price"}, arg : Pairs \cup {NoPrice}]
                \cup [t : {"LimitBalance"}, arg : Limits] \cup {[t |-> "ResetPrices"]} :
          net' = [net EXCEPT !.msgs = Append(@, m)]
    /\ UNCHANGED <<w, srv, wallet, losses, refusals>>

WalletChanges ==
    /\ inputs < srv.setup.inputs /\ inputs' = inputs + 1
    /\ wallet' \in Balances \ {wallet}
    /\ UNCHANGED <<net, w, srv, losses, refusals>>

Worker ==
    \/ Connected \/ ConnectedNext("Assets", "Login") \/ ConnectedNext("Login", "Subscribe")
    \/ Subscribed \/ Disconnected \/ OrderCreated \/ OrderRemoved \/ Sign \/ SignSent
    \/ Complete \/ ReloadUtxo \/ ToPrice \/ ToLimitBalance \/ ToResetPrices
    \/ StartTimer \/ UpdatePrice \/ OnSubmit \/ OnPsetMaker \/ OnCancel \/ OnEdit
    \/ OnCancelForget \/ (\E d \in Offers : TakeOrder(d)) \/ OnPsetTaker \/ EndTimer
    \/ RequestTimeout \/ Refused

SwapEnds == \E o \in srv.orders : Finish(o)

Next ==
    \/ Worker \/ ServerAnswers \/ SwapEnds \/ (\E o \in srv.orders : AskSign(o)) \/ (\E d \in Offers : List(d))
    \/ Lost \/ Socket \/ Tick \/ Owner \/ WalletChanges

Spec == Init /\ [][Next]_vars

(* The threads run, the server answers and ends its swaps, time passes: a  *)
(* price edit comes due again and again.                                   *)
EditDue == StartTimer /\ w'.job.keys = Sides
LiveSpec ==
    /\ Spec
    /\ WF_vars(Worker) /\ WF_vars(ServerAnswers) /\ WF_vars(SwapEnds) /\ WF_vars(Socket) /\ WF_vars(Tick)
    /\ SF_vars(EditDue)
-----------------------------------------------------------------------------
(* The shape of the state.                                                 *)
TypeOK ==
    /\ net.ws \in {"connecting", "open"} /\ Len(net.reqs) <= 1 /\ Len(net.sock) <= 1
    /\ w.server_connected \in BOOLEAN
    /\ DOMAIN w.own_orders = Sides
    /\ w.orders \subseteq Offers /\ w.taken_orders \subseteq {d.id : d \in Offers}
    /\ w.index_price \in Pairs \cup {NoPrice, srv.setup.price}
    /\ w.job.h \in {"idle", "connected", "sign", "timer"}
    /\ srv.listed \subseteq Offers /\ wallet \in Balances

(* send_request matches replies by their order alone: the entry it reads   *)
(* is the reply to the request it has just made, also after the connection *)
(* was lost and requests waited for the next one.                          *)
ReplyIsOwn ==
    \A i \in DOMAIN net.resps : i = 1 /\ net.resps[i].req = w.call

Unread == net.stream \o net.msgs
Coming(id, txid) == {i \in DOMAIN Unread : Unread[i] = Completed(id, txid)}

(* An own order the worker edits or cancels is one the server has, unless  *)
(* the news of its end is in the worker's queue.                           *)
KnownOrderIsLive ==
    \A s \in Sides :
       \/ w.own_orders[s] = None
       \/ ServerOrder(w.own_orders[s].id) /= {}
       \/ \E txid \in BOOLEAN : Coming(w.own_orders[s].id, txid) /= {}
       \/ Early

(* A swap that the server broadcast is reported to the owner once, with    *)
(* the amount that includes the fee, or its Complete is still unread, or   *)
(* it was lost with the connection; and nothing else is reported.  The     *)
(* owner hedges what is reported.                                          *)
SwapsReportedOnce ==
    /\ \A d \in srv.done :
          Len(SelectSeq(srv.from, LAMBDA f : f.id = d.id)) + Cardinality(Coming(d.id, TRUE))
             + (IF d.id \in srv.missed THEN 1 ELSE 0) = 1
    /\ \A i \in DOMAIN srv.from :
          \E d \in srv.done :
             srv.from[i] = [id |-> d.id, send |-> d.send,
                            amount |-> IF d.send THEN d.amount + Fee ELSE d.amount - Fee]

(* The worker has the details of every swap that completes: the expect of  *)
(* the Complete handler never panics.                                      *)
SwapsAreKnown == ~UnknownSwap

(* While the server refuses nothing, the dealer never has two orders of a  *)
(* side open to be matched, also after reconnections.  Orders made while    *)
(* a Disconnected waits in the queue are not counted: the worker forgets   *)
(* them when it handles it, and the server has them on its connection.     *)
OneOpenOrder ==
    refusals = 0 =>
       \A s \in Sides :
          Cardinality({o \in srv.orders : o.id > 0 /\ o.send = s /\ o.stage = "ready"
                                          /\ ~o.early}) <= 1

(* An order the dealer already takes part in is not asked for again.       *)
TakesOnce ==
    w.call.op = "PsetTaker" /\ net.reqs /= <<>> =>
        \A o \in ServerOrder(w.call.arg.id) : o.early

(* A price that is gone ends the own orders made from it.                  *)
OrdersAreWithdrawn ==
    w.index_price = NoPrice
       ~> (w.index_price /= NoPrice \/ \A s \in Sides : w.own_orders[s] = None)

(* No handler waits for ever, whatever is lost.                            *)
HandlersEnd == w.job /= Idle ~> w.job = Idle
=============================================================================
