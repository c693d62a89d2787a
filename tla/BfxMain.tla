------------------------------ MODULE BfxMain -------------------------------
(***************************************************************************)
(* The main loop of the Bitfinex dealer (sideswap_dealer_bitfinex/main.rs) *)
(* without the balancing of the wallets (BfxBalancing): prices of the      *)
(* exchange passed on, offers broadcast, instant swaps signed, and every   *)
(* swap hedged with an order on the exchange.                              *)
(*                                                                         *)
(* It is composed with the auto web-socket thread (WsAuto), the server,    *)
(* the thread of the exchange module (module.rs) with the proxy behind it, *)
(* and the dealer library, which reports swaps of its own.                 *)
(*                                                                         *)
(* One ticker; amounts are integers; time is left open, so anything with   *)
(* an age may be too old at any Timer.                                     *)
(***************************************************************************)
EXTENDS Integers, Sequences, FiniteSets, FiniteSetsExt, SequencesExt

CONSTANTS
    Setups,     \* [deals, warm, server, faults]: the swaps, as [id, instant, send (the
                \*   dealer sends bitcoins), amount]; whether the dealer is up already;
                \*   whether the server can be reached; and a bound on connections
                \*   lost, requests refused or late, and restarts
    Price,      \* the price on the exchange
    Interest,   \* INTEREST_DEFAULT_*, in percent
    MinHedge    \* MIN_HEDGE_AMOUNT

VARIABLES
    net,      \* the socket thread and the channels (WsAuto)
    d,        \* the local variables of main
    srv,      \* the server: the session, the offers it has, the swaps
    px,       \* the module thread, the proxy and the exchange
    told,     \* what the dealer library was told last
    subs,     \* the orders submitted by hedge_order (history)
    faults    \* left

INSTANCE WsAuto WITH IsReply <- LAMBDA m : m.t = "Reply"

vars == <<net, d, srv, px, told, subs, faults>>

Deals == srv.deals
None == [id |-> 0]
NoCall == [op |-> "none", arg |-> None]
Idle == [h |-> "idle"]
Empty == [btc |-> 0, asset |-> 0]
NoOffers == [s \in BOOLEAN |-> 0]

Started ==
    [server_connected |-> FALSE, module_connected |-> FALSE, price |-> 0, swaps |-> {},
     wallet |-> Empty, exchange |-> Empty, profit |-> FALSE, pending |-> {},
     job |-> Idle, call |-> NoCall]
NothingTold == [price |-> 0, limit |-> Empty]

(* The process is just started, or it has run for a while: both            *)
(* connections are up, and price and balances are known.                   *)
Balance == [btc |-> 300, asset |-> 3000]
Limit(v) == (v * 99) \div 100

Init ==
    \E s \in Setups :
       /\ net = IF s.warm /\ s.server THEN [NetInit EXCEPT !.ws = "open"] ELSE NetInit
       /\ d = IF s.warm THEN [Started EXCEPT !.server_connected = s.server,
                                   !.module_connected = TRUE, !.price = Price, !.wallet = Balance,
                                   !.exchange = Balance]
              ELSE Started
       /\ srv = [deals |-> s.deals, reachable |-> s.server, session |-> s.warm /\ s.server, offers |-> NoOffers,
                 stage |-> [x \in s.deals |-> "none"], missed |-> {}, wallet |-> Balance]
       /\ px = [up |-> s.warm, q |-> <<>>, logged |-> s.warm, book |-> FALSE, exec |-> {}, confirm |-> {},
                balance |-> Balance, shown |-> IF s.warm THEN Balance ELSE Empty, reported |-> {}]
       /\ told = IF s.warm THEN [price |-> Price, limit |-> [c \in DOMAIN Empty |-> Limit(Balance[c])]]
                 ELSE NothingTold
       /\ subs = {}
       /\ faults = s.faults

Fault == faults > 0 /\ faults' = faults - 1
-----------------------------------------------------------------------------
(* Requests to the server, as in the dealer library.                       *)
Request(n, state, op, arg) ==
    LET c == [op |-> op, arg |-> arg]
    IN  /\ net' = [n EXCEPT !.reqs = Append(@, c)]
        /\ d' = [state EXCEPT !.call = c]
        /\ UNCHANGED <<srv, px, told, subs, faults>>

Answer == Head(net.resps)
Answered(op) == d.call.op = op /\ net.resps /= <<>>
Read == [net EXCEPT !.resps = Tail(@)]
Post(n, m) == [n EXCEPT !.msgs = IF @ /= <<>> /\ Last(@) = m THEN @ ELSE Append(@, m)]

(* send_msg: the channel to the module thread.                             *)
send_msg(msgs) == px' = [px EXCEPT !.q = @ \o msgs]

(* The end of a handler.                                                   *)
Done(state) == d' = [state EXCEPT !.job = Idle, !.call = NoCall]
-----------------------------------------------------------------------------
(* What a swap of the ticker may use: the wallet on one side and 99% of    *)
(* the exchange's balance on the other, 0.5% kept for fees.                *)
get_prices ==
    LET ask == (d.price * (100 + Interest)) \div 100
        bid == (d.price * 100) \div (100 + Interest)
        exchange == [c \in DOMAIN Empty |-> Limit(d.exchange[c])]
        work(x) == (x * 995) \div 1000
    IN  [send \in BOOLEAN |->
           IF send THEN work(Min({d.wallet.btc * ask, exchange.asset}))
           ELSE work(Min({exchange.btc, d.wallet.asset \div bid}))]

(* A message is taken from the queue.  Before it is handled the price is   *)
(* broadcast, and then the offers, when a second has passed since.  The    *)
(* answers are only logged.  Bound: the offers are broadcast once in a     *)
(* session.                                                                *)
Receive ==
    /\ d.job = Idle /\ net.msgs /= <<>>
    /\ LET taken == [net EXCEPT !.msgs = Tail(@)]
           state == [d EXCEPT !.job = [h |-> "handle", m |-> Head(net.msgs)]]
       IN  \/ /\ net' = taken /\ d' = state
              /\ UNCHANGED <<srv, px, told, subs, faults>>
           \/ /\ d.price /= 0 /\ d.server_connected /\ srv.offers = NoOffers
              /\ Request(taken, [state EXCEPT !.job.h = "broadcast"], "PriceUpdateBroadcast", None)

OnPriceUpdate ==
    /\ Answered("PriceUpdateBroadcast")
    /\ Request(Read, d, "BroadcastPriceStream", get_prices)

OnBroadcast ==
    /\ Answered("BroadcastPriceStream")
    /\ net' = Read
    /\ d' = [d EXCEPT !.job.h = "handle", !.call = NoCall]
    /\ UNCHANGED <<srv, px, told, subs, faults>>

Msg == d.job.m
Handles(t) == d.job.h = "handle" /\ d.call = NoCall /\ Msg.t = t
-----------------------------------------------------------------------------
(* The connection to the server.  An error of these requests is a panic.   *)
Connected == Handles("Connected") /\ Request(net, d, "LoginDealer", None)

ConnectedNext(op, next) ==
    /\ Answered(op) /\ Answer.res = "ok"
    /\ Request(Read, d, next, None)

OnServerStatus ==
    /\ Answered("ServerStatus") /\ Answer.res = "ok"
    /\ net' = Post(Read, [t |-> "ReloadUtxo"])
    /\ Done([d EXCEPT !.server_connected = TRUE])
    /\ UNCHANGED <<srv, px, told, subs, faults>>

(* The instant swaps are kept: their SwapDone may be in the queue.         *)
Disconnected ==
    /\ Handles("Disconnected")
    /\ Done([d EXCEPT !.server_connected = FALSE])
    /\ UNCHANGED <<net, srv, px, told, subs, faults>>
-----------------------------------------------------------------------------
(* Instant swaps.  The inputs of a swap are all coins of the asset; those  *)
(* that are gone when the transaction comes back are not signed.           *)
StartSwapDealer ==
    /\ Handles("StartSwapDealer")
    /\ Request(net, d, "StartSwapDealer", Msg.x @@ [inputs |-> d.wallet])

Known(id) == \E s \in d.swaps : s.id = id

(* Bug: a swap whose start the server refused is not kept. *)
Bug_start_refused ==
    /\ Answered("StartSwapDealer")
    /\ net' = Read
    /\ Done([d EXCEPT !.swaps = IF Answer.res = "ok" THEN @ \cup {d.call.arg} ELSE @])
    /\ UNCHANGED <<srv, px, told, subs, faults>>

(* The swap is kept whatever the answer: a SwapDone follows in any case.   *)
OnStartSwapDealer ==
    /\ Answered("StartSwapDealer")
    /\ net' = Read
    /\ Done([d EXCEPT !.swaps = @ \cup {d.call.arg}])
    /\ UNCHANGED <<srv, px, told, subs, faults>>

BlindedSwapDealer ==
    /\ Handles("BlindedSwapDealer") /\ Known(Msg.x.id)
    /\ LET s == CHOOSE s \in d.swaps : s.id = Msg.x.id
       IN  Request(net, d, "SignedSwapDealer", Msg.x @@ [signed |-> s.inputs = d.wallet])

OnSignedSwapDealer ==
    /\ Answered("SignedSwapDealer")
    /\ net' = Read
    /\ Done(d)
    /\ UNCHANGED <<srv, px, told, subs, faults>>

(* Bug: the hedge has the direction of the swap. *)
Bug_signed_amount(x) ==
    IF x.send THEN -x.amount ELSE (x.amount * 1000 + 499) \div 998

(* The signed amount of the hedge; the exchange keeps 0.2% of what is      *)
(* bought.                                                                 *)
signed_bitcoin_amount(x) ==
    IF x.send THEN (x.amount * 1000 + 499) \div 998 ELSE -x.amount

(* hedge_order: an order of the amount, unless it is too small; its number *)
(* is the time in milliseconds, in which an earlier one may have been made *)
(* as well.                                                                *)
LastCid == Max({s.cid : s \in subs} \cup {0})

(* Bug: nothing is pending while the module is away. *)
Bug_hedge_order(state, x) ==
    IF x.amount >= MinHedge
    THEN \E cid \in {LastCid, LastCid + 1} \ {0} :
            /\ send_msg(<<[op |-> "OrderSubmit", cid |-> cid, amount |-> signed_bitcoin_amount(x)]>>)
            /\ subs' = subs \cup {[id |-> x.id, cid |-> cid, amount |-> signed_bitcoin_amount(x), n |-> Cardinality(subs)]}
            /\ Done([state EXCEPT !.pending = IF d.module_connected THEN @ \cup {cid} ELSE @,
                    !.profit = TRUE])
    ELSE UNCHANGED <<px, subs>> /\ Done(state)

hedge_order(state, x) ==
    IF x.amount >= MinHedge
    THEN \E cid \in {LastCid, LastCid + 1} \ {0} :
            /\ send_msg(<<[op |-> "OrderSubmit", cid |-> cid, amount |-> signed_bitcoin_amount(x)]>>)
            /\ subs' = subs \cup {[id |-> x.id, cid |-> cid, amount |-> signed_bitcoin_amount(x),
                                   n |-> Cardinality(subs)]}
            /\ Done([state EXCEPT !.pending = @ \cup {cid},
                    !.profit = TRUE])
    ELSE UNCHANGED <<px, subs>> /\ Done(state)

SwapDone ==
    /\ Handles("SwapDone") /\ Known(Msg.x.id)
    /\ LET left == [d EXCEPT !.swaps = {s \in @ : s.id /= Msg.x.id}]
       IN  IF Msg.ok THEN hedge_order(left, Msg.x) ELSE Done(left) /\ UNCHANGED <<px, subs>>
    /\ UNCHANGED <<net, srv, told, faults>>

(* From::Swap, a swap of the dealer library.                               *)
DealerSwap ==
    /\ Handles("Swap")
    /\ hedge_order(d, Msg.x)
    /\ UNCHANGED <<net, srv, told, faults>>

(* From::WalletBalanceUpdated, and ReloadUtxo itself.                      *)
WalletBalanceUpdated ==
    /\ Handles("WalletBalanceUpdated")
    /\ net' = Post(net, [t |-> "ReloadUtxo"])
    /\ Done(d)
    /\ UNCHANGED <<srv, px, told, subs, faults>>

ReloadUtxo ==
    /\ Handles("ReloadUtxo")
    /\ Done([d EXCEPT !.wallet = srv.wallet])
    /\ UNCHANGED <<net, srv, px, told, subs, faults>>
-----------------------------------------------------------------------------
(* The exchange module.                                                    *)
(* Bug: the login is sent once, when the process starts. *)
Bug_module_connected ==
    /\ Handles("ModuleConnected")
    /\ send_msg(<<[op |-> "Subscribe"]>>)
    /\ Done([d EXCEPT !.module_connected = TRUE])
    /\ UNCHANGED <<net, srv, told, subs, faults>>

ModuleConnected ==
    /\ Handles("ModuleConnected")
    /\ send_msg(<<[op |-> "Login"], [op |-> "Subscribe"]>>)
    /\ Done([d EXCEPT !.module_connected = TRUE])
    /\ UNCHANGED <<net, srv, told, subs, faults>>

(* Bug: the dealer library keeps the price. *)
Bug_module_disconnected ==
    /\ Handles("ModuleDisconnected")
    /\ Done([d EXCEPT !.module_connected = FALSE, !.price = 0])
    /\ UNCHANGED <<net, srv, px, told, subs, faults>>

ModuleDisconnected ==
    /\ Handles("ModuleDisconnected")
    /\ Done([d EXCEPT !.module_connected = FALSE, !.price = 0])
    /\ told' = [told EXCEPT !.price = 0]
    /\ UNCHANGED <<net, srv, px, subs, faults>>

BookUpdate ==
    /\ Handles("BookUpdate")
    /\ Done([d EXCEPT !.price = Price])
    /\ told' = [told EXCEPT !.price = Price]
    /\ UNCHANGED <<net, srv, px, subs, faults>>

OrderConfirm ==
    /\ Handles("OrderConfirm")
    /\ Done([d EXCEPT !.pending = @ \ {Msg.cid}])
    /\ UNCHANGED <<net, srv, px, told, subs, faults>>

(* A new balance limits what the dealer library may receive.               *)
WalletUpdate ==
    /\ Handles("WalletUpdate")
    /\ Done([d EXCEPT !.exchange[Msg.c] = Msg.v])
    /\ told' = [told EXCEPT !.limit[Msg.c] = IF d.exchange[Msg.c] = Msg.v THEN @ ELSE Limit(Msg.v)]
    /\ UNCHANGED <<net, srv, px, subs, faults>>

(* Timer: the price may have expired; the profit report that is waited for *)
(* may be given up by its age or made, all balances having changed since   *)
(* the hedge (both left open); orders not confirmed in 30 seconds are      *)
(* reported and forgotten.                                                 *)
Timer ==
    /\ Handles("Timer")
    /\ \E price \in {d.price, 0}, old \in SUBSET d.pending, closed \in BOOLEAN :
          /\ Done([d EXCEPT !.price = price, !.pending = @ \ old, !.profit = @ /\ ~closed])
          /\ told' = IF price = d.price THEN told ELSE [told EXCEPT !.price = 0]
          /\ px' = [px EXCEPT !.reported = @ \cup old]
    /\ UNCHANGED <<net, srv, subs, faults>>
-----------------------------------------------------------------------------
(* module.rs: the thread reconnects for ever; requests made meanwhile wait *)
(* and are written to the next connection.                                 *)
ModuleUp ==
    /\ ~px.up
    /\ px' = [px EXCEPT !.up = TRUE]
    /\ net' = Post(net, [t |-> "ModuleConnected"])
    /\ UNCHANGED <<d, srv, told, subs, faults>>

Closed(q) ==
    /\ px' = [px EXCEPT !.up = FALSE, !.logged = FALSE, !.book = FALSE, !.confirm = {}, !.q = q]
    /\ net' = Post(net, [t |-> "ModuleDisconnected"])

(* What was written last is lost with the connection, the rest waits.      *)
ModuleDown ==
    /\ px.up /\ Fault
    /\ \E k \in 0..Len(px.q) : Closed(SubSeq(px.q, k + 1, Len(px.q)))
    /\ UNCHANGED <<d, srv, told, subs>>

(* The proxy closes a connection on which an order, or a subscription,     *)
(* comes before the login, or a second login.  By then the thread has      *)
(* written all that was queued.                                            *)
Proxy ==
    /\ px.up /\ px.q /= <<>>
    /\ LET r == Head(px.q)
           read == [px EXCEPT !.q = Tail(@)]
       IN  \/ /\ r.op = "Login" /\ ~px.logged
              /\ px' = [read EXCEPT !.logged = TRUE] /\ UNCHANGED net
           \/ r.op = "Subscribe" /\ px.logged /\ px' = [read EXCEPT !.book = TRUE] /\ UNCHANGED net
           \/ /\ r.op = "OrderSubmit" /\ px.logged
              /\ px' = [read EXCEPT !.exec = @ \cup {r.cid}, !.confirm = @ \cup {r.cid},
                                    !.balance = [btc |-> @.btc + r.amount, asset |-> @.asset - r.amount * Price]]
              /\ UNCHANGED net
           \/ px.logged = (r.op = "Login") /\ Closed(<<>>)
    /\ UNCHANGED <<d, srv, told, subs, faults>>

(* News of the exchange: the order book, balances, orders.  Bound: they    *)
(* come one at a time.                                                     *)
Exchange ==
    /\ px.logged /\ net.msgs = <<>>
    /\ \/ px.book /\ net' = Post(net, [t |-> "BookUpdate"]) /\ px' = [px EXCEPT !.book = FALSE]
       \/ \E c \in DOMAIN Empty :
             /\ px.shown[c] /= px.balance[c]
             /\ net' = Post(net, [t |-> "WalletUpdate", c |-> c, v |-> px.balance[c]])
             /\ px' = [px EXCEPT !.shown[c] = px.balance[c]]
       \/ \E cid \in px.confirm :
             /\ net' = Post(net, [t |-> "OrderConfirm", cid |-> cid])
             /\ px' = [px EXCEPT !.confirm = @ \ {cid}]
    /\ UNCHANGED <<d, srv, told, subs, faults>>
-----------------------------------------------------------------------------
(* The server (external).                                                  *)
Stage(x) == srv.stage[x]
Deal(r) == CHOOSE x \in Deals : x.id = r.arg.id
Accepts(r) ==
    CASE r.op \in {"PriceUpdateBroadcast", "BroadcastPriceStream"} -> srv.session
      [] r.op = "StartSwapDealer" -> Stage(Deal(r)) = "started"
      [] r.op = "SignedSwapDealer" -> Stage(Deal(r)) = "ready" /\ r.arg.signed
      [] OTHER -> TRUE

ServerAnswers ==
    /\ net.sock /= <<>>
    /\ LET r == Head(net.sock)
           reply(res) == [t |-> "Reply", res |-> res, req |-> r]
           news == IF r.op = "StartSwapDealer" THEN <<[t |-> "BlindedSwapDealer", x |-> Deal(r)]>> ELSE <<>>
       IN  \/ /\ Accepts(r)
              /\ net' = [net EXCEPT !.sock = Tail(@), !.stream = Append(@, reply("ok")) \o news]
              /\ srv' = CASE r.op = "LoginDealer" -> [srv EXCEPT !.session = TRUE]
                          [] r.op = "BroadcastPriceStream" -> [srv EXCEPT !.offers = r.arg]
                          [] r.op = "StartSwapDealer" -> [srv EXCEPT !.stage[Deal(r)] = "ready"]
                          [] r.op = "SignedSwapDealer" -> [srv EXCEPT !.stage[Deal(r)] = "signed"]
                          [] OTHER -> srv
              /\ UNCHANGED faults
           \/ /\ IF Accepts(r) THEN Fault ELSE UNCHANGED faults
              /\ net' = [net EXCEPT !.sock = Tail(@), !.stream = Append(@, reply("err"))]
              /\ UNCHANGED srv
    /\ UNCHANGED <<d, px, told, subs>>

StartSwap(x) ==
    /\ x.instant /\ Stage(x) = "none" /\ srv.session
    /\ srv.offers[x.send] >= IF x.send THEN x.amount * Price ELSE x.amount
    /\ srv' = [srv EXCEPT !.stage[x] = "started"]
    /\ net' = [net EXCEPT !.stream = Append(@, [t |-> "StartSwapDealer", x |-> x])]
    /\ UNCHANGED <<d, px, told, subs, faults>>

Sign(x) == IF x.send THEN -1 ELSE 1
Swapped(s, x) ==
    [s EXCEPT !.stage[x] = "done",
              !.wallet = [btc |-> @.btc + Sign(x) * x.amount, asset |-> @.asset - Sign(x) * x.amount * Price]]

EndSwap(x) ==
    /\ Stage(x) \in {"started", "ready", "signed"}
    /\ \E ok \in {FALSE, Stage(x) = "signed"} :
          /\ srv' = IF ok THEN Swapped(srv, x) ELSE [srv EXCEPT !.stage[x] = "failed"]
          /\ net' = [net EXCEPT !.stream = Append(@, [t |-> "SwapDone", x |-> x, ok |-> ok])]
    /\ UNCHANGED <<d, px, told, subs, faults>>

(* The dealer library (Dealer) reports a swap, perhaps of a price that was *)
(* withdrawn since, and the new balance.                                   *)
LibrarySwap(x) ==
    /\ ~x.instant /\ Stage(x) = "none"
    /\ srv' = Swapped(srv, x)
    /\ net' = [net EXCEPT !.msgs = Append(@, [t |-> "Swap", x |-> x])]
    /\ UNCHANGED <<d, px, told, subs, faults>>

LibraryBalance ==
    /\ d.wallet /= srv.wallet /\ net.msgs = <<>>
    /\ net' = Post(net, [t |-> "WalletBalanceUpdated"])
    /\ UNCHANGED <<d, srv, px, told, subs, faults>>

(* The end of a session; a swap that was signed may still be broadcast.    *)
Reports(x, m) == m.t \in {"Swap", "SwapDone"} /\ m.x = x
EndSession(unread) ==
    \E late \in SUBSET {x \in Deals : Stage(x) = "signed"} :
       srv' = [srv EXCEPT
          !.session = FALSE, !.offers = NoOffers,
          !.stage = [x \in Deals |-> IF x \in late THEN "done"
                                     ELSE IF @[x] \in {"started", "ready", "signed"} THEN "failed" ELSE @[x]],
          !.missed = @ \cup late \cup
              {x \in Deals : Stage(x) = "done" /\ \E i \in DOMAIN unread : Reports(x, unread[i])}]
-----------------------------------------------------------------------------
(* The process ends by a signal, or by the panic of a request that gets no *)
(* reply in time, of a refused login, or of a swap that is not known; it   *)
(* is started again.                                                       *)
Restart ==
    /\ EndSession(net.stream \o (IF d.job = Idle THEN net.msgs ELSE <<Msg>> \o net.msgs))
    /\ net' = NetInit /\ d' = Started /\ told' = NothingTold
    /\ px' = [px EXCEPT !.up = FALSE, !.logged = FALSE, !.book = FALSE, !.q = <<>>, !.confirm = {},
                        !.shown = Empty]
    /\ subs' = {[s EXCEPT !.n = -1] : s \in subs}

Exit == d.job = Idle /\ Fault /\ Restart

InFlight ==
    net.reqs /= <<>> \/ net.sock /= <<>> \/ \E i \in DOMAIN net.stream : net.stream[i].t = "Reply"

(* Bug: a request that times out is taken for one that failed. *)
Bug_timeout_is_an_error ==
    /\ d.call /= NoCall /\ net.resps = <<>> /\ Fault
    /\ net' = [net EXCEPT !.resps = <<[t |-> "Reply", res |-> "err", req |-> d.call]>>]
    /\ UNCHANGED <<d, srv, px, told, subs>>

RequestTimeout ==
    /\ d.call /= NoCall /\ net.resps = <<>>
    /\ IF InFlight THEN Fault ELSE UNCHANGED faults
    /\ Restart

Refused ==
    /\ \E op \in {"LoginDealer", "Assets", "Login", "ServerStatus"} : Answered(op) /\ Answer.res = "err"
    /\ Restart /\ UNCHANGED faults

UnknownSwap == (Handles("BlindedSwapDealer") \/ Handles("SwapDone")) /\ ~Known(Msg.x.id)
-----------------------------------------------------------------------------
Lost ==
    /\ AutoLost /\ Fault
    /\ EndSession(net.stream)
    /\ UNCHANGED <<d, px, told, subs>>

Socket ==
    /\ (srv.reachable /\ AutoConnected) \/ AutoSend \/ AutoDeliver
    /\ UNCHANGED <<d, srv, px, told, subs, faults>>

(* Bound: the Timer is posted when the queue is empty.                     *)
Tick ==
    /\ net.msgs = <<>> /\ d.job = Idle
    /\ d.price /= 0 \/ d.profit \/ d.pending /= {}
    /\ net' = Post(net, [t |-> "Timer"])
    /\ UNCHANGED <<d, srv, px, told, subs, faults>>

Main ==
    \/ Receive \/ OnPriceUpdate \/ OnBroadcast
    \/ Connected \/ ConnectedNext("LoginDealer", "Assets") \/ ConnectedNext("Assets", "Login")
    \/ ConnectedNext("Login", "ServerStatus") \/ OnServerStatus \/ Disconnected
    \/ StartSwapDealer \/ OnStartSwapDealer \/ BlindedSwapDealer \/ OnSignedSwapDealer
    \/ SwapDone \/ DealerSwap \/ WalletBalanceUpdated \/ ReloadUtxo
    \/ ModuleConnected \/ ModuleDisconnected \/ BookUpdate \/ OrderConfirm \/ WalletUpdate
    \/ Timer \/ RequestTimeout \/ Refused
External ==
    \/ (\E x \in Deals : StartSwap(x) \/ EndSwap(x) \/ LibrarySwap(x)) \/ LibraryBalance
    \/ Exchange \/ ModuleDown \/ Lost \/ Exit \/ Tick
Next == Main \/ ServerAnswers \/ Socket \/ ModuleUp \/ Proxy \/ External

Spec == Init /\ [][Next]_vars
LiveSpec ==
    Spec /\ WF_vars(Main) /\ WF_vars(ServerAnswers) /\ WF_vars(Socket) /\ WF_vars(ModuleUp) /\ WF_vars(Proxy)
-----------------------------------------------------------------------------
(* The shape of the state: one request at a time is under way.             *)
TypeOK ==
    /\ net.ws \in {"connecting", "open"} /\ Len(net.reqs) + Len(net.sock) <= 1
    /\ d.price \in {0, Price} /\ {s.id : s \in d.swaps} \subseteq {x.id : x \in Deals}
    /\ d.pending \subseteq 1..Cardinality(Deals)
    /\ d.job.h \in {"idle", "broadcast", "handle"}

(* send_request matches replies by their order alone; the entry it reads   *)
(* is the reply to its own request, on whatever connection it came.        *)
ReplyIsOwn == \A i \in DOMAIN net.resps : i = 1 /\ net.resps[i].req = d.call

(* The handlers of BlindedSwapDealer and SwapDone find the swap: their     *)
(* expect never panics, also when the start was refused, or the server has *)
(* reconnected meanwhile.                                                  *)
SwapsAreKnown == ~UnknownSwap

Unread == net.stream \o (IF d.job = Idle THEN net.msgs ELSE <<Msg>> \o net.msgs)
Coming(x) == {i \in DOMAIN Unread : Reports(x, Unread[i])}

(* Every swap that was broadcast is hedged once, by either way it is       *)
(* reported, unless it is too small, its report is still unread, or it was *)
(* lost with the connection or the process; nothing else is hedged.  What  *)
(* the exchange leaves of the hedge is what the dealer gave, and it has    *)
(* the opposite direction.                                                 *)
SwapsHedged ==
    /\ \A s \in subs : \E x \in Deals :
          /\ x.id = s.id /\ Stage(x) = "done"
          /\ IF x.send THEN (s.amount * 998) \div 1000 - x.amount \in -1..1 ELSE s.amount = -x.amount
    /\ \A x \in Deals :
          LET n == Cardinality({s \in subs : s.id = x.id})
          IN  IF x.amount < MinHedge THEN n = 0
              ELSE Stage(x) = "done" => n + Cardinality(Coming(x)) + (IF x \in srv.missed THEN 1 ELSE 0) = 1

(* An order that has not reached the exchange is still awaited or has been *)
(* reported, also when the module was away when it was made.  Two orders   *)
(* of the same millisecond have the same number and are one to the dealer; *)
(* a restarted dealer knows nothing of earlier orders (n = -1).            *)
LostOrdersReported ==
    \A s \in subs :
       s.n >= 0 /\ s.cid \notin px.exec /\ (\A o \in subs : o.cid = s.cid => o = s)
          => s.cid \in d.pending \cup px.reported

(* What the dealer library was told is what the exchange said last, and    *)
(* without the exchange it has no price.                                   *)
DealerIsTold ==
    /\ told.price = d.price
    /\ \A c \in DOMAIN Empty : told.limit[c] = Limit(d.exchange[c])
    /\ ~d.module_connected => told.price = 0

(* The exchange is logged in to again after any loss, although an order or *)
(* a login meant for an earlier connection makes the proxy close the next. *)
ModuleRecovers == <>[](px.logged /\ d.module_connected)
=============================================================================
