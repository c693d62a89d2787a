----------------------------- MODULE OrderList ------------------------------
(***************************************************************************)
(* The order list of the client: worker.rs keeps orders_last, what the     *)
(* server has told about own orders and about the orders of the markets    *)
(* subscribed to, and repeats it to the user interface with                *)
(* sync_order_list.                                                        *)
(*                                                                         *)
(* A market is that of one asset (Some(asset_id)) or the market of all     *)
(* other assets, the tokens (None).  ClientConn models how connections are *)
(* opened and lost; here a connection is two queues, which a loss or the   *)
(* worker itself (restart_websocket) ends.  The server is modelled from    *)
(* how the client uses it.                                                 *)
(*                                                                         *)
(* Left out: a logout while the client is not connected, and that a logout *)
(* forgets session_id, so that the orders made before it are own no more.  *)
(***************************************************************************)
EXTENDS Naturals, Sequences, FiniteSets

CONSTANTS
    Order,           \* order ids
    AssetOf,         \* the asset of each order
    Own,             \* the client's own orders
    SwapAsset,       \* the assets with a market of their own
    MaxChanges,      \* bound: orders created, edited or removed
    MaxSubscribes,   \* bound: changes of the markets shown
    MaxLosses        \* bound: connections lost, pings and logins that fail

TokenMarket == "tokens"
Price == {1, 2}

ASSUME OrderListAssumption ==
    /\ Own \subseteq Order
    /\ IsFiniteSet(SwapAsset) /\ TokenMarket \notin SwapAsset
    /\ {MaxChanges, MaxSubscribes, MaxLosses} \subseteq Nat

Market == SwapAsset \cup {TokenMarket}
MarketOf(o) == IF AssetOf[o] \in SwapAsset THEN AssetOf[o] ELSE TokenMarket

VARIABLES
    assets,         \* assets the client knows
    subscribes,     \* markets shown
    connected,      \* the login was answered
    orders_last,    \* order list of the worker: id -> order
    orders_sent,    \* order list of the user interface
    link,           \* the web-socket thread: "idle", "connecting", "up"
    login,          \* call of the worker: "none", "asked", or "answered"
    loginOrders,    \* the own orders in the answer
    toServer,       \* requests on their way
    fromServer,     \* messages on their way to the worker
    open,           \* open orders at the server: id -> price
    session,        \* the server has seen the login
    subscribed,     \* markets the server reports to the client
    changes, selections, losses

client == <<assets, subscribes, connected, orders_last, orders_sent>>
server == <<open, session, subscribed>>
counters == <<changes, selections, losses>>
vars == <<client, link, login, loginOrders, toServer, fromServer, server, counters>>

NoOrders == [o \in {} |-> 0]
Keep(f, S) == [x \in DOMAIN f \cap S |-> f[x]]
Over(f, g) == [x \in DOMAIN f \cup DOMAIN g |-> IF x \in DOMAIN f THEN f[x] ELSE g[x]]
Visible(market) == {o \in DOMAIN open : MarketOf(o) = market}

Init ==
    /\ assets = SwapAsset /\ subscribes = {} /\ connected = FALSE
    /\ orders_last = NoOrders /\ orders_sent = NoOrders
    /\ link = "idle" /\ login = "none" /\ loginOrders = NoOrders
    /\ toServer = <<>> /\ fromServer = <<>>
    /\ open = NoOrders /\ session = FALSE /\ subscribed = {}
    /\ changes = 0 /\ selections = 0 /\ losses = 0
-----------------------------------------------------------------------------
(* The worker.                                                             *)

(* Bug: the web-socket thread is not told. *)
Bug_restart_silently == connected' = FALSE /\ UNCHANGED toServer

(* The list stays until the end of the connection is reported.  A thread   *)
(* without a connection drops the request.                                 *)
restart_websocket ==
    /\ connected' = FALSE
    /\ toServer' = IF link = "idle" THEN toServer ELSE Append(toServer, [type |-> "Disconnect"])

(* Bug: nothing is taken off the list of the user interface. *)
Bug_sync_adds_only == orders_sent' = Over(orders_last', orders_sent)

(* OrderRemoved for what is gone, OrderCreated for what is new or changed. *)
sync_order_list ==
    LET removed == DOMAIN orders_sent \ DOMAIN orders_last'
        kept == Keep(orders_sent, Order \ removed)
        updated == {o \in DOMAIN orders_last' :
                        o \notin DOMAIN kept \/ kept[o] /= orders_last'[o]}
    IN  orders_sent' = Over(Keep(orders_last', updated), kept)

(* Bug: the assets of the new orders replace the known ones. *)
Bug_AddOrders_forgets_assets(list, registry) ==
    /\ assets' = IF registry THEN {AssetOf[o] : o \in DOMAIN list} ELSE assets
    /\ orders_last' = Over([o \in DOMAIN list |->
           [price |-> list[o], own |-> o \in Own, token_market |-> FALSE]], orders_last)

(* try_add_asset registers the asset of an order that is not known yet,    *)
(* unless the registry fails; the market is told from the known assets.    *)
AddOrders(list, registry) ==
    LET known == assets \cup (IF registry THEN {AssetOf[o] : o \in DOMAIN list} ELSE {})
        add_order(o) == [price |-> list[o], own |-> o \in Own,
                         token_market |-> AssetOf[o] \notin known]
    IN  /\ assets' = known
        /\ orders_last' = Over([o \in DOMAIN list |-> add_order(o)], orders_last)

(* One request for each market, in any order. *)
Requests(type, markets) ==
    {q \in [1..Cardinality(markets) -> [type : {type}, market : markets]] :
        \A m \in markets : \E i \in DOMAIN q : q[i].market = m}

process_subscribe(new_subscribes) ==
    /\ login = "none"
    /\ selections < MaxSubscribes /\ new_subscribes /= subscribes
    /\ selections' = selections + 1
    /\ subscribes' = new_subscribes
    /\ \E unsub \in Requests("Unsubscribe", subscribes \ new_subscribes),
          sub \in Requests("Subscribe", new_subscribes \ subscribes) :
           toServer' = IF link = "idle" THEN toServer ELSE toServer \o unsub \o sub
    /\ UNCHANGED <<assets, connected, orders_last, orders_sent, link, login, loginOrders,
                   fromServer, server, changes, losses>>

(* Bug: the markets are not subscribed to again. *)
Bug_connected_no_resubscribe ==
    /\ login = "answered"
    /\ login' = "none"
    /\ \E registry \in BOOLEAN : AddOrders(loginOrders, registry)
    /\ sync_order_list
    /\ connected' = TRUE
    /\ loginOrders' = NoOrders
    /\ UNCHANGED <<subscribes, link, toServer, fromServer, server, counters>>

(* The end of try_process_ws_connected, then send_subscribe_request.       *)
process_ws_connected ==
    /\ login = "answered"
    /\ login' = "none"
    /\ \E registry \in BOOLEAN : AddOrders(loginOrders, registry)
    /\ sync_order_list
    /\ connected' = TRUE
    /\ loginOrders' = NoOrders
    /\ \E sub \in Requests("Subscribe", subscribes) : toServer' = toServer \o sub
    /\ UNCHANGED <<subscribes, link, fromServer, server, counters>>

(* Bug: the list is kept until the next login. *)
Bug_disconnected_keeps_orders ==
    /\ connected' = FALSE
    /\ UNCHANGED <<assets, orders_last, orders_sent>>

process_ws_disconnected ==
    /\ connected' = FALSE
    /\ orders_last' = NoOrders
    /\ sync_order_list
    /\ UNCHANGED assets

process_subscribe_response(m) ==
    /\ \E registry \in BOOLEAN : AddOrders(m.orders, registry)
    /\ sync_order_list
    /\ UNCHANGED connected

process_unsubscribe_response(m) ==
    /\ orders_last' = Keep(orders_last,
           {o \in DOMAIN orders_last :
                \/ orders_last[o].own
                \/ IF m.market \in SwapAsset THEN AssetOf[o] /= m.market
                                             ELSE ~orders_last[o].token_market})
    /\ sync_order_list
    /\ UNCHANGED <<assets, connected>>

process_order_created(m) ==
    /\ \E registry \in BOOLEAN : AddOrders(m.orders, registry)
    /\ sync_order_list
    /\ UNCHANGED connected

process_order_removed(m) ==
    /\ orders_last' = Keep(orders_last, Order \ {m.order})
    /\ sync_order_list
    /\ UNCHANGED <<assets, connected>>

(* The Ping was not answered in time; or the user logs out.                *)
check_ws_connection ==
    /\ connected /\ login = "none"
    /\ losses < MaxLosses /\ losses' = losses + 1
    /\ restart_websocket
    /\ UNCHANGED <<assets, subscribes, orders_last, orders_sent, link, login, loginOrders,
                   fromServer, server, changes, selections>>

(* Messages are not handled while the worker waits for the login.          *)
process_ws_msg ==
    /\ fromServer /= <<>> /\ login = "none" /\ Head(fromServer).type /= "Connected"
    /\ LET m == Head(fromServer)
       IN  \/ m.type = "Disconnected" /\ process_ws_disconnected
           \/ m.type = "Subscribed" /\ process_subscribe_response(m)
           \/ m.type = "Unsubscribed" /\ process_unsubscribe_response(m)
           \/ m.type = "OrderCreated" /\ process_order_created(m)
           \/ m.type = "OrderRemoved" /\ process_order_removed(m)
    /\ fromServer' = Tail(fromServer)
    /\ UNCHANGED <<subscribes, link, login, loginOrders, toServer, server, counters>>
-----------------------------------------------------------------------------
(* The first half of try_process_ws_connected; the worker then waits.      *)
SendLogin ==
    /\ fromServer /= <<>> /\ login = "none" /\ Head(fromServer).type = "Connected"
    /\ fromServer' = Tail(fromServer)
    /\ \/ /\ link = "up"
          /\ login' = "asked"
          /\ toServer' = Append(toServer, [type |-> "Login"])
          /\ UNCHANGED connected
       \/ link /= "up" /\ restart_websocket /\ UNCHANGED login   \* the call fails
    /\ UNCHANGED <<assets, subscribes, orders_last, orders_sent, link, loginOrders, server, counters>>

(* The login is refused, or answered too late: its answer is discarded.    *)
LoginFails ==
    /\ login /= "none"
    /\ losses < MaxLosses /\ losses' = losses + 1
    /\ login' = "none" /\ loginOrders' = NoOrders
    /\ restart_websocket
    /\ UNCHANGED <<assets, subscribes, orders_last, orders_sent, link, fromServer, server,
                   changes, selections>>

(* The web-socket thread drops requests until it is told to connect, and   *)
(* keeps them while it connects.  It is told by process_ws_disconnected,   *)
(* or by a login of the user.                                              *)
send_ws_connect ==
    /\ link = "idle" /\ fromServer = <<>>
    /\ link' = "connecting"
    /\ UNCHANGED <<client, login, loginOrders, toServer, fromServer, server, counters>>

Connect ==
    /\ link = "connecting"
    /\ link' = "up"
    /\ fromServer' = Append(fromServer, [type |-> "Connected"])
    /\ session' = FALSE /\ subscribed' = {}
    /\ UNCHANGED <<client, login, loginOrders, toServer, open, counters>>

CloseAsked == \E i \in 1..Len(toServer) : toServer[i].type = "Disconnect"

(* The connection is lost, or the thread reads a Disconnect.  This also    *)
(* fails the login that the worker waits for.                              *)
Disconnect ==
    /\ link = "up"
    /\ \/ losses < MaxLosses /\ losses' = losses + 1
       \/ CloseAsked /\ UNCHANGED losses
    /\ link' = "idle" /\ login' = "none" /\ loginOrders' = NoOrders
    /\ toServer' = <<>>
    /\ \E k \in 0..Len(fromServer) :
           fromServer' = (IF fromServer /= <<>> /\ fromServer[1].type = "Connected" /\ k = 0
                          THEN SubSeq(fromServer, 1, 1) ELSE SubSeq(fromServer, 1, k))
                         \o <<[type |-> "Disconnected"]>>
    /\ UNCHANGED <<client, server, changes, selections>>

(* Requests that reach the server before the login are refused; those      *)
(* after a Disconnect are dropped with the connection.                     *)
ServerServes ==
    /\ link = "up" /\ toServer /= <<>>
    /\ toServer' = Tail(toServer)
    /\ LET r == Head(toServer)
       IN  \/ /\ r.type = "Subscribe" /\ session
              /\ subscribed' = subscribed \cup {r.market}
              /\ fromServer' = Append(fromServer,
                     [type |-> "Subscribed", orders |-> Keep(open, Visible(r.market))])
              /\ UNCHANGED <<session, login, loginOrders>>
           \/ /\ r.type = "Unsubscribe" /\ session
              /\ subscribed' = subscribed \ {r.market}
              /\ fromServer' = Append(fromServer, [type |-> "Unsubscribed", market |-> r.market])
              /\ UNCHANGED <<session, login, loginOrders>>
           \/ /\ r.type = "Login"
              /\ session' = TRUE
              /\ IF login = "asked"
                 THEN login' = "answered" /\ loginOrders' = Keep(open, Own)
                 ELSE UNCHANGED <<login, loginOrders>>
              /\ UNCHANGED <<subscribed, fromServer>>
           \/ /\ r.type \in {"Subscribe", "Unsubscribe"} /\ ~session
              /\ UNCHANGED <<session, subscribed, fromServer, login, loginOrders>>
    /\ UNCHANGED <<client, link, open, counters>>

Notify(o, m) ==
    IF link = "up" /\ (MarketOf(o) \in subscribed \/ (o \in Own /\ session))
    THEN Append(fromServer, m) ELSE fromServer

ServerOrder(o, price) ==
    /\ changes < MaxChanges
    /\ changes' = changes + 1
    /\ o \in DOMAIN open => open[o] /= price
    /\ open' = Over([x \in {o} |-> price], open)
    /\ fromServer' = Notify(o, [type |-> "OrderCreated", orders |-> [x \in {o} |-> price]])
    /\ UNCHANGED <<client, link, login, loginOrders, toServer, session, subscribed,
                   selections, losses>>

ServerRemoves(o) ==
    /\ changes < MaxChanges /\ o \in DOMAIN open
    /\ changes' = changes + 1
    /\ open' = Keep(open, Order \ {o})
    /\ fromServer' = Notify(o, [type |-> "OrderRemoved", order |-> o])
    /\ UNCHANGED <<client, link, login, loginOrders, toServer, session, subscribed,
                   selections, losses>>
-----------------------------------------------------------------------------
ServerChanges == \E o \in Order : ServerRemoves(o) \/ \E price \in Price : ServerOrder(o, price)
Select == \E S \in SUBSET Market : process_subscribe(S)

Next ==
    \/ Select \/ process_ws_connected \/ process_ws_msg
    \/ check_ws_connection \/ SendLogin \/ LoginFails \/ send_ws_connect \/ Connect \/ Disconnect
    \/ ServerServes \/ ServerChanges

Spec == Init /\ [][Next]_vars

(* What goes on by itself: the loop of the worker, the web-socket thread   *)
(* once the network is there, the server, and a user who logs out logs in  *)
(* again.                                                                  *)
WorkerStep == process_ws_connected \/ process_ws_msg \/ SendLogin
ThreadStep == send_ws_connect \/ Connect \/ (CloseAsked /\ Disconnect)
-----------------------------------------------------------------------------
OrderRecord == [price : Price, own : BOOLEAN, token_market : BOOLEAN]
Map(S) == UNION {[D -> S] : D \in SUBSET Order}
Request == [type : {"Login", "Disconnect"}] \cup [type : {"Subscribe", "Unsubscribe"}, market : Market]
Message ==
    [type : {"Connected", "Disconnected"}]
    \cup [type : {"Subscribed", "OrderCreated"}, orders : Map(Price)]
    \cup [type : {"Unsubscribed"}, market : Market]
    \cup [type : {"OrderRemoved"}, order : Order]

TypeOK ==
    /\ SwapAsset \subseteq assets
    /\ subscribes \in SUBSET Market /\ subscribed \in SUBSET Market
    /\ orders_last \in Map(OrderRecord) /\ open \in Map(Price) /\ loginOrders \in Map(Price)
    /\ connected \in BOOLEAN /\ session \in BOOLEAN
    /\ link \in {"idle", "connecting", "up"} /\ login \in {"none", "asked", "answered"}
    /\ toServer \in Seq(Request) /\ fromServer \in Seq(Message)

(* The user interface shows the worker's list after every handler: each of *)
(* them calls sync_order_list.                                             *)
UiMatches == orders_sent = orders_last

Quiet == link = "up" /\ connected /\ login = "none" /\ toServer = <<>> /\ fromServer = <<>>

(* Once nothing is on its way, the list holds exactly the own orders and   *)
(* the orders of the markets shown, at their current prices: no selection, *)
(* reconnection, edit or removal is lost or overtaken.  (Not so for the    *)
(* tokens, see UnsubscribeEmpties.)                                        *)
Converged ==
    Quiet => \A o \in Order : MarketOf(o) \in SwapAsset =>
        /\ o \in DOMAIN orders_last <=>
               (o \in DOMAIN open /\ (o \in Own \/ MarketOf(o) \in subscribes))
        /\ o \in DOMAIN orders_last => orders_last[o].price = open[o]

(* The list comes back: after the last loss, failed ping or failed login   *)
(* the client is connected for good, and everything is handled.  With      *)
(* Converged, it then shows the right orders.                              *)
ListComesBack == <>[]Quiet

(* worker.rs:2171, of process_unsubscribe_response: "Remove non-own orders *)
(* from the market that was just unsubscribed".                            *)
UnsubscribeEmpties ==
    Quiet => \A o \in DOMAIN orders_last : o \in Own \/ MarketOf(o) \in subscribes

(* An order list outlives the flag `connected', which restart_websocket    *)
(* resets at once; but it never outlives its connection for good.  What is *)
(* shown is of an open connection that the worker uses or has asked to     *)
(* close, or the loss, which empties the list, is still to be handled.     *)
LossComes == \E i \in 1..Len(fromServer) : fromServer[i].type = "Disconnected"
ShownIsLive ==
    orders_last /= NoOrders => (link = "up" /\ (connected \/ CloseAsked)) \/ LossComes

(* The shape of the state; the user interface shows the worker's list, and *)
(* the list is of a connection that is there, or whose end is on its way.  *)
ListIsShown == TypeOK /\ UiMatches /\ ShownIsLive
-----------------------------------------------------------------------------
(* Why the list converges: an inductive invariant.                         *)

(* Where a connection stands.  There is none, and its loss is still to be   *)
(* told to the worker, or has been; it is being opened; it is open, and    *)
(* the login is still to be sent or on its way; or the server has seen the *)
(* login, and the worker takes the answer next, or has it; or the worker   *)
(* has given it up and asked for its end.                                  *)
Offline == ~connected /\ orders_last = NoOrders
OnlyMarkets == \A i \in 1..Len(toServer) : toServer[i].type \in {"Subscribe", "Unsubscribe"}
OnlyReports ==
    \A i \in 1..Len(fromServer) : fromServer[i].type \notin {"Connected", "Disconnected"}

Idle ==
    /\ link = "idle" /\ login = "none" /\ toServer = <<>>
    /\ IF fromServer = <<>> THEN Offline
       ELSE fromServer[Len(fromServer)].type = "Disconnected"
Connecting ==
    link = "connecting" /\ login = "none" /\ OnlyMarkets /\ fromServer = <<>> /\ Offline
Greeting ==
    /\ link = "up" /\ ~session /\ subscribed = {} /\ Offline
    /\ \/ /\ login = "none" /\ OnlyMarkets
          /\ Len(fromServer) = 1 /\ fromServer[1].type = "Connected"
       \/ /\ login = "asked" /\ fromServer = <<>> /\ toServer /= <<>>
          /\ \A i \in 1..Len(toServer) :
                 IF i = Len(toServer) THEN toServer[i].type = "Login"
                 ELSE toServer[i].type \in {"Subscribe", "Unsubscribe"}
Online ==
    /\ link = "up" /\ session /\ OnlyReports /\ OnlyMarkets
    /\ \/ login = "answered" /\ toServer = <<>> /\ subscribed = {} /\ Offline
       \/ login = "none" /\ connected
Closing == link = "up" /\ login = "none" /\ ~connected /\ OnlyReports /\ CloseAsked
PhaseInv == Idle \/ Connecting \/ Greeting \/ Online \/ Closing

(* What a message makes of an order with a market of its own: nothing, or  *)
(* it is in the list afterwards, or it is not.                             *)
Puts(m, o) == m.type \in {"Subscribed", "OrderCreated"} /\ o \in DOMAIN m.orders
Takes(m, o) ==
    \/ m.type = "OrderRemoved" /\ m.order = o
    \/ m.type = "Unsubscribed" /\ m.market = MarketOf(o) /\ o \notin Own

(* The worker has the order if and only if the server reports on it and    *)
(* has it, at the server's price.                                          *)
Reported(o) == o \in Own \/ MarketOf(o) \in subscribed
RightPut(o, price) == Reported(o) /\ o \in DOMAIN open /\ open[o] = price
RightTaken(o) == ~(Reported(o) /\ o \in DOMAIN open)

(* The last message on an order tells what the server has now; if there is *)
(* none, the list, or the answer to the login that becomes the list, does. *)
Touches(m, o) == Puts(m, o) \/ Takes(m, o)
Silent(o, i) == \A j \in 1..Len(fromServer) : j > i => ~Touches(fromServer[j], o)
MessageInv(o, i) ==
    Silent(o, i) =>
        /\ Puts(fromServer[i], o) => RightPut(o, fromServer[i].orders[o])
        /\ Takes(fromServer[i], o) => RightTaken(o)
ListInv(o) ==
    IF login = "answered"
    THEN IF o \in DOMAIN loginOrders THEN RightPut(o, loginOrders[o]) ELSE RightTaken(o)
    ELSE IF o \in DOMAIN orders_last THEN RightPut(o, orders_last[o].price) ELSE RightTaken(o)
OrderInv(o) ==
    /\ \A i \in 1..Len(fromServer) : MessageInv(o, i)
    /\ Silent(o, 0) => ListInv(o)

(* Likewise the last request on a market tells whether it is shown; if     *)
(* there is none, whether the server reports on it does.                   *)
LastDecides(requests, m, has, want) ==
    LET Unasked(i) == \A j \in 1..Len(requests) : j > i => requests[j].market /= m
    IN  /\ \A i \in 1..Len(requests) : requests[i].market = m /\ Unasked(i) =>
               (requests[i].type = "Subscribe" <=> m \in want)
        /\ Unasked(0) => (m \in has <=> m \in want)

FlagsInv ==
    \A o \in DOMAIN orders_last :
        /\ orders_last[o].own <=> o \in Own
        /\ AssetOf[o] \in SwapAsset => ~orders_last[o].token_market

ShapeInv == TypeOK /\ UiMatches /\ PhaseInv /\ FlagsInv
InUse == link = "up" /\ (connected \/ login = "answered")
OrdersInv == InUse => \A o \in Order : MarketOf(o) \in SwapAsset => OrderInv(o)
MarketsInv ==
    link = "up" /\ connected =>
        \A m \in Market : LastDecides(toServer, m, subscribed, subscribes)
ConvergeInv == ShapeInv /\ OrdersInv /\ MarketsInv
=============================================================================
