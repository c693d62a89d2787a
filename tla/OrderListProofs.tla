-------------------------- MODULE OrderListProofs ---------------------------
(***************************************************************************)
(* The order list: for any orders, markets and bounds, the user interface  *)
(* shows the worker's list after every handler, and nothing once the       *)
(* worker knows of a loss.  ShapeInv is inductive: it tells how far the    *)
(* connection is from the link, the login and the two queues.              *)
(*                                                                         *)
(* The order list converges: it is the server's once nothing is on its     *)
(* way.  ConvergeInv is inductive: the last message on an order, or else   *)
(* the list, tells what the server has, and the last request on a market,  *)
(* or else the server, tells what the user selected.                       *)
(***************************************************************************)
EXTENDS OrderList, FiniteSetTheorems, TLAPS

(* Zenon is tried where a leaf cites no prover; SMT is cited where         *)
(* arithmetic, sequences or records are needed.                            *)
USE Zenon

(* Maps from orders: Map, Keep and Over. *)
LEMMA MapIs ==
    ASSUME NEW S, NEW f \in Map(S)
    PROVE  f \in [DOMAIN f -> S] /\ DOMAIN f \subseteq Order
BY DEF Map

LEMMA IsMap ==
    ASSUME NEW S, NEW D \in SUBSET Order, NEW f \in [D -> S]
    PROVE  f \in Map(S)
BY DEF Map

LEMMA EmptyMap ==
    ASSUME NEW S
    PROVE  NoOrders \in Map(S) /\ DOMAIN NoOrders = {}
BY DEF NoOrders, Map

LEMMA KeepMap ==
    ASSUME NEW S, NEW f \in Map(S), NEW D
    PROVE  Keep(f, D) \in Map(S)
<1>1. f \in [DOMAIN f -> S] /\ DOMAIN f \subseteq Order
  BY MapIs
<1>2. DOMAIN f \cap D \in SUBSET Order /\ Keep(f, D) \in [DOMAIN f \cap D -> S]
  BY <1>1 DEF Keep
<1> QED
  BY <1>2, IsMap

LEMMA OverMap ==
    ASSUME NEW S, NEW f \in Map(S), NEW g \in Map(S)
    PROVE  Over(f, g) \in Map(S)
<1>1. f \in [DOMAIN f -> S] /\ DOMAIN f \subseteq Order
  BY MapIs
<1>2. g \in [DOMAIN g -> S] /\ DOMAIN g \subseteq Order
  BY MapIs
<1>3. /\ DOMAIN f \cup DOMAIN g \in SUBSET Order
      /\ Over(f, g) \in [DOMAIN f \cup DOMAIN g -> S]
  BY <1>1, <1>2 DEF Over
<1> QED
  BY <1>3, IsMap

LEMMA KeepIs ==
    ASSUME NEW f, NEW D
    PROVE  /\ DOMAIN Keep(f, D) = DOMAIN f \cap D
           /\ \A x \in DOMAIN f \cap D : Keep(f, D)[x] = f[x]
BY DEF Keep

LEMMA OverIs ==
    ASSUME NEW f, NEW g
    PROVE  /\ DOMAIN Over(f, g) = DOMAIN f \cup DOMAIN g
           /\ \A x \in DOMAIN f : Over(f, g)[x] = f[x]
           /\ \A x \in DOMAIN g : x \notin DOMAIN f => Over(f, g)[x] = g[x]
BY DEF Over

(* sync_order_list leaves the user interface with the worker's list,       *)
(* whatever it showed before.                                              *)
LEMMA SyncShows ==
    ASSUME NEW sent \in Map(OrderRecord), orders_sent = sent,
           NEW last \in Map(OrderRecord), orders_last' = last, sync_order_list
    PROVE  UiMatches'
<1> DEFINE removed == DOMAIN sent \ DOMAIN last
           kept == Keep(sent, Order \ removed)
           updated == {o \in DOMAIN last : o \notin DOMAIN kept \/ kept[o] /= last[o]}
<1>1. orders_sent' = Over(Keep(last, updated), kept)
  BY DEF sync_order_list
<1>2. sent \in [DOMAIN sent -> OrderRecord] /\ DOMAIN sent \subseteq Order
  BY MapIs
<1>3. last \in [DOMAIN last -> OrderRecord] /\ DOMAIN last \subseteq Order
  BY MapIs
<1>4. /\ DOMAIN kept = DOMAIN sent \cap DOMAIN last
      /\ \A x \in DOMAIN kept : kept[x] = sent[x]
  BY <1>2, <1>3 DEF Keep
<1> HIDE DEF kept
<1> DEFINE new == Keep(last, updated)
<1>5. DOMAIN new = updated /\ \A x \in updated : new[x] = last[x]
  BY DEF Keep
<1> HIDE DEF new
<1>6. /\ orders_sent' = Over(new, kept)
      /\ DOMAIN Over(new, kept) = DOMAIN new \cup DOMAIN kept
      /\ \A x \in DOMAIN new : Over(new, kept)[x] = new[x]
      /\ \A x \in DOMAIN kept : x \notin DOMAIN new => Over(new, kept)[x] = kept[x]
  BY <1>1, OverIs DEF new
<1>7. DOMAIN orders_sent' = DOMAIN last
  BY <1>4, <1>5, <1>6
<1>8. \A x \in DOMAIN last : orders_sent'[x] = last[x]
  <2> TAKE x \in DOMAIN last
  <2>1. CASE x \in updated
    BY <2>1, <1>5, <1>6
  <2>2. CASE x \notin updated
    <3>1. x \in DOMAIN kept /\ kept[x] = last[x]
      BY <2>2
    <3> QED
      BY <3>1, <2>2, <1>5, <1>6
  <2> QED
    BY <2>1, <2>2
<1>9. orders_sent' = [x \in DOMAIN orders_sent' |-> orders_sent'[x]]
  BY <1>1 DEF Over
<1>10. last = [x \in DOMAIN last |-> last[x]]
  BY <1>3
<1> QED
  BY <1>7, <1>8, <1>9, <1>10 DEF UiMatches

(* What AddOrders makes of the list: the orders added have their prices    *)
(* and flags, and the others stay as they are.                             *)
LEMMA AddOrdersAdds ==
    ASSUME TypeOK, FlagsInv, NEW list \in Map(Price),
           NEW registry \in BOOLEAN, AddOrders(list, registry)
    PROVE  /\ SwapAsset \subseteq assets'
           /\ orders_last' \in Map(OrderRecord)
           /\ FlagsInv'
           /\ DOMAIN orders_last' = DOMAIN list \cup DOMAIN orders_last
           /\ \A o \in DOMAIN list : orders_last'[o].price = list[o]
           /\ \A o \in DOMAIN orders_last :
                  o \notin DOMAIN list => orders_last'[o] = orders_last[o]
<1> DEFINE known == assets \cup (IF registry THEN {AssetOf[o] : o \in DOMAIN list} ELSE {})
           added == [o \in DOMAIN list |-> [price |-> list[o], own |-> o \in Own,
                                            token_market |-> AssetOf[o] \notin known]]
<1>1. assets' = known /\ orders_last' = Over(added, orders_last)
  BY DEF AddOrders
<1>2. SwapAsset \subseteq known /\ orders_last \in Map(OrderRecord)
  BY DEF TypeOK
<1> HIDE DEF known
<1>3. list \in [DOMAIN list -> Price] /\ DOMAIN list \subseteq Order
  BY MapIs
<1>4. added \in [DOMAIN list -> OrderRecord]
  <2>1. ASSUME NEW o \in DOMAIN list
        PROVE  [price |-> list[o], own |-> o \in Own,
                token_market |-> AssetOf[o] \notin known] \in OrderRecord
    <3>1. list[o] \in Price
      BY <1>3
    <3>2. (o \in Own) \in BOOLEAN /\ (AssetOf[o] \notin known) \in BOOLEAN
      BY SMT
    <3> QED
      BY <3>1, <3>2 DEF OrderRecord
  <2> QED
    BY <2>1
<1>5. /\ DOMAIN added = DOMAIN list
      /\ \A o \in DOMAIN list : /\ added[o].price = list[o]
                                /\ added[o].own <=> o \in Own
                                /\ added[o].token_market <=> AssetOf[o] \notin known
  OBVIOUS
<1> HIDE DEF added
<1>6. added \in Map(OrderRecord)
  BY <1>3, <1>4, IsMap
<1>7. orders_last' \in Map(OrderRecord)
  BY <1>1, <1>2, <1>6, OverMap
<1>8. /\ DOMAIN orders_last' = DOMAIN list \cup DOMAIN orders_last
      /\ \A o \in DOMAIN list : orders_last'[o] = added[o]
      /\ \A o \in DOMAIN orders_last : o \notin DOMAIN list => orders_last'[o] = orders_last[o]
  <2>1. /\ DOMAIN Over(added, orders_last) = DOMAIN added \cup DOMAIN orders_last
        /\ \A o \in DOMAIN added : Over(added, orders_last)[o] = added[o]
        /\ \A o \in DOMAIN orders_last : o \notin DOMAIN added =>
               Over(added, orders_last)[o] = orders_last[o]
    BY OverIs
  <2> QED
    BY <1>1, <1>5, <2>1
<1>9. FlagsInv'
  BY <1>2, <1>5, <1>8 DEF FlagsInv
<1> QED
  BY <1>1, <1>2, <1>5, <1>7, <1>8, <1>9

(* The shape of a message, and of the first one of a queue. *)
LEMMA MessageIs ==
    ASSUME NEW m \in Message
    PROVE  /\ m.type \in {"Connected", "Disconnected", "Subscribed", "OrderCreated",
                          "Unsubscribed", "OrderRemoved"}
           /\ m.type \in {"Subscribed", "OrderCreated"} => m.orders \in Map(Price)
           /\ m.type = "Unsubscribed" => m.market \in Market
           /\ m.type = "OrderRemoved" => m.order \in Order
BY DEF Message

LEMMA FirstOf ==
    ASSUME NEW S, NEW q \in Seq(S), q /= <<>>
    PROVE  /\ Len(q) \in Nat /\ Len(q) > 0
           /\ Head(q) = q[1] /\ q[1] \in S
           /\ Tail(q) \in Seq(S) /\ Len(Tail(q)) = Len(q) - 1
           /\ \A i \in 1..Len(Tail(q)) : Tail(q)[i] = q[i + 1]
BY SMT

(* What a handler leaves behind: a well-formed list that is shown, and of  *)
(* each order with a market of its own what Puts and Takes say.            *)
Told(m, o) ==
    /\ Puts(m, o) => o \in DOMAIN orders_last' /\ orders_last'[o].price = m.orders[o]
    /\ Takes(m, o) => o \notin DOMAIN orders_last'
    /\ ~Touches(m, o) =>
           /\ o \in DOMAIN orders_last' <=> o \in DOMAIN orders_last
           /\ o \in DOMAIN orders_last => orders_last'[o] = orders_last[o]
Handled(m) ==
    /\ SwapAsset \subseteq assets' /\ orders_last' \in Map(OrderRecord)
    /\ UiMatches' /\ FlagsInv' /\ connected' = connected
    /\ \A o \in Order : MarketOf(o) \in SwapAsset => Told(m, o)

LEMMA AddedHandled ==
    ASSUME TypeOK, UiMatches, FlagsInv, NEW m \in Message,
           m.type \in {"Subscribed", "OrderCreated"},
           \E registry \in BOOLEAN : AddOrders(m.orders, registry),
           sync_order_list, UNCHANGED connected
    PROVE  Handled(m)
<1>1. m.orders \in Map(Price)
  BY MessageIs
<1>2. PICK registry \in BOOLEAN : AddOrders(m.orders, registry)
  OBVIOUS
<1>3. /\ SwapAsset \subseteq assets'
      /\ orders_last' \in Map(OrderRecord)
      /\ FlagsInv'
      /\ DOMAIN orders_last' = DOMAIN m.orders \cup DOMAIN orders_last
      /\ \A o \in DOMAIN m.orders : orders_last'[o].price = m.orders[o]
      /\ \A o \in DOMAIN orders_last :
             o \notin DOMAIN m.orders => orders_last'[o] = orders_last[o]
  BY <1>1, <1>2, AddOrdersAdds
<1>4. UiMatches'
  BY <1>3, SyncShows DEF TypeOK, UiMatches
<1>5. ASSUME NEW o \in Order
      PROVE  Told(m, o)
  <2>1. (Puts(m, o) <=> o \in DOMAIN m.orders) /\ ~Takes(m, o)
    BY DEF Puts, Takes
  <2> QED
    BY <1>3, <2>1 DEF Told, Touches
<1> QED
  BY <1>3, <1>4, <1>5 DEF Handled

LEMMA KeptHandled ==
    ASSUME TypeOK, UiMatches, FlagsInv, NEW m \in Message, NEW D,
           orders_last' = Keep(orders_last, D), sync_order_list,
           UNCHANGED <<assets, connected>>,
           \A o \in Order : MarketOf(o) \in SwapAsset =>
               ~Puts(m, o) /\ (Takes(m, o) => o \notin D)
               /\ (o \in DOMAIN orders_last /\ o \notin D => Takes(m, o))
    PROVE  Handled(m)
<1>1. orders_last' \in Map(OrderRecord) /\ SwapAsset \subseteq assets'
  BY KeepMap DEF TypeOK
<1>2. UiMatches'
  BY <1>1, SyncShows DEF TypeOK, UiMatches
<1>3. /\ DOMAIN orders_last' = DOMAIN orders_last \cap D
      /\ \A o \in DOMAIN orders_last \cap D : orders_last'[o] = orders_last[o]
  BY KeepIs
<1>4. FlagsInv'
  BY <1>3 DEF FlagsInv
<1>5. ASSUME NEW o \in Order, MarketOf(o) \in SwapAsset
      PROVE  Told(m, o)
  BY <1>3, <1>5 DEF Told, Touches
<1> QED
  BY <1>1, <1>2, <1>4, <1>5 DEF Handled

LEMMA UnsubscribedHandled ==
    ASSUME TypeOK, UiMatches, FlagsInv, NEW m \in Message,
           m.type = "Unsubscribed", process_unsubscribe_response(m)
    PROVE  Handled(m)
<1> DEFINE D == {o \in DOMAIN orders_last :
                     \/ orders_last[o].own
                     \/ IF m.market \in SwapAsset THEN AssetOf[o] /= m.market
                                                  ELSE ~orders_last[o].token_market}
<1>1. /\ orders_last' = Keep(orders_last, D)
      /\ sync_order_list /\ UNCHANGED <<assets, connected>>
  BY DEF process_unsubscribe_response
<1>2. m.market \in Market
  BY MessageIs
<1>3. ASSUME NEW o \in Order, MarketOf(o) \in SwapAsset
      PROVE  /\ ~Puts(m, o)
             /\ Takes(m, o) => o \notin D
             /\ o \in DOMAIN orders_last /\ o \notin D => Takes(m, o)
  <2>1. MarketOf(o) = AssetOf[o] /\ AssetOf[o] \in SwapAsset
    BY <1>3, OrderListAssumption DEF MarketOf
  <2>2. Takes(m, o) <=> (m.market = AssetOf[o] /\ o \notin Own)
    BY <2>1 DEF Takes
  <2>3. ~Puts(m, o)
    BY DEF Puts
  <2>4. ASSUME o \in DOMAIN orders_last
        PROVE  /\ orders_last[o].own <=> o \in Own
               /\ ~orders_last[o].token_market
    BY <2>1, <2>4 DEF FlagsInv
  <2> QED
    BY <2>1, <2>2, <2>3, <2>4
<1> HIDE DEF D
<1> QED
  BY <1>1, <1>3, KeptHandled

LEMMA RemovedHandled ==
    ASSUME TypeOK, UiMatches, FlagsInv, NEW m \in Message,
           m.type = "OrderRemoved", process_order_removed(m)
    PROVE  Handled(m)
<1>1. /\ orders_last' = Keep(orders_last, Order \ {m.order})
      /\ sync_order_list /\ UNCHANGED <<assets, connected>>
  BY DEF process_order_removed
<1>2. ASSUME NEW o \in Order, MarketOf(o) \in SwapAsset
      PROVE  /\ ~Puts(m, o)
             /\ Takes(m, o) => o \notin Order \ {m.order}
             /\ o \in DOMAIN orders_last /\ o \notin Order \ {m.order} => Takes(m, o)
  BY DEF Puts, Takes
<1> QED
  BY <1>1, <1>2, KeptHandled

(* Each handler of the worker but that of a loss. *)
LEMMA MessageHandled ==
    ASSUME TypeOK, UiMatches, FlagsInv, process_ws_msg,
           Head(fromServer).type /= "Disconnected"
    PROVE  Handled(Head(fromServer))
<1> DEFINE m == Head(fromServer)
<1>1. m \in Message
  BY FirstOf DEF TypeOK, process_ws_msg
<1>2. CASE m.type = "Subscribed" /\ process_subscribe_response(m)
  BY <1>1, <1>2, AddedHandled DEF process_subscribe_response
<1>3. CASE m.type = "OrderCreated" /\ process_order_created(m)
  BY <1>1, <1>3, AddedHandled DEF process_order_created
<1>4. CASE m.type = "Unsubscribed" /\ process_unsubscribe_response(m)
  BY <1>1, <1>4, UnsubscribedHandled
<1>5. CASE m.type = "OrderRemoved" /\ process_order_removed(m)
  BY <1>1, <1>5, RemovedHandled
<1> QED
  BY <1>2, <1>3, <1>4, <1>5 DEF process_ws_msg

(* The handler of a loss empties the list. *)
LEMMA LossHandled ==
    ASSUME TypeOK, UiMatches, process_ws_disconnected
    PROVE  /\ SwapAsset \subseteq assets' /\ orders_last' \in Map(OrderRecord)
           /\ UiMatches' /\ FlagsInv' /\ Offline' /\ connected' \in BOOLEAN
<1>1. /\ orders_last' = NoOrders /\ connected' = FALSE
      /\ sync_order_list /\ assets' = assets
  BY DEF process_ws_disconnected
<1>2. NoOrders \in Map(OrderRecord) /\ DOMAIN NoOrders = {}
  BY EmptyMap
<1>3. UiMatches'
  BY <1>1, <1>2, SyncShows DEF TypeOK, UiMatches
<1>4. FlagsInv'
  BY <1>1, <1>2 DEF FlagsInv
<1> QED
  BY <1>1, <1>2, <1>3, <1>4 DEF TypeOK, Offline

-----------------------------------------------------------------------------
(* The shape of the state, step by step. *)
LEMMA RequestIs ==
    ASSUME NEW r \in Request
    PROVE  r.type \in {"Subscribe", "Unsubscribe"} => r.market \in Market
BY DEF Request

(* The requests for a set of markets: one kind, and each market has one. *)
LEMMA RequestsAre ==
    ASSUME NEW type \in {"Subscribe", "Unsubscribe"}, NEW markets \in SUBSET Market,
           NEW q \in Requests(type, markets)
    PROVE  /\ q \in Seq(Request)
           /\ \A i \in 1..Len(q) : q[i].type = type /\ q[i].market \in markets
           /\ \A m \in markets : \E i \in 1..Len(q) : q[i].market = m
<1>1. IsFiniteSet(markets)
  <2>1. IsFiniteSet({TokenMarket}) /\ IsFiniteSet(SwapAsset)
    BY FS_Singleton, OrderListAssumption
  <2>2. IsFiniteSet(Market)
    BY <2>1, FS_Union DEF Market
  <2> QED
    BY <2>2, FS_Subset
<1>2. Cardinality(markets) \in Nat
  BY <1>1, FS_CardinalityType
<1>3. PICK n \in Nat : n = Cardinality(markets)
  BY <1>2
<1>4. /\ q \in [1..n -> [type : {type}, market : markets]]
      /\ \A m \in markets : \E i \in DOMAIN q : q[i].market = m
  BY <1>3 DEF Requests
<1>5. [type : {type}, market : markets] \subseteq Request
  BY DEF Request
<1>6. q \in [1..n -> Request]
  BY <1>4, <1>5
<1>7. q \in Seq(Request) /\ Len(q) = n
  BY <1>6, SMT
<1>8. DOMAIN q = 1..Len(q)
  BY <1>4, <1>7
<1> QED
  BY <1>4, <1>7, <1>8

LEMMA Joined ==
    ASSUME NEW S, NEW q \in Seq(S), NEW r \in Seq(S)
    PROVE  /\ q \o r \in Seq(S) /\ Len(q \o r) = Len(q) + Len(r)
           /\ Len(q) \in Nat /\ Len(r) \in Nat
           /\ \A i \in 1..Len(q) : (q \o r)[i] = q[i]
           /\ \A j \in 1..Len(r) : (q \o r)[Len(q) + j] = r[j]
BY SMT

(* An element of a joined sequence is one of the first or of the second. *)
LEMMA JoinedFrom ==
    ASSUME NEW S, NEW q \in Seq(S), NEW r \in Seq(S), NEW i \in 1..Len(q \o r)
    PROVE  \/ i \in 1..Len(q) /\ (q \o r)[i] = q[i]
           \/ \E j \in 1..Len(r) : i = Len(q) + j /\ (q \o r)[i] = r[j]
<1>1. CASE i \in 1..Len(q)
  BY <1>1, Joined
<1>2. CASE i \notin 1..Len(q)
  <2>1. PICK n, k : n = Len(q) /\ k = Len(r)
    OBVIOUS
  <2>2. n \in Nat /\ k \in Nat /\ i \in Nat /\ i > n /\ i <= n + k
    BY <1>2, <2>1, Joined, SMT
  <2>3. PICK j \in 1..k : i = n + j
    BY <2>2, SMT
  <2> QED
    BY <2>1, <2>3, Joined, SMT
<1> QED
  BY <1>1, <1>2

LEMMA SelectShape ==
    ASSUME ShapeInv, NEW S \in SUBSET Market, process_subscribe(S)
    PROVE  ShapeInv'
<1>1. PICK unsub \in Requests("Unsubscribe", subscribes \ S),
           sub \in Requests("Subscribe", S \ subscribes) :
          toServer' = IF link = "idle" THEN toServer ELSE toServer \o unsub \o sub
  BY DEF process_subscribe
<1>2. /\ unsub \in Seq(Request)
      /\ \A i \in 1..Len(unsub) : unsub[i].type = "Unsubscribe"
  <2>1. subscribes \ S \in SUBSET Market
    BY DEF ShapeInv, TypeOK
  <2> QED
    BY <2>1, RequestsAre
<1>3. /\ sub \in Seq(Request)
      /\ \A i \in 1..Len(sub) : sub[i].type = "Subscribe"
  BY RequestsAre
<1>4. toServer \in Seq(Request) /\ login = "none"
  BY DEF ShapeInv, TypeOK, process_subscribe
<1>5. toServer' \in Seq(Request)
  BY <1>1, <1>2, <1>3, <1>4, SMT
<1>6. ASSUME OnlyMarkets PROVE OnlyMarkets'
  <2>1. CASE toServer' = toServer
    BY <2>1, <1>6 DEF OnlyMarkets
  <2>2. CASE toServer' = (toServer \o unsub) \o sub
    <3>1. toServer \o unsub \in Seq(Request)
      BY <1>2, <1>4, SMT
    <3>2. \A i \in 1..Len(toServer \o unsub) : (toServer \o unsub)[i].type \in {"Subscribe", "Unsubscribe"}
      <4> TAKE i \in 1..Len(toServer \o unsub)
      <4>1. \/ i \in 1..Len(toServer) /\ (toServer \o unsub)[i] = toServer[i]
            \/ \E j \in 1..Len(unsub) : (toServer \o unsub)[i] = unsub[j]
        BY <1>2, <1>4, JoinedFrom, SMT
      <4> QED
        BY <4>1, <1>2, <1>6 DEF OnlyMarkets
    <3> DEFINE q == toServer \o unsub
    <3> HIDE DEF q
    <3>3. ASSUME NEW i \in 1..Len(q \o sub)
          PROVE  (q \o sub)[i].type \in {"Subscribe", "Unsubscribe"}
      <4>1. \/ i \in 1..Len(q) /\ (q \o sub)[i] = q[i]
            \/ \E j \in 1..Len(sub) : (q \o sub)[i] = sub[j]
        BY <1>3, <3>1, JoinedFrom, SMT DEF q
      <4> QED
        BY <4>1, <1>3, <3>2 DEF q
    <3> QED
      BY <3>3, <2>2 DEF q, OnlyMarkets
  <2> QED
    BY <1>1, <2>1, <2>2
<1>10. ASSUME CloseAsked, link = "up" PROVE CloseAsked'
  <2>1. PICK i \in 1..Len(toServer) : toServer[i].type = "Disconnect"
    BY <1>10 DEF CloseAsked
  <2>2. toServer' = (toServer \o unsub) \o sub
    BY <1>1, <1>10
  <2>3. PICK q : q = toServer \o unsub
    OBVIOUS
  <2>4. q \in Seq(Request) /\ i \in 1..Len(q) /\ q[i] = toServer[i]
    BY <2>3, <1>2, <1>4, Joined, SMT
  <2>5. i \in 1..Len(q \o sub) /\ (q \o sub)[i] = q[i]
    BY <2>4, <1>3, Joined, SMT
  <2> QED
    BY <2>1, <2>2, <2>3, <2>4, <2>5 DEF CloseAsked
<1>7. /\ link = "idle" => toServer' = toServer
      /\ subscribes' = S
      /\ UNCHANGED <<assets, connected, orders_last, orders_sent, link, login, loginOrders,
                     fromServer, open, session, subscribed>>
  BY <1>1 DEF process_subscribe, server
<1>8. TypeOK'
  BY <1>5, <1>7 DEF ShapeInv, TypeOK
<1>9. PhaseInv'
  <2>1. CASE Idle
    BY <2>1, <1>7 DEF Idle, PhaseInv, Offline
  <2>2. CASE Connecting
    BY <2>2, <1>6, <1>7 DEF Connecting, PhaseInv, Offline
  <2>3. CASE Greeting
    BY <2>3, <1>4, <1>6, <1>7 DEF Greeting, PhaseInv, Offline
  <2>4. CASE Online
    BY <2>4, <1>4, <1>6, <1>7 DEF Online, PhaseInv, OnlyReports
  <2>5. CASE Closing
    BY <2>5, <1>10, <1>7 DEF Closing, PhaseInv, OnlyReports
  <2> QED
    BY <2>1, <2>2, <2>3, <2>4, <2>5 DEF ShapeInv, PhaseInv
<1> QED
  BY <1>7, <1>8, <1>9 DEF ShapeInv, UiMatches, FlagsInv

LEMMA ConnectedShape ==
    ASSUME ShapeInv, process_ws_connected
    PROVE  ShapeInv'
<1>1. PICK registry \in BOOLEAN : AddOrders(loginOrders, registry)
  BY DEF process_ws_connected
<1>2. PICK sub \in Requests("Subscribe", subscribes) : toServer' = toServer \o sub
  BY DEF process_ws_connected
<1>3. /\ login = "answered" /\ login' = "none" /\ sync_order_list
      /\ connected' = TRUE /\ loginOrders' = NoOrders
      /\ UNCHANGED <<subscribes, link, fromServer, open, session, subscribed>>
  BY DEF process_ws_connected, server
<1>4. Online /\ toServer = <<>>
  BY <1>3 DEF ShapeInv, PhaseInv, Idle, Connecting, Greeting, Online, Closing
<1>5. sub \in Seq(Request) /\ \A i \in 1..Len(sub) : sub[i].type = "Subscribe"
  BY RequestsAre DEF ShapeInv, TypeOK
<1>6. toServer' = sub
  BY <1>2, <1>4, <1>5, SMT
<1>7. SwapAsset \subseteq assets' /\ orders_last' \in Map(OrderRecord) /\ FlagsInv'
  BY <1>1, AddOrdersAdds DEF ShapeInv, TypeOK
<1>8. UiMatches'
  BY <1>3, <1>7, SyncShows DEF ShapeInv, TypeOK, UiMatches
<1>9. NoOrders \in Map(Price)
  BY EmptyMap
<1>10. TypeOK'
  BY <1>3, <1>5, <1>6, <1>7, <1>9 DEF ShapeInv, TypeOK
<1>11. OnlyMarkets'
  BY <1>5, <1>6 DEF OnlyMarkets
<1>12. PhaseInv'
  BY <1>3, <1>4, <1>11 DEF Online, OnlyReports, PhaseInv
<1> QED
  BY <1>7, <1>8, <1>10, <1>12 DEF ShapeInv

(* While the connection is lost, the loss is the last message; while it is *)
(* open, there is no loss to handle.                                       *)
LEMMA MessageShape ==
    ASSUME ShapeInv, process_ws_msg
    PROVE  ShapeInv'
<1> DEFINE m == Head(fromServer)
<1>1. /\ fromServer \in Seq(Message) /\ fromServer /= <<>> /\ login = "none"
      /\ m.type /= "Connected" /\ fromServer' = Tail(fromServer)
      /\ UNCHANGED <<subscribes, link, login, loginOrders, toServer, open, session, subscribed>>
  BY DEF ShapeInv, TypeOK, process_ws_msg, server
<1>2. /\ Len(fromServer) \in Nat /\ Len(fromServer) > 0 /\ m = fromServer[1]
      /\ fromServer' \in Seq(Message) /\ Len(fromServer') = Len(fromServer) - 1
      /\ \A i \in 1..Len(fromServer') : fromServer'[i] = fromServer[i + 1]
  BY <1>1, FirstOf
<1>3. Idle \/ Online \/ Closing
  BY <1>1, <1>2 DEF ShapeInv, PhaseInv, Connecting, Greeting
<1>4. CASE m.type = "Disconnected"
  <2>1. process_ws_disconnected
    BY <1>4 DEF process_ws_msg
  <2>2. /\ SwapAsset \subseteq assets' /\ orders_last' \in Map(OrderRecord)
        /\ UiMatches' /\ FlagsInv' /\ Offline' /\ connected' \in BOOLEAN
    BY <2>1, LossHandled DEF ShapeInv
  <2>3. TypeOK'
    BY <1>1, <1>2, <2>2 DEF ShapeInv, TypeOK
  <2>4. Idle
    BY <1>2, <1>3, <1>4, SMT DEF Online, Closing, OnlyReports
  <2>5. Idle'
    <3>1. CASE fromServer' = <<>>
      BY <3>1, <1>1, <2>2, <2>4 DEF Idle
    <3>2. CASE fromServer' /= <<>>
      <4>1. Len(fromServer') \in Nat /\ Len(fromServer') > 0
        BY <3>2, <1>2, SMT
      <4>2. fromServer'[Len(fromServer')] = fromServer[Len(fromServer)]
        BY <4>1, <1>2, SMT
      <4> QED
        BY <3>2, <4>2, <1>1, <2>4 DEF Idle
    <3> QED
      BY <3>1, <3>2
  <2> QED
    BY <2>2, <2>3, <2>5 DEF ShapeInv, PhaseInv
<1>5. CASE m.type /= "Disconnected"
  <2>1. Handled(m)
    BY <1>5, MessageHandled DEF ShapeInv
  <2>2. TypeOK' /\ UiMatches' /\ FlagsInv' /\ connected' = connected
    BY <1>1, <1>2, <2>1 DEF ShapeInv, TypeOK, Handled
  <2>3. CASE Idle
    <3>0. fromServer[Len(fromServer)].type = "Disconnected"
      BY <1>1, <2>3 DEF Idle
    <3>1. Len(fromServer) /= 1
      BY <3>0, <1>2, <1>5
    <3>2. fromServer' /= <<>> /\ Len(fromServer') \in Nat /\ Len(fromServer') > 0
      BY <3>1, <1>2, SMT
    <3>3. fromServer'[Len(fromServer')] = fromServer[Len(fromServer)]
      BY <3>2, <1>2, SMT
    <3>4. Idle'
      BY <3>2, <3>3, <1>1, <2>3 DEF Idle
    <3> QED
      BY <3>4, <2>2 DEF ShapeInv, PhaseInv
  <2>4. CASE Online
    <3>1. OnlyReports'
      BY <1>2, <2>4, SMT DEF Online, OnlyReports
    <3>2. Online'
      BY <3>1, <1>1, <2>2, <2>4 DEF Online, OnlyMarkets
    <3> QED
      BY <3>2, <2>2 DEF ShapeInv, PhaseInv
  <2>5. CASE Closing
    <3>1. OnlyReports'
      BY <1>2, <2>5, SMT DEF Closing, OnlyReports
    <3>2. Closing'
      BY <3>1, <1>1, <2>2, <2>5 DEF Closing, CloseAsked
    <3> QED
      BY <3>2, <2>2 DEF ShapeInv, PhaseInv
  <2> QED
    BY <1>3, <2>3, <2>4, <2>5
<1> QED
  BY <1>4, <1>5

LEMMA SendLoginShape ==
    ASSUME ShapeInv, SendLogin
    PROVE  ShapeInv'
<1>1. /\ fromServer \in Seq(Message) /\ toServer \in Seq(Request)
      /\ fromServer /= <<>> /\ login = "none"
      /\ Head(fromServer).type = "Connected" /\ fromServer' = Tail(fromServer)
      /\ UNCHANGED <<assets, subscribes, orders_last, orders_sent, link,
                     loginOrders, open, session, subscribed>>
  BY DEF ShapeInv, TypeOK, SendLogin, server
<1>2. /\ Len(fromServer) \in Nat /\ Len(fromServer) > 0 /\ Head(fromServer) = fromServer[1]
      /\ fromServer' \in Seq(Message) /\ Len(fromServer') = Len(fromServer) - 1
      /\ \A i \in 1..Len(fromServer') : fromServer'[i] = fromServer[i + 1]
  BY <1>1, FirstOf
<1>3. CASE /\ link = "up" /\ login' = "asked" /\ UNCHANGED connected
           /\ toServer' = Append(toServer, [type |-> "Login"])
  <2>1. Greeting
    BY <1>1, <1>2, <1>3, SMT DEF ShapeInv, PhaseInv, Idle, Connecting, Online, Closing, OnlyReports
  <2>2. [type |-> "Login"] \in Request
    BY DEF Request
  <2>3. /\ toServer' \in Seq(Request) /\ Len(toServer) \in Nat
        /\ Len(toServer') = Len(toServer) + 1
        /\ \A i \in 1..Len(toServer) : toServer'[i] = toServer[i]
        /\ toServer'[Len(toServer) + 1] = [type |-> "Login"]
    BY <1>1, <1>3, <2>2, SMT
  <2>4. TypeOK'
    BY <1>1, <1>2, <1>3, <2>3 DEF ShapeInv, TypeOK
  <2>5. fromServer' = <<>>
    <3>1. Len(fromServer') = 0
      BY <1>1, <1>2, <2>1, SMT DEF Greeting
    <3> QED
      BY <3>1, <1>2, SMT
  <2>6. toServer' /= <<>>
    BY <2>3, SMT
  <2>7. \A i \in 1..Len(toServer') :
            IF i = Len(toServer') THEN toServer'[i].type = "Login"
            ELSE toServer'[i].type \in {"Subscribe", "Unsubscribe"}
    <3> TAKE i \in 1..Len(toServer')
    <3>1. CASE i \in 1..Len(toServer)
      BY <3>1, <2>1, <2>3, <1>1, SMT DEF Greeting, OnlyMarkets
    <3>2. CASE i = Len(toServer) + 1
      BY <3>2, <2>3, SMT
    <3> QED
      BY <3>1, <3>2, <2>3, SMT
  <2>8. Greeting'
    BY <1>1, <1>3, <2>1, <2>5, <2>6, <2>7 DEF Greeting, Offline
  <2> QED
    BY <1>1, <2>4, <2>8 DEF ShapeInv, PhaseInv, UiMatches, FlagsInv
<1>4. CASE link /= "up" /\ restart_websocket /\ UNCHANGED login
  <2>1. Idle
    BY <1>1, <1>2, <1>4 DEF ShapeInv, PhaseInv, Connecting, Greeting, Online, Closing
  <2>0. toServer' = toServer /\ connected' = FALSE
    BY <1>4, <2>1 DEF restart_websocket, Idle
  <2>2. fromServer[Len(fromServer)].type = "Disconnected"
    BY <1>1, <2>1 DEF Idle
  <2>3. Len(fromServer) /= 1
    BY <2>2, <1>1, <1>2
  <2>4. fromServer' /= <<>> /\ Len(fromServer') \in Nat /\ Len(fromServer') > 0
    BY <2>3, <1>2, SMT
  <2>5. fromServer'[Len(fromServer')] = fromServer[Len(fromServer)]
    BY <2>4, <1>2, SMT
  <2>6. Idle'
    BY <2>0, <2>1, <2>4, <2>5, <1>1, <1>4 DEF Idle
  <2>7. TypeOK'
    BY <1>1, <1>2, <1>4, <2>0 DEF ShapeInv, TypeOK
  <2> QED
    BY <1>1, <2>6, <2>7 DEF ShapeInv, PhaseInv, UiMatches, FlagsInv
<1> QED
  BY <1>3, <1>4 DEF SendLogin

LEMMA LinkShape ==
    ASSUME ShapeInv, send_ws_connect \/ Connect
    PROVE  ShapeInv'
<1>1. CASE send_ws_connect
  <2>1. /\ link = "idle" /\ fromServer = <<>> /\ link' = "connecting"
        /\ UNCHANGED <<assets, subscribes, connected, orders_last, orders_sent, login,
                       loginOrders, toServer, fromServer, open, session, subscribed>>
    BY <1>1 DEF send_ws_connect, client, server
  <2>2. Idle
    BY <2>1 DEF ShapeInv, PhaseInv, Connecting, Greeting, Online, Closing
  <2>3. OnlyMarkets
    BY <2>2, SMT DEF Idle, OnlyMarkets
  <2>4. Connecting'
    BY <2>1, <2>2, <2>3 DEF Idle, Connecting, Offline, OnlyMarkets
  <2>5. TypeOK'
    BY <2>1 DEF ShapeInv, TypeOK
  <2> QED
    BY <2>1, <2>4, <2>5 DEF ShapeInv, PhaseInv, UiMatches, FlagsInv
<1>2. CASE Connect
  <2>1. /\ link = "connecting" /\ link' = "up"
        /\ fromServer' = Append(fromServer, [type |-> "Connected"])
        /\ session' = FALSE /\ subscribed' = {}
        /\ UNCHANGED <<assets, subscribes, connected, orders_last, orders_sent, login,
                       loginOrders, toServer, open>>
    BY <1>2 DEF Connect, client
  <2>2. Connecting
    BY <2>1 DEF ShapeInv, PhaseInv, Idle, Greeting, Online, Closing
  <2>3. fromServer' = <<[type |-> "Connected"]>>
    BY <2>1, <2>2, SMT DEF Connecting
  <2>4. /\ [type |-> "Connected"] \in Message
        /\ Len(fromServer') = 1 /\ fromServer'[1].type = "Connected"
    BY <2>3 DEF Message
  <2>5. fromServer' \in Seq(Message)
    BY <2>3, <2>4, SMT
  <2>6. TypeOK'
    BY <2>1, <2>5 DEF ShapeInv, TypeOK
  <2>7. Greeting'
    BY <2>1, <2>2, <2>4 DEF Connecting, Greeting, Offline, OnlyMarkets
  <2> QED
    BY <2>1, <2>6, <2>7 DEF ShapeInv, PhaseInv, UiMatches, FlagsInv
<1> QED
  BY <1>1, <1>2

LEMMA DisconnectShape ==
    ASSUME ShapeInv, Disconnect
    PROVE  ShapeInv'
<1> DEFINE loss == [type |-> "Disconnected"]
<1>1. /\ fromServer \in Seq(Message)
      /\ link' = "idle" /\ login' = "none" /\ loginOrders' = NoOrders /\ toServer' = <<>>
      /\ UNCHANGED <<assets, subscribes, connected, orders_last, orders_sent,
                     open, session, subscribed>>
  BY DEF ShapeInv, TypeOK, Disconnect, client, server
<1>2. \E k \in 0..Len(fromServer) : fromServer' = SubSeq(fromServer, 1, k) \o <<loss>>
  <2>1. PICK k \in 0..Len(fromServer) :
            fromServer' = (IF fromServer /= <<>> /\ fromServer[1].type = "Connected" /\ k = 0
                           THEN SubSeq(fromServer, 1, 1) ELSE SubSeq(fromServer, 1, k))
                          \o <<loss>>
    BY DEF Disconnect
  <2>2. CASE fromServer /= <<>> /\ fromServer[1].type = "Connected" /\ k = 0
    <3>1. 1 \in 0..Len(fromServer)
      BY <2>2, <1>1, SMT
    <3>2. fromServer' = SubSeq(fromServer, 1, 1) \o <<loss>>
      BY <2>1, <2>2
    <3> QED
      BY <3>1, <3>2
  <2>3. CASE ~(fromServer /= <<>> /\ fromServer[1].type = "Connected" /\ k = 0)
    BY <2>1, <2>3
  <2> QED
    BY <2>2, <2>3
<1>3. PICK k \in 0..Len(fromServer) : fromServer' = SubSeq(fromServer, 1, k) \o <<loss>>
  BY <1>2
<1>4. loss \in Message
  BY DEF Message
<1>5. SubSeq(fromServer, 1, k) \in Seq(Message) /\ Len(SubSeq(fromServer, 1, k)) = k
  BY <1>1, SMT
<1>6. /\ fromServer' \in Seq(Message) /\ Len(fromServer') = k + 1
      /\ fromServer'[k + 1] = loss
  <2> DEFINE q == SubSeq(fromServer, 1, k)
             d == loss
  <2>1. q \in Seq(Message) /\ Len(q) = k /\ d \in Message /\ fromServer' = q \o <<d>>
    BY <1>3, <1>4, <1>5
  <2> HIDE DEF q, d
  <2>2. <<d>> \in Seq(Message) /\ Len(<<d>>) = 1 /\ <<d>>[1] = d
    BY <2>1, SMT
  <2>3. fromServer' \in Seq(Message) /\ Len(fromServer') = k + 1 /\ fromServer'[k + 1] = d
    BY <2>1, <2>2, SMT
  <2> QED
    BY <2>3 DEF d
<1>7. fromServer' /= <<>> /\ fromServer'[Len(fromServer')].type = "Disconnected"
  BY <1>6, SMT
<1>8. Idle'
  BY <1>1, <1>7 DEF Idle
<1>9. toServer' \in Seq(Request) /\ NoOrders \in Map(Price)
  BY <1>1, EmptyMap, SMT
<1>10. TypeOK'
  BY <1>1, <1>6, <1>9 DEF ShapeInv, TypeOK
<1> QED
  BY <1>1, <1>8, <1>10 DEF ShapeInv, PhaseInv, UiMatches, FlagsInv

LEMMA Appended ==
    ASSUME NEW S, NEW q \in Seq(S), NEW x \in S
    PROVE  /\ Append(q, x) \in Seq(S) /\ Len(q) \in Nat /\ Len(Append(q, x)) = Len(q) + 1
           /\ \A i \in 1..Len(q) : Append(q, x)[i] = q[i]
           /\ Append(q, x)[Len(q) + 1] = x
BY SMT

(* A connection that the worker gives up is closing.                       *)
LEMMA RestartShape ==
    ASSUME ShapeInv, check_ws_connection \/ LoginFails
    PROVE  ShapeInv'
<1>1. /\ toServer \in Seq(Request) /\ (connected \/ login /= "none")
      /\ restart_websocket /\ connected' = FALSE /\ login' = "none"
      /\ UNCHANGED <<assets, subscribes, orders_last, orders_sent, link, fromServer,
                     open, session, subscribed>>
  BY DEF check_ws_connection, LoginFails, restart_websocket, server, ShapeInv, TypeOK
<1>2. loginOrders' \in Map(Price)
  BY EmptyMap DEF check_ws_connection, LoginFails, ShapeInv, TypeOK
<1>3. CASE link = "idle"
  <2>1. Idle /\ toServer' = toServer
    BY <1>1, <1>3 DEF ShapeInv, PhaseInv, Connecting, Greeting, Online, Closing, restart_websocket
  <2>2. Idle'
    BY <1>1, <2>1 DEF Idle, Offline
  <2>3. TypeOK'
    BY <1>1, <1>2, <2>1 DEF ShapeInv, TypeOK
  <2> QED
    BY <1>1, <2>2, <2>3 DEF ShapeInv, PhaseInv, UiMatches, FlagsInv
<1>4. CASE link /= "idle"
  <2>1. link = "up" /\ (OnlyReports \/ fromServer = <<>>)
    BY <1>1, <1>4 DEF ShapeInv, PhaseInv, Idle, Connecting, Greeting, Online, Closing, Offline
  <2>2. OnlyReports'
    BY <1>1, <2>1, SMT DEF OnlyReports
  <2>3. PICK d : d = [type |-> "Disconnect"]
    OBVIOUS
  <2>4. d \in Request /\ d.type = "Disconnect" /\ toServer' = Append(toServer, d)
    BY <1>1, <1>4, <2>3 DEF Request, restart_websocket
  <2>5. /\ toServer' \in Seq(Request) /\ toServer'[Len(toServer) + 1] = d
        /\ Len(toServer) + 1 \in 1..Len(toServer')
    BY <1>1, <2>4, Appended, SMT
  <2>6. Closing'
    BY <1>1, <2>1, <2>2, <2>4, <2>5 DEF Closing, CloseAsked
  <2>7. TypeOK'
    BY <1>1, <1>2, <2>5 DEF ShapeInv, TypeOK
  <2> QED
    BY <1>1, <2>6, <2>7 DEF ShapeInv, PhaseInv, UiMatches, FlagsInv
<1> QED
  BY <1>3, <1>4

LEMMA ReportAppended ==
    ASSUME fromServer \in Seq(Message), OnlyReports, NEW m \in Message,
           m.type \notin {"Connected", "Disconnected"}, fromServer' = Append(fromServer, m)
    PROVE  OnlyReports'
<1>1. /\ Len(fromServer) \in Nat /\ Len(fromServer') = Len(fromServer) + 1
      /\ \A i \in 1..Len(fromServer) : fromServer'[i] = fromServer[i]
      /\ fromServer'[Len(fromServer) + 1] = m
  BY Appended, SMT
<1>2. ASSUME NEW i \in 1..Len(fromServer')
      PROVE  fromServer'[i].type \notin {"Connected", "Disconnected"}
  <2>1. CASE i \in 1..Len(fromServer)
    BY <2>1, <1>1 DEF OnlyReports
  <2>2. CASE i = Len(fromServer) + 1
    BY <2>2, <1>1
  <2> QED
    BY <2>1, <2>2, <1>1, SMT
<1> QED
  BY <1>2 DEF OnlyReports

(* The messages of the server are messages. *)
LEMMA ServerMessages ==
    ASSUME TypeOK
    PROVE  /\ \A D : [type |-> "Subscribed", orders |-> Keep(open, D)] \in Message
           /\ \A market \in Market : [type |-> "Unsubscribed", market |-> market] \in Message
           /\ \A o \in Order, price \in Price :
                  /\ [x \in {o} |-> price] \in Map(Price)
                  /\ [type |-> "OrderCreated", orders |-> [x \in {o} |-> price]] \in Message
           /\ \A o \in Order : [type |-> "OrderRemoved", order |-> o] \in Message
<1>1. \A D : Keep(open, D) \in Map(Price)
  BY KeepMap DEF TypeOK
<1>2. \A o \in Order, price \in Price : [x \in {o} |-> price] \in Map(Price)
  <2> TAKE o \in Order, price \in Price
  <2>1. {o} \in SUBSET Order /\ [x \in {o} |-> price] \in [{o} -> Price]
    OBVIOUS
  <2> QED
    BY <2>1, IsMap
<1>3. \A f \in Map(Price) : \A t \in {"Subscribed", "OrderCreated"} :
          [type |-> t, orders |-> f] \in Message
  BY DEF Message
<1>4. \A o \in Order : [type |-> "OrderRemoved", order |-> o] \in Message
  BY DEF Message
<1>5. \A market \in Market : [type |-> "Unsubscribed", market |-> market] \in Message
  BY DEF Message
<1> QED
  BY <1>1, <1>2, <1>3, <1>4, <1>5

LEMMA ServesShape ==
    ASSUME ShapeInv, ServerServes
    PROVE  ShapeInv'
<1> DEFINE r == Head(toServer)
<1>1. /\ fromServer \in Seq(Message) /\ toServer \in Seq(Request)
      /\ link = "up" /\ toServer /= <<>> /\ toServer' = Tail(toServer)
      /\ UNCHANGED <<assets, subscribes, connected, orders_last, orders_sent, link, open>>
  BY DEF ShapeInv, TypeOK, ServerServes, client
<1>2. /\ Len(toServer) \in Nat /\ Len(toServer) > 0 /\ r = toServer[1] /\ r \in Request
      /\ toServer' \in Seq(Request) /\ Len(toServer') = Len(toServer) - 1
      /\ \A i \in 1..Len(toServer') : toServer'[i] = toServer[i + 1]
  BY <1>1, FirstOf
<1>3. Greeting \/ Online \/ Closing
  BY <1>1 DEF ShapeInv, PhaseInv, Idle, Connecting
<1>4. OnlyMarkets => OnlyMarkets' /\ r.type /= "Login"
  BY <1>2, SMT DEF OnlyMarkets
<1>10. CloseAsked => CloseAsked' \/ r.type = "Disconnect"
  <2> SUFFICES ASSUME CloseAsked, r.type /= "Disconnect" PROVE CloseAsked'
    OBVIOUS
  <2>1. PICK i \in 1..Len(toServer) : toServer[i].type = "Disconnect"
    BY DEF CloseAsked
  <2>2. i /= 1
    BY <1>2, <2>1
  <2>3. PICK k \in Nat : i = k + 1
    BY <1>2, SMT
  <2>4. k \in 1..Len(toServer')
    BY <1>2, <2>2, <2>3, SMT
  <2>5. toServer'[k].type = "Disconnect"
    BY <1>2, <2>1, <2>3, <2>4
  <2> QED
    BY <2>4, <2>5 DEF CloseAsked
<1>11. ASSUME Closing, CloseAsked', OnlyReports', login' = login, TypeOK' PROVE ShapeInv'
  <2>1. Closing'
    BY <1>1, <1>11 DEF Closing
  <2> QED
    BY <1>1, <1>11, <2>1 DEF ShapeInv, PhaseInv, UiMatches, FlagsInv
<1>5. ASSUME NEW m \in Message, m.type \notin {"Connected", "Disconnected"},
             fromServer' = Append(fromServer, m), session, subscribed' \in SUBSET Market,
             r.type \in {"Subscribe", "Unsubscribe"},
             UNCHANGED <<session, login, loginOrders>>
      PROVE  ShapeInv'
  <2>1. Online \/ Closing
    BY <1>3, <1>5 DEF Greeting
  <2>2. fromServer' \in Seq(Message)
    BY <1>1, <1>5, Appended
  <2>3. OnlyReports'
    BY <1>1, <1>5, <2>1, ReportAppended DEF Online, Closing
  <2>4. TypeOK'
    BY <1>1, <1>2, <1>5, <2>2 DEF ShapeInv, TypeOK
  <2>5. CASE Online
    <3>1. Online'
      BY <1>1, <1>4, <1>5, <2>5, <2>3 DEF Online
    <3> QED
      BY <1>1, <2>4, <3>1 DEF ShapeInv, PhaseInv, UiMatches, FlagsInv
  <2>6. CASE Closing
    BY <1>5, <1>10, <1>11, <2>3, <2>4, <2>6 DEF Closing
  <2> QED
    BY <2>1, <2>5, <2>6
<1>6. CASE /\ r.type = "Subscribe" /\ session
           /\ subscribed' = subscribed \cup {r.market}
           /\ fromServer' = Append(fromServer,
                  [type |-> "Subscribed", orders |-> Keep(open, Visible(r.market))])
           /\ UNCHANGED <<session, login, loginOrders>>
  <2>1. [type |-> "Subscribed", orders |-> Keep(open, Visible(r.market))] \in Message
    BY ServerMessages DEF ShapeInv
  <2>2. subscribed' \in SUBSET Market
    BY <1>2, <1>6, RequestIs DEF ShapeInv, TypeOK
  <2> QED
    BY <1>5, <1>6, <2>1, <2>2
<1>7. CASE /\ r.type = "Unsubscribe" /\ session
           /\ subscribed' = subscribed \ {r.market}
           /\ fromServer' = Append(fromServer, [type |-> "Unsubscribed", market |-> r.market])
           /\ UNCHANGED <<session, login, loginOrders>>
  <2>1. [type |-> "Unsubscribed", market |-> r.market] \in Message
    BY <1>2, <1>7, RequestIs, ServerMessages DEF ShapeInv
  <2>2. subscribed' \in SUBSET Market
    BY <1>7 DEF ShapeInv, TypeOK
  <2> QED
    BY <1>5, <1>7, <2>1, <2>2
<1>8. CASE /\ r.type = "Login"
           /\ session' = TRUE
           /\ IF login = "asked"
              THEN login' = "answered" /\ loginOrders' = Keep(open, Own)
              ELSE UNCHANGED <<login, loginOrders>>
           /\ UNCHANGED <<subscribed, fromServer>>
  <2>0. /\ loginOrders' \in Map(Price) /\ login' \in {"none", "asked", "answered"}
    BY <1>8, KeepMap DEF ShapeInv, TypeOK
  <2>1. TypeOK'
    BY <1>1, <1>2, <1>8, <2>0 DEF ShapeInv, TypeOK
  <2>2. CASE Closing
    <3>1. CloseAsked' /\ login' = login /\ OnlyReports'
      BY <1>8, <1>10, <2>2 DEF Closing, OnlyReports
    <3> QED
      BY <3>1, <1>11, <2>1, <2>2
  <2>3. CASE ~Closing
    <3>1. ~OnlyMarkets
      BY <1>4, <1>8
    <3>2. Greeting /\ login = "asked" /\ fromServer = <<>>
      BY <1>3, <2>3, <3>1 DEF Greeting, Online
    <3>3. Len(toServer) = 1
      BY <1>2, <1>8, <3>2, SMT DEF Greeting
    <3>4. toServer' = <<>> /\ login' = "answered"
      BY <1>2, <1>8, <3>2, <3>3, SMT
    <3>5. OnlyReports' /\ OnlyMarkets'
      BY <1>8, <3>2, <3>4, SMT DEF OnlyReports, OnlyMarkets
    <3>6. Online'
      BY <1>1, <1>8, <3>2, <3>4, <3>5 DEF Greeting, Online, Offline
    <3> QED
      BY <1>1, <2>1, <3>6 DEF ShapeInv, PhaseInv, UiMatches, FlagsInv
  <2> QED
    BY <2>2, <2>3
<1>9. CASE /\ r.type \in {"Subscribe", "Unsubscribe"} /\ ~session
           /\ UNCHANGED <<session, subscribed, fromServer, login, loginOrders>>
  <2>2. TypeOK'
    BY <1>1, <1>2, <1>9 DEF ShapeInv, TypeOK
  <2>4. CASE Closing
    <3>1. CloseAsked' /\ OnlyReports'
      BY <1>9, <1>10, <2>4 DEF Closing, OnlyReports
    <3> QED
      BY <3>1, <1>9, <1>11, <2>2, <2>4
  <2> SUFFICES ASSUME ~Closing PROVE ShapeInv'
    BY <2>4
  <2>1. Greeting
    BY <1>3, <1>9 DEF Online
  <2>3. Greeting'
    <3>1. CASE login = "none"
      BY <3>1, <1>1, <1>4, <1>9, <2>1 DEF Greeting, Offline
    <3>2. CASE login = "asked"
      <4>1. /\ fromServer = <<>>
            /\ \A i \in 1..Len(toServer) :
                   IF i = Len(toServer) THEN toServer[i].type = "Login"
                   ELSE toServer[i].type \in {"Subscribe", "Unsubscribe"}
        BY <3>2, <2>1 DEF Greeting
      <4>2. Len(toServer) /= 1
        BY <4>1, <1>2, <1>9, SMT
      <4>3. toServer' /= <<>>
        BY <4>2, <1>2, SMT
      <4>4. \A i \in 1..Len(toServer') :
                IF i = Len(toServer') THEN toServer'[i].type = "Login"
                ELSE toServer'[i].type \in {"Subscribe", "Unsubscribe"}
        BY <4>1, <1>2, SMT
      <4> QED
        BY <3>2, <4>1, <4>3, <4>4, <1>1, <1>9, <2>1 DEF Greeting, Offline
    <3> QED
      BY <3>1, <3>2, <2>1 DEF Greeting
  <2> QED
    BY <1>1, <2>2, <2>3 DEF ShapeInv, PhaseInv, UiMatches, FlagsInv
<1> QED
  BY <1>6, <1>7, <1>8, <1>9 DEF ServerServes

(* Changes at the server are reported only once it has seen the login. *)
LEMMA NotifyShape ==
    ASSUME ShapeInv, NEW o \in Order, NEW m \in Message, fromServer' = Notify(o, m),
           m.type \notin {"Connected", "Disconnected"}, open' \in Map(Price),
           UNCHANGED <<assets, subscribes, connected, orders_last, orders_sent, link, login,
                       loginOrders, toServer, session, subscribed>>
    PROVE  ShapeInv'
<1>1. fromServer \in Seq(Message)
  BY DEF ShapeInv, TypeOK
<1>2. CASE fromServer' = fromServer
  <2>1. TypeOK'
    BY <1>2 DEF ShapeInv, TypeOK
  <2>2. PhaseInv'
    <3>1. CASE Idle
      BY <1>2, <3>1 DEF Idle, Offline, PhaseInv
    <3>2. CASE Connecting
      BY <1>2, <3>2 DEF Connecting, Offline, OnlyMarkets, PhaseInv
    <3>3. CASE Greeting
      BY <1>2, <3>3 DEF Greeting, Offline, OnlyMarkets, PhaseInv
    <3>4. CASE Online
      BY <1>2, <3>4 DEF Online, OnlyReports, Offline, OnlyMarkets, PhaseInv
    <3>5. CASE Closing
      BY <1>2, <3>5 DEF Closing, OnlyReports, CloseAsked, PhaseInv
    <3> QED
      BY <3>1, <3>2, <3>3, <3>4, <3>5 DEF ShapeInv, PhaseInv
  <2> QED
    BY <2>1, <2>2 DEF ShapeInv, UiMatches, FlagsInv
<1>3. CASE fromServer' /= fromServer
  <2>1. /\ link = "up" /\ (MarketOf(o) \in subscribed \/ session)
        /\ fromServer' = Append(fromServer, m)
    BY <1>3 DEF Notify
  <2>2. Online \/ Closing
    BY <2>1 DEF ShapeInv, PhaseInv, Idle, Connecting, Greeting
  <2>3. OnlyReports'
    BY <1>1, <2>1, <2>2, ReportAppended DEF Online, Closing
  <2>4. fromServer' \in Seq(Message)
    <3>1. Append(fromServer, m) \in Seq(Message)
      BY <1>1, SMT
    <3> QED
      BY <2>1, <3>1
  <2>5. TypeOK'
    BY <2>4 DEF ShapeInv, TypeOK
  <2>6. Online' \/ Closing'
    BY <2>2, <2>3 DEF Online, Closing, Offline, OnlyMarkets, CloseAsked
  <2> QED
    BY <2>5, <2>6 DEF ShapeInv, PhaseInv, UiMatches, FlagsInv
<1> QED
  BY <1>2, <1>3

LEMMA OrderShape ==
    ASSUME ShapeInv, NEW o \in Order, NEW price \in Price, ServerOrder(o, price)
    PROVE  ShapeInv'
<1> DEFINE m == [type |-> "OrderCreated", orders |-> [x \in {o} |-> price]]
<1>1. m \in Message /\ [x \in {o} |-> price] \in Map(Price)
  BY ServerMessages DEF ShapeInv
<1>2. open' \in Map(Price)
  BY <1>1, OverMap DEF ServerOrder, ShapeInv, TypeOK
<1>3. /\ fromServer' = Notify(o, m)
      /\ UNCHANGED <<assets, subscribes, connected, orders_last, orders_sent, link, login,
                     loginOrders, toServer, session, subscribed>>
  BY DEF ServerOrder, client
<1>4. m.type \notin {"Connected", "Disconnected"}
  OBVIOUS
<1> HIDE DEF m
<1> QED
  BY <1>1, <1>2, <1>3, <1>4, NotifyShape

LEMMA RemovesShape ==
    ASSUME ShapeInv, NEW o \in Order, ServerRemoves(o)
    PROVE  ShapeInv'
<1> DEFINE m == [type |-> "OrderRemoved", order |-> o]
<1>1. m \in Message
  BY ServerMessages DEF ShapeInv
<1>2. open' \in Map(Price)
  BY KeepMap DEF ServerRemoves, ShapeInv, TypeOK
<1>3. /\ fromServer' = Notify(o, m)
      /\ UNCHANGED <<assets, subscribes, connected, orders_last, orders_sent, link, login,
                     loginOrders, toServer, session, subscribed>>
  BY DEF ServerRemoves, client
<1>4. m.type \notin {"Connected", "Disconnected"}
  OBVIOUS
<1> HIDE DEF m
<1> QED
  BY <1>1, <1>2, <1>3, <1>4, NotifyShape

-----------------------------------------------------------------------------
(* Every step keeps the shape of the state. *)
LEMMA StepShape ==
    ASSUME ShapeInv, [Next]_vars
    PROVE  ShapeInv'
<1>1. CASE Select
  BY <1>1, SelectShape DEF Select
<1>2. CASE process_ws_connected
  BY <1>2, ConnectedShape
<1>3. CASE process_ws_msg
  BY <1>3, MessageShape
<1>4. CASE SendLogin
  BY <1>4, SendLoginShape
<1>5. CASE send_ws_connect \/ Connect
  BY <1>5, LinkShape
<1>6. CASE Disconnect
  BY <1>6, DisconnectShape
<1>7. CASE ServerServes
  BY <1>7, ServesShape
<1>8. CASE ServerChanges
  BY <1>8, OrderShape, RemovesShape DEF ServerChanges
<1>9. CASE UNCHANGED vars
  BY <1>9 DEF vars, client, server, ShapeInv, TypeOK, UiMatches, FlagsInv, PhaseInv,
              Idle, Connecting, Greeting, Online, Closing, Offline, OnlyMarkets, OnlyReports,
              CloseAsked
<1>10. CASE check_ws_connection \/ LoginFails
  BY <1>10, RestartShape
<1> QED
  BY <1>1, <1>2, <1>3, <1>4, <1>5, <1>6, <1>7, <1>8, <1>9, <1>10 DEF Next

LEMMA StartShape == Init => ShapeInv
<1> SUFFICES ASSUME Init PROVE ShapeInv
  OBVIOUS
<1>1. /\ NoOrders \in Map(OrderRecord) /\ NoOrders \in Map(Price)
      /\ DOMAIN NoOrders = {}
  BY EmptyMap
<1>2. TypeOK
  <2>1. <<>> \in Seq(Request) /\ <<>> \in Seq(Message)
    BY SMT
  <2>2. {} \in SUBSET Market
    OBVIOUS
  <2> QED
    BY <1>1, <2>1, <2>2 DEF Init, TypeOK
<1>3. Idle
  BY DEF Init, Idle, Offline
<1> QED
  BY <1>1, <1>2, <1>3 DEF Init, ShapeInv, PhaseInv, UiMatches, FlagsInv

(* The shape tells whose list is shown: in a phase without a connection in *)
(* use the list is empty, or the loss is the last message.                 *)
LEMMA ShapeShown == ShapeInv => ListIsShown
<1> SUFFICES ASSUME ShapeInv PROVE ShownIsLive
  BY DEF ListIsShown, ShapeInv
<1>1. CASE Idle
  <2>1. CASE fromServer = <<>>
    BY <1>1, <2>1 DEF Idle, Offline, ShownIsLive
  <2>2. CASE fromServer /= <<>>
    <3>1. Len(fromServer) \in 1..Len(fromServer)
      BY <2>2, FirstOf, SMT DEF ShapeInv, TypeOK
    <3> QED
      BY <1>1, <2>2, <3>1 DEF Idle, LossComes, ShownIsLive
  <2> QED
    BY <2>1, <2>2
<1>2. CASE Connecting
  BY <1>2 DEF Connecting, Offline, ShownIsLive
<1>3. CASE Greeting
  BY <1>3 DEF Greeting, Offline, ShownIsLive
<1>4. CASE Online
  BY <1>4 DEF Online, Offline, ShownIsLive
<1>5. CASE Closing
  BY <1>5 DEF Closing, ShownIsLive
<1> QED
  BY <1>1, <1>2, <1>3, <1>4, <1>5 DEF ShapeInv, PhaseInv

(* sync_order_list is called by every handler that changes the list: after *)
(* any step the user interface shows the worker's list.  And although      *)
(* restart_websocket leaves the list to the loss that it causes, no list   *)
(* is shown whose connection is gone and whose loss was handled.           *)
THEOREM AlwaysShown == Spec => []ListIsShown
<1>1. Init => ShapeInv
  BY StartShape
<1>2. ShapeInv /\ [Next]_vars => ShapeInv'
  BY StepShape
<1>3. ShapeInv => ListIsShown
  BY ShapeShown
<1> QED
  BY <1>1, <1>2, <1>3, PTL DEF Spec

LEMMA UsedOnline ==
    ASSUME ShapeInv, InUse
    PROVE  Online
BY DEF InUse, ShapeInv, PhaseInv, Idle, Connecting, Greeting, Closing, Offline

(* A Connected, or a Login, is only on its way before the connection is    *)
(* in use.                                                                 *)
LEMMA UsedHeads ==
    ASSUME ShapeInv, InUse
    PROVE  /\ fromServer /= <<>> => Head(fromServer).type \notin {"Connected", "Disconnected"}
           /\ toServer /= <<>> => Head(toServer).type /= "Login"
<1>1. /\ fromServer /= <<>> => Head(fromServer) = fromServer[1] /\ 1 \in 1..Len(fromServer)
      /\ toServer /= <<>> => Head(toServer) = toServer[1] /\ 1 \in 1..Len(toServer)
  BY SMT DEF ShapeInv, TypeOK
<1> QED
  BY <1>1, UsedOnline DEF Online, OnlyReports, OnlyMarkets
-----------------------------------------------------------------------------
(* The orders: a message appended, nothing appended, a message handled. *)
RightsKept(o) ==
    /\ \A price : RightPut(o, price) => RightPut(o, price)'
    /\ RightTaken(o) => RightTaken(o)'

LEMMA ListKept ==
    ASSUME NEW o, RightsKept(o), UNCHANGED <<login, loginOrders, orders_last>>, ListInv(o)
    PROVE  ListInv(o)'
BY DEF RightsKept, ListInv

LEMMA OrderKept ==
    ASSUME NEW o, OrderInv(o), RightsKept(o),
           UNCHANGED <<fromServer, login, loginOrders, orders_last>>
    PROVE  OrderInv(o)'
<1>1. ASSUME NEW i \in 1..Len(fromServer') PROVE MessageInv(o, i)'
  BY <1>1 DEF OrderInv, MessageInv, Silent, RightsKept
<1>2. Silent(o, 0)' => ListInv(o)'
  BY ListKept DEF OrderInv, Silent
<1> QED
  BY <1>1, <1>2 DEF OrderInv

LEMMA OrderAppended ==
    ASSUME NEW o, OrderInv(o), fromServer \in Seq(Message), NEW m \in Message,
           fromServer' = Append(fromServer, m), UNCHANGED <<login, loginOrders, orders_last>>,
           Puts(m, o) => RightPut(o, m.orders[o])',
           Takes(m, o) => RightTaken(o)',
           ~Touches(m, o) => RightsKept(o)
    PROVE  OrderInv(o)'
<1> DEFINE n == Len(fromServer)
<1>1. /\ n \in Nat /\ Len(fromServer') = n + 1
      /\ \A i \in 1..n : fromServer'[i] = fromServer[i]
      /\ fromServer'[n + 1] = m
  BY Appended, SMT
<1>2. ASSUME NEW i \in 0..n, Silent(o, i)'
      PROVE  Silent(o, i) /\ RightsKept(o)
  <2>1. n + 1 \in 1..Len(fromServer') /\ n + 1 > i
    BY <1>1, SMT
  <2>2. ~Touches(fromServer'[n + 1], o)
    BY <2>1, <1>2 DEF Silent
  <2>3. Silent(o, i)
    BY <1>1, <1>2, SMT DEF Silent
  <2> QED
    BY <1>1, <2>2, <2>3
<1>3. ASSUME NEW i \in 1..Len(fromServer'), Silent(o, i)'
      PROVE  /\ Puts(fromServer'[i], o) => RightPut(o, fromServer[i].orders[o])'
             /\ Takes(fromServer'[i], o) => RightTaken(o)'
  <2>1. CASE i \in 1..n
    <3>1. Silent(o, i) /\ RightsKept(o)
      BY <1>1, <1>2, <1>3, <2>1, SMT
    <3>2. MessageInv(o, i) /\ fromServer'[i] = fromServer[i]
      BY <2>1, <1>1 DEF OrderInv
    <3> QED
      BY <3>1, <3>2 DEF MessageInv, RightsKept
  <2>2. CASE i = n + 1
    BY <2>2, <1>1
  <2> QED
    BY <2>1, <2>2, <1>1, SMT
<1>4. ASSUME NEW i \in 1..Len(fromServer') PROVE MessageInv(o, i)'
  BY <1>3 DEF MessageInv
<1>5. ASSUME Silent(o, 0)' PROVE ListInv(o)'
  <2>1. Silent(o, 0) /\ RightsKept(o)
    BY <1>1, <1>2, <1>5, SMT
  <2> QED
    BY <2>1, ListKept DEF OrderInv
<1> QED
  BY <1>4, <1>5 DEF OrderInv

LEMMA OrderHandled ==
    ASSUME NEW o, OrderInv(o), fromServer \in Seq(Message), fromServer /= <<>>,
           login /= "answered", Told(Head(fromServer), o), fromServer' = Tail(fromServer),
           UNCHANGED <<login, open, subscribed>>
    PROVE  OrderInv(o)'
<1> DEFINE n == Len(fromServer)
           m == Head(fromServer)
<1>1. /\ n \in Nat /\ n > 0 /\ m = fromServer[1] /\ Len(fromServer') = n - 1
      /\ \A i \in 1..Len(fromServer') : fromServer'[i] = fromServer[i + 1]
  BY FirstOf
<1>2. /\ \A price : RightPut(o, price)' <=> RightPut(o, price)
      /\ RightTaken(o)' <=> RightTaken(o)
  BY DEF RightPut, RightTaken, Reported
<1>3. ASSUME NEW i \in 0..(n - 1), Silent(o, i)'
      PROVE  Silent(o, i + 1)
  <2>1. ASSUME NEW j \in 1..n, j > i + 1 PROVE ~Touches(fromServer[j], o)
    <3>1. PICK k \in Nat : j = k + 1
      BY <2>1, SMT
    <3>2. k \in 1..Len(fromServer') /\ k > i
      BY <3>1, <2>1, <1>1, SMT
    <3>3. ~Touches(fromServer'[k], o) /\ fromServer'[k] = fromServer[k + 1]
      BY <3>2, <1>1, <1>3 DEF Silent
    <3> QED
      BY <3>1, <3>3
  <2> QED
    BY <2>1 DEF Silent
<1>4. ASSUME NEW i \in 1..Len(fromServer') PROVE MessageInv(o, i)'
  <2>1. i \in 0..(n - 1) /\ i + 1 \in 1..n /\ fromServer'[i] = fromServer[i + 1]
    BY <1>1, SMT
  <2>2. MessageInv(o, i + 1)
    BY <2>1 DEF OrderInv
  <2> QED
    BY <1>2, <1>3, <2>1, <2>2 DEF MessageInv
<1>5. ASSUME Silent(o, 0)' PROVE ListInv(o)'
  <2>1. Silent(o, 1)
    BY <1>1, <1>3, <1>5, SMT
  <2>2. MessageInv(o, 1)
    BY <1>1, SMT DEF OrderInv
  <2>3. CASE Puts(m, o)
    <3>1. RightPut(o, m.orders[o])
      BY <2>1, <2>2, <2>3, <1>1 DEF MessageInv
    <3> QED
      BY <3>1, <2>3, <1>2 DEF Told, ListInv
  <2>4. CASE Takes(m, o)
    <3>1. RightTaken(o)
      BY <2>1, <2>2, <2>4, <1>1 DEF MessageInv
    <3> QED
      BY <3>1, <2>4, <1>2 DEF Told, ListInv
  <2>5. CASE ~Touches(m, o)
    <3>1. Silent(o, 0)
      BY <2>1, <2>5, <1>1, SMT DEF Silent
    <3>2. ListInv(o)
      BY <3>1 DEF OrderInv
    <3> QED
      BY <3>2, <2>5, <1>2 DEF Told, ListInv
  <2> QED
    BY <2>3, <2>4, <2>5 DEF Touches
<1> QED
  BY <1>4, <1>5 DEF OrderInv

(* The answer to the login becomes the list: it was empty. *)
LEMMA OrderConnected ==
    ASSUME ShapeInv, process_ws_connected, NEW o \in Order, OrderInv(o)
    PROVE  OrderInv(o)'
<1>1. PICK registry \in BOOLEAN : AddOrders(loginOrders, registry)
  BY DEF process_ws_connected
<1>2. /\ login = "answered" /\ login' = "none"
      /\ UNCHANGED <<fromServer, open, subscribed>>
  BY DEF process_ws_connected, server
<1>3. orders_last = NoOrders
  BY <1>2 DEF ShapeInv, PhaseInv, Idle, Connecting, Greeting, Online, Closing, Offline
<1>4. DOMAIN orders_last = {}
  BY <1>3, EmptyMap
<1>5. /\ DOMAIN orders_last' = DOMAIN loginOrders \cup DOMAIN orders_last
      /\ \A x \in DOMAIN loginOrders : orders_last'[x].price = loginOrders[x]
  BY <1>1, AddOrdersAdds DEF ShapeInv, TypeOK
<1>6. ListInv(o) => ListInv(o)'
  BY <1>2, <1>4, <1>5 DEF ListInv, RightPut, RightTaken, Reported
<1>7. Silent(o, 0)' <=> Silent(o, 0)
  BY <1>2 DEF Silent
<1>8. ASSUME NEW i \in 1..Len(fromServer') PROVE MessageInv(o, i)'
  BY <1>2, <1>8 DEF OrderInv, MessageInv, Silent, RightPut, RightTaken, Reported
<1> QED
  BY <1>6, <1>7, <1>8 DEF OrderInv

(* The answers to the requests, and the answer to the login. *)
LEMMA OrderSubscribed ==
    ASSUME TypeOK, NEW o \in Order, OrderInv(o), NEW market \in Market,
           subscribed' = subscribed \cup {market},
           fromServer' = Append(fromServer,
               [type |-> "Subscribed", orders |-> Keep(open, Visible(market))]),
           UNCHANGED <<login, loginOrders, orders_last, open>>
    PROVE  OrderInv(o)'
<1>0. PICK m : m = [type |-> "Subscribed", orders |-> Keep(open, Visible(market))]
  OBVIOUS
<1>1. m \in Message
  BY <1>0, ServerMessages
<1>2. /\ Puts(m, o) <=> (o \in DOMAIN open /\ MarketOf(o) = market)
      /\ Puts(m, o) => m.orders[o] = open[o]
      /\ ~Takes(m, o)
  BY <1>0 DEF Puts, Takes, Keep, Visible
<1>3. fromServer' = Append(fromServer, m)
  BY <1>0
<1>4. Puts(m, o) => RightPut(o, m.orders[o])'
  BY <1>2 DEF RightPut, Reported
<1>5. ~Touches(m, o) => RightsKept(o)
  BY <1>2 DEF Touches, RightsKept, RightPut, RightTaken, Reported
<1> QED
  BY <1>1, <1>2, <1>3, <1>4, <1>5, OrderAppended DEF TypeOK

LEMMA OrderUnsubscribed ==
    ASSUME TypeOK, NEW o \in Order, OrderInv(o), NEW market \in Market,
           subscribed' = subscribed \ {market},
           fromServer' = Append(fromServer, [type |-> "Unsubscribed", market |-> market]),
           UNCHANGED <<login, loginOrders, orders_last, open>>
    PROVE  OrderInv(o)'
<1> DEFINE m == [type |-> "Unsubscribed", market |-> market]
<1>1. m \in Message
  BY ServerMessages
<1>2. /\ Takes(m, o) <=> (o \notin Own /\ MarketOf(o) = market)
      /\ ~Puts(m, o)
  BY DEF Puts, Takes
<1>3. fromServer' = Append(fromServer, m)
  OBVIOUS
<1> HIDE DEF m
<1>4. Takes(m, o) => RightTaken(o)'
  BY <1>2 DEF RightTaken, Reported
<1>5. ~Touches(m, o) => RightsKept(o)
  BY <1>2 DEF Touches, RightsKept, RightPut, RightTaken, Reported
<1> QED
  BY <1>1, <1>2, <1>3, <1>4, <1>5, OrderAppended DEF TypeOK

LEMMA OrderAnswered ==
    ASSUME NEW o \in Order, fromServer' = <<>>, login' = "answered", subscribed' = {},
           loginOrders' = Keep(open, Own), open' = open
    PROVE  OrderInv(o)'
<1>1. Len(fromServer') = 0
  OBVIOUS
<1>2. /\ DOMAIN loginOrders' = DOMAIN open \cap Own
      /\ \A x \in DOMAIN open \cap Own : loginOrders'[x] = open[x]
  BY KeepIs
<1>3. ListInv(o)'
  BY <1>2 DEF ListInv, RightPut, RightTaken, Reported
<1> QED
  BY <1>1, <1>3, SMT DEF OrderInv

LEMMA ServesOrders ==
    ASSUME ShapeInv, OrdersInv, ServerServes
    PROVE  OrdersInv'
<1> DEFINE r == Head(toServer)
<1> SUFFICES ASSUME InUse', NEW o \in Order, MarketOf(o) \in SwapAsset
             PROVE  OrderInv(o)'
  BY DEF OrdersInv
<1>1. /\ TypeOK /\ link = "up" /\ toServer /= <<>> /\ r \in Request
      /\ UNCHANGED <<link, connected, orders_last, open>>
  BY FirstOf DEF ShapeInv, TypeOK, ServerServes, client
<1>2. CASE /\ r.type = "Subscribe" /\ session
           /\ subscribed' = subscribed \cup {r.market}
           /\ fromServer' = Append(fromServer,
                  [type |-> "Subscribed", orders |-> Keep(open, Visible(r.market))])
           /\ UNCHANGED <<session, login, loginOrders>>
  <2>1. OrderInv(o) /\ r.market \in Market
    BY <1>1, <1>2, RequestIs DEF OrdersInv, InUse
  <2> QED
    BY <1>1, <1>2, <2>1, OrderSubscribed
<1>3. CASE /\ r.type = "Unsubscribe" /\ session
           /\ subscribed' = subscribed \ {r.market}
           /\ fromServer' = Append(fromServer, [type |-> "Unsubscribed", market |-> r.market])
           /\ UNCHANGED <<session, login, loginOrders>>
  <2>1. OrderInv(o) /\ r.market \in Market
    BY <1>1, <1>3, RequestIs DEF OrdersInv, InUse
  <2> QED
    BY <1>1, <1>3, <2>1, OrderUnsubscribed
<1>4. CASE /\ r.type = "Login"
           /\ session' = TRUE
           /\ IF login = "asked"
              THEN login' = "answered" /\ loginOrders' = Keep(open, Own)
              ELSE UNCHANGED <<login, loginOrders>>
           /\ UNCHANGED <<subscribed, fromServer>>
  <2>1. ~InUse
    BY <1>1, <1>4, UsedHeads
  <2>2. login = "asked" /\ login' = "answered"
    BY <1>1, <1>4, <2>1 DEF InUse
  <2>4. Greeting
    BY <1>1, <2>2 DEF ShapeInv, PhaseInv, Idle, Connecting, Greeting, Online, Closing
  <2>3. fromServer' = <<>> /\ subscribed' = {}
    BY <1>4, <2>2, <2>4 DEF Greeting
  <2> QED
    BY <1>1, <1>4, <2>2, <2>3, OrderAnswered
<1>5. CASE /\ r.type \in {"Subscribe", "Unsubscribe"} /\ ~session
           /\ UNCHANGED <<session, subscribed, fromServer, login, loginOrders>>
  BY <1>1, <1>5, UsedOnline DEF InUse, Online
<1> QED
  BY <1>2, <1>3, <1>4, <1>5 DEF ServerServes

(* A change at the server: told if the order is reported on. *)
LEMMA NotifyOrders ==
    ASSUME ShapeInv, OrdersInv, NEW x \in Order, NEW m \in Message, fromServer' = Notify(x, m),
           UNCHANGED <<link, connected, session, subscribed, login, loginOrders, orders_last>>,
           \A o \in Order : o /= x =>
               /\ ~Touches(m, o)
               /\ o \in DOMAIN open' <=> o \in DOMAIN open
               /\ o \in DOMAIN open => open'[o] = open[o],
           \/ Puts(m, x) /\ ~Takes(m, x) /\ x \in DOMAIN open' /\ m.orders[x] = open'[x]
           \/ ~Puts(m, x) /\ Takes(m, x) /\ x \notin DOMAIN open'
    PROVE  OrdersInv'
<1> SUFFICES ASSUME InUse, NEW o \in Order, MarketOf(o) \in SwapAsset
             PROVE  OrderInv(o)'
  BY DEF OrdersInv, InUse
<1>1. OrderInv(o) /\ fromServer \in Seq(Message) /\ link = "up" /\ session
  BY UsedOnline DEF OrdersInv, ShapeInv, TypeOK, Online
<1>2. o /= x => RightsKept(o)
  BY DEF RightsKept, RightPut, RightTaken, Reported
<1>3. CASE Reported(x)
  <2>1. fromServer' = Append(fromServer, m)
    BY <1>1, <1>3 DEF Notify, Reported
  <2>2. CASE o /= x
    <3>1. ~Touches(m, o) /\ RightsKept(o)
      BY <1>2, <2>2
    <3>2. ~Puts(m, o) /\ ~Takes(m, o)
      BY <3>1 DEF Touches
    <3> QED
      BY <1>1, <2>1, <3>1, <3>2, OrderAppended
  <2>3. CASE o = x
    <3>1. Puts(m, o) => RightPut(o, m.orders[o])'
      BY <1>3, <2>3 DEF RightPut, Reported
    <3>2. Takes(m, o) => RightTaken(o)'
      BY <2>3 DEF RightTaken
    <3>3. Touches(m, o)
      BY <2>3 DEF Touches
    <3> QED
      BY <1>1, <2>1, <3>1, <3>2, <3>3, OrderAppended
  <2> QED
    BY <2>2, <2>3
<1>4. CASE ~Reported(x)
  <2>1. fromServer' = fromServer
    BY <1>4 DEF Notify, Reported
  <2>2. RightsKept(x)
    BY <1>4 DEF RightsKept, RightPut, RightTaken, Reported
  <2>3. RightsKept(o)
    BY <1>2, <2>2
  <2> QED
    BY <1>1, <2>1, <2>3, OrderKept
<1> QED
  BY <1>3, <1>4

LEMMA OrderOrders ==
    ASSUME ShapeInv, OrdersInv, NEW x \in Order, NEW price \in Price, ServerOrder(x, price)
    PROVE  OrdersInv'
<1> DEFINE f == [y \in {x} |-> price]
           m == [type |-> "OrderCreated", orders |-> f]
<1>1. /\ fromServer' = Notify(x, m) /\ open' = Over(f, open)
      /\ UNCHANGED <<link, connected, session, subscribed, login, loginOrders, orders_last>>
  BY DEF ServerOrder, client
<1>2. m \in Message
  BY ServerMessages DEF ShapeInv
<1>3. DOMAIN f = {x} /\ f[x] = price
  OBVIOUS
<1>4. /\ \A o : Puts(m, o) <=> o = x
      /\ \A o : ~Takes(m, o)
      /\ m.orders[x] = price
  BY DEF Puts, Takes
<1> HIDE DEF f, m
<1>5. /\ DOMAIN open' = DOMAIN f \cup DOMAIN open
      /\ \A o \in DOMAIN f : open'[o] = f[o]
      /\ \A o \in DOMAIN open : o \notin DOMAIN f => open'[o] = open[o]
  <2>1. /\ DOMAIN Over(f, open) = DOMAIN f \cup DOMAIN open
        /\ \A o \in DOMAIN f : Over(f, open)[o] = f[o]
        /\ \A o \in DOMAIN open : o \notin DOMAIN f => Over(f, open)[o] = open[o]
    BY OverIs
  <2> QED
    BY <1>1, <2>1
<1>6. \A o \in Order : o /= x =>
          /\ ~Touches(m, o)
          /\ o \in DOMAIN open' <=> o \in DOMAIN open
          /\ o \in DOMAIN open => open'[o] = open[o]
  BY <1>3, <1>4, <1>5 DEF Touches
<1>7. Puts(m, x) /\ ~Takes(m, x) /\ x \in DOMAIN open' /\ m.orders[x] = open'[x]
  BY <1>3, <1>4, <1>5
<1> QED
  BY <1>1, <1>2, <1>6, <1>7, NotifyOrders

LEMMA RemovesOrders ==
    ASSUME ShapeInv, OrdersInv, NEW x \in Order, ServerRemoves(x)
    PROVE  OrdersInv'
<1> DEFINE m == [type |-> "OrderRemoved", order |-> x]
<1>1. /\ fromServer' = Notify(x, m) /\ open' = Keep(open, Order \ {x})
      /\ UNCHANGED <<link, connected, session, subscribed, login, loginOrders, orders_last>>
  BY DEF ServerRemoves, client
<1>2. m \in Message
  BY ServerMessages DEF ShapeInv
<1>3. /\ \A o : Takes(m, o) <=> o = x
      /\ \A o : ~Puts(m, o)
  BY DEF Puts, Takes
<1> HIDE DEF m
<1>4. /\ DOMAIN open' = DOMAIN open \cap (Order \ {x})
      /\ \A o \in DOMAIN open \cap (Order \ {x}) : open'[o] = open[o]
  BY <1>1, KeepIs
<1>5. \A o \in Order : o /= x =>
          /\ ~Touches(m, o)
          /\ o \in DOMAIN open' <=> o \in DOMAIN open
          /\ o \in DOMAIN open => open'[o] = open[o]
  BY <1>3, <1>4 DEF Touches
<1>6. ~Puts(m, x) /\ Takes(m, x) /\ x \notin DOMAIN open'
  BY <1>3, <1>4
<1> QED
  BY <1>1, <1>2, <1>5, <1>6, NotifyOrders

LEMMA StepOrders ==
    ASSUME ShapeInv, OrdersInv, [Next]_vars
    PROVE  OrdersInv'
<1>1. TypeOK /\ UiMatches /\ FlagsInv
  BY DEF ShapeInv
<1>2. ASSUME UNCHANGED <<fromServer, login, loginOrders, orders_last, link, connected, open,
                         subscribed>>
      PROVE  OrdersInv'
  <2> SUFFICES ASSUME InUse, NEW o \in Order, MarketOf(o) \in SwapAsset
               PROVE  OrderInv(o)'
    BY <1>2 DEF OrdersInv, InUse
  <2>1. OrderInv(o)
    BY DEF OrdersInv
  <2>2. RightsKept(o)
    BY <1>2 DEF RightsKept, RightPut, RightTaken, Reported
  <2> QED
    BY <1>2, <2>1, <2>2, OrderKept
<1>3. CASE Select
  BY <1>2, <1>3 DEF Select, process_subscribe, server
<1>4. CASE process_ws_connected
  <2>1. login = "answered" /\ link' = link
    BY <1>4 DEF process_ws_connected
  <2> QED
    BY <1>4, <2>1, OrderConnected DEF OrdersInv, InUse
<1>5. CASE process_ws_msg
  <2>1. /\ fromServer \in Seq(Message) /\ fromServer /= <<>> /\ login = "none"
        /\ fromServer' = Tail(fromServer) /\ UNCHANGED <<link, login, open, subscribed>>
    BY <1>1, <1>5 DEF TypeOK, process_ws_msg, server
  <2>2. CASE Head(fromServer).type = "Disconnected"
    BY <1>5, <2>1, <2>2 DEF process_ws_msg, process_ws_disconnected, OrdersInv, InUse
  <2>3. CASE Head(fromServer).type /= "Disconnected"
    <3>1. Handled(Head(fromServer))
      BY <1>1, <1>5, <2>3, MessageHandled
    <3>2. InUse' => InUse
      BY <3>1, <2>1 DEF Handled, InUse
    <3>3. ASSUME InUse', NEW o \in Order, MarketOf(o) \in SwapAsset PROVE OrderInv(o)'
      <4>1. OrderInv(o)
        BY <3>2, <3>3 DEF OrdersInv
      <4>2. Told(Head(fromServer), o)
        BY <3>1, <3>3 DEF Handled
      <4> QED
        BY <2>1, <4>1, <4>2, OrderHandled
    <3> QED
      BY <3>3 DEF OrdersInv
  <2> QED
    BY <2>2, <2>3
<1>6. CASE SendLogin
  BY <1>6, UsedHeads DEF SendLogin, OrdersInv, InUse
<1>7. CASE send_ws_connect \/ Connect \/ Disconnect
  <2>1. ~connected \/ link /= "connecting"
    BY DEF ShapeInv, PhaseInv, Idle, Connecting, Greeting, Online, Closing, Offline
  <2>2. login = "none" \/ link /= "connecting"
    BY DEF ShapeInv, PhaseInv, Idle, Connecting, Greeting, Online, Closing
  <2> QED
    BY <1>7, <2>1, <2>2 DEF send_ws_connect, Connect, Disconnect, client, OrdersInv, InUse
<1>11. CASE check_ws_connection \/ LoginFails
  BY <1>11 DEF check_ws_connection, LoginFails, restart_websocket, OrdersInv, InUse
<1>8. CASE ServerServes
  BY <1>8, ServesOrders
<1>9. CASE ServerChanges
  BY <1>9, OrderOrders, RemovesOrders DEF ServerChanges
<1>10. CASE UNCHANGED vars
  BY <1>2, <1>10 DEF vars, client, server
<1> QED
  BY <1>3, <1>4, <1>5, <1>6, <1>7, <1>8, <1>9, <1>10, <1>11 DEF Next
-----------------------------------------------------------------------------
(* The markets: requests appended, and a request served. *)
LEMMA DecidesJoined ==
    ASSUME NEW q \in Seq(Request), NEW m, NEW has, NEW want, NEW want2, NEW markets,
           NEW type, NEW r \in Seq(Request), LastDecides(q, m, has, want),
           \A i \in 1..Len(r) : r[i].type = type /\ r[i].market \in markets,
           m \in markets => \E i \in 1..Len(r) : r[i].market = m,
           m \in markets => (type = "Subscribe" <=> m \in want2),
           m \notin markets => (m \in want <=> m \in want2)
    PROVE  LastDecides(q \o r, m, has, want2)
<1> DEFINE s == q \o r
           Unasked(i) == \A j \in 1..Len(s) : j > i => s[j].market /= m
           Unasked0(i) == \A j \in 1..Len(q) : j > i => q[j].market /= m
<1>1. /\ s \in Seq(Request) /\ Len(s) = Len(q) + Len(r)
      /\ Len(q) \in Nat /\ Len(r) \in Nat
      /\ \A i \in 1..Len(q) : s[i] = q[i]
      /\ \A j \in 1..Len(r) : s[Len(q) + j] = r[j]
  BY Joined, SMT
<1>2. /\ \A i \in 1..Len(q) : q[i].market = m /\ Unasked0(i) =>
             (q[i].type = "Subscribe" <=> m \in want)
      /\ Unasked0(0) => (m \in has <=> m \in want)
  BY DEF LastDecides
<1>3. \A i \in 1..Len(s) : \/ i \in 1..Len(q) /\ s[i] = q[i]
                           \/ \E j \in 1..Len(r) : i = Len(q) + j /\ s[i] = r[j]
  <2> SUFFICES ASSUME NEW i \in 1..Len(q \o r)
               PROVE  \/ i \in 1..Len(q) /\ (q \o r)[i] = q[i]
                      \/ \E j \in 1..Len(r) : i = Len(q) + j /\ (q \o r)[i] = r[j]
    OBVIOUS
  <2> QED
    BY JoinedFrom, SMT
<1> HIDE DEF s
<1>4. ASSUME NEW i \in 0..Len(q), Unasked(i)
      PROVE  m \notin markets /\ Unasked0(i)
  <2>1. ASSUME NEW j \in 1..Len(r) PROVE r[j].market /= m
    <3>1. PICK k \in Nat : k = Len(q) + j
      BY <1>1, SMT
    <3>2. k \in 1..Len(s) /\ k > i /\ s[k] = r[j]
      BY <3>1, <1>1, SMT
    <3> QED
      BY <3>2, <1>4
  <2>2. Unasked0(i)
    <3> SUFFICES ASSUME NEW j \in 1..Len(q), j > i PROVE q[j].market /= m
      OBVIOUS
    <3>1. j \in 1..Len(s) /\ s[j] = q[j]
      BY <1>1, SMT
    <3> QED
      BY <3>1, <1>4
  <2> QED
    BY <2>1, <2>2
<1>5. ASSUME NEW i \in 1..Len(s), s[i].market = m, Unasked(i)
      PROVE  s[i].type = "Subscribe" <=> m \in want2
  <2>1. CASE i \in 1..Len(q) /\ s[i] = q[i]
    <3>1. i \in 0..Len(q)
      BY <2>1, <1>1, SMT
    <3>2. m \notin markets /\ Unasked0(i)
      BY <3>1, <1>4, <1>5
    <3> QED
      BY <2>1, <3>2, <1>2, <1>5
  <2>2. CASE \E j \in 1..Len(r) : i = Len(q) + j /\ s[i] = r[j]
    BY <2>2, <1>5
  <2> QED
    BY <1>3, <2>1, <2>2
<1>6. ASSUME Unasked(0) PROVE m \in has <=> m \in want2
  <2>1. 0 \in 0..Len(q)
    BY <1>1, SMT
  <2>2. m \notin markets /\ Unasked0(0)
    BY <1>4, <1>6, <2>1
  <2> QED
    BY <2>2, <1>2
<1>7. LastDecides(s, m, has, want2)
  BY <1>5, <1>6 DEF LastDecides
<1> QED
  BY <1>7 DEF s

LEMMA DecidesServed ==
    ASSUME NEW q \in Seq(Request), q /= <<>>, NEW m, NEW has, NEW has2, NEW want,
           LastDecides(q, m, has, want),
           Head(q).market = m => (m \in has2 <=> Head(q).type = "Subscribe"),
           Head(q).market /= m => (m \in has2 <=> m \in has)
    PROVE  LastDecides(Tail(q), m, has2, want)
<1> DEFINE s == Tail(q)
           Unasked(i) == \A j \in 1..Len(s) : j > i => s[j].market /= m
           Unasked0(i) == \A j \in 1..Len(q) : j > i => q[j].market /= m
<1>1. /\ Len(q) \in Nat /\ Len(q) > 0 /\ Head(q) = q[1] /\ Len(s) = Len(q) - 1
      /\ \A i \in 1..Len(s) : s[i] = q[i + 1]
  BY FirstOf
<1>2. /\ \A i \in 1..Len(q) : q[i].market = m /\ Unasked0(i) =>
             (q[i].type = "Subscribe" <=> m \in want)
      /\ Unasked0(0) => (m \in has <=> m \in want)
  BY DEF LastDecides
<1> HIDE DEF s
<1>3. ASSUME NEW i \in 0..Len(s), Unasked(i)
      PROVE  Unasked0(i + 1)
  <2> SUFFICES ASSUME NEW j \in 1..Len(q), j > i + 1 PROVE q[j].market /= m
    OBVIOUS
  <2>1. PICK k \in Nat : j = k + 1
    BY SMT
  <2>2. k \in 1..Len(s) /\ k > i
    BY <2>1, <1>1, SMT
  <2>3. s[k].market /= m /\ s[k] = q[k + 1]
    BY <2>2, <1>1, <1>3
  <2> QED
    BY <2>1, <2>3
<1>4. ASSUME NEW i \in 1..Len(s), s[i].market = m, Unasked(i)
      PROVE  s[i].type = "Subscribe" <=> m \in want
  <2>1. i \in 0..Len(s) /\ i + 1 \in 1..Len(q) /\ s[i] = q[i + 1]
    BY <1>1, SMT
  <2>2. Unasked0(i + 1)
    BY <2>1, <1>3, <1>4
  <2>3. PICK k \in 1..Len(q) : k = i + 1
    BY <2>1
  <2> QED
    BY <2>1, <2>2, <2>3, <1>2, <1>4
<1>5. ASSUME Unasked(0) PROVE m \in has2 <=> m \in want
  <2>1. 0 \in 0..Len(s) /\ 0 + 1 = 1
    BY <1>1, SMT
  <2>2. Unasked0(1)
    BY <2>1, <1>3, <1>5
  <2>3. CASE q[1].market = m
    <3>1. 1 \in 1..Len(q)
      BY <1>1, SMT
    <3>2. q[1].type = "Subscribe" <=> m \in want
      BY <3>1, <2>2, <2>3, <1>2
    <3> QED
      BY <3>2, <2>3, <1>1
  <2>4. CASE q[1].market /= m
    <3>1. Unasked0(0)
      <4> SUFFICES ASSUME NEW j \in 1..Len(q), j > 0 PROVE q[j].market /= m
        OBVIOUS
      <4>1. j = 1 \/ j > 1
        BY SMT
      <4> QED
        BY <4>1, <2>2, <2>4
    <3> QED
      BY <3>1, <2>4, <1>1, <1>2
  <2> QED
    BY <2>3, <2>4
<1>6. LastDecides(s, m, has2, want)
  BY <1>4, <1>5 DEF LastDecides
<1> QED
  BY <1>6 DEF s

(* A selection asks for what is new and for what is gone. *)
LEMMA SelectMarkets ==
    ASSUME ShapeInv, MarketsInv, NEW S \in SUBSET Market, process_subscribe(S)
    PROVE  MarketsInv'
<1>1. PICK unsub \in Requests("Unsubscribe", subscribes \ S),
           sub \in Requests("Subscribe", S \ subscribes) :
          toServer' = IF link = "idle" THEN toServer ELSE toServer \o unsub \o sub
  BY DEF process_subscribe
<1>2. /\ unsub \in Seq(Request)
      /\ \A i \in 1..Len(unsub) :
             unsub[i].type = "Unsubscribe" /\ unsub[i].market \in subscribes \ S
      /\ \A m \in subscribes \ S : \E i \in 1..Len(unsub) : unsub[i].market = m
  <2>1. subscribes \ S \in SUBSET Market
    BY DEF ShapeInv, TypeOK
  <2> QED
    BY <2>1, RequestsAre
<1>3. /\ sub \in Seq(Request)
      /\ \A i \in 1..Len(sub) : sub[i].type = "Subscribe" /\ sub[i].market \in S \ subscribes
      /\ \A m \in S \ subscribes : \E i \in 1..Len(sub) : sub[i].market = m
  <2>1. PICK new \in SUBSET Market : new = S \ subscribes
    OBVIOUS
  <2>2. sub \in Requests("Subscribe", new)
    BY <2>1
  <2>3. /\ sub \in Seq(Request)
        /\ \A i \in 1..Len(sub) : sub[i].type = "Subscribe" /\ sub[i].market \in new
        /\ \A m \in new : \E i \in 1..Len(sub) : sub[i].market = m
    BY <2>2, RequestsAre
  <2> QED
    BY <2>1, <2>3
<1>4. /\ toServer \in Seq(Request) /\ login = "none" /\ subscribes' = S
      /\ UNCHANGED <<link, connected, subscribed>>
  BY DEF ShapeInv, TypeOK, process_subscribe, server
<1> SUFFICES ASSUME link = "up", connected, NEW m \in Market
             PROVE  LastDecides(toServer', m, subscribed, S)
  BY <1>4 DEF MarketsInv
<1>5. LastDecides(toServer, m, subscribed, subscribes)
  BY <1>4 DEF MarketsInv
<1> DEFINE kept == subscribes \cap S
<1>6. LastDecides(toServer \o unsub, m, subscribed, kept)
  <2>1. /\ m \in subscribes \ S => ("Unsubscribe" = "Subscribe" <=> m \in kept)
        /\ m \notin subscribes \ S => (m \in subscribes <=> m \in kept)
    OBVIOUS
  <2> HIDE DEF kept
  <2> QED
    BY <1>2, <1>4, <1>5, <2>1, DecidesJoined
<1>7. LastDecides((toServer \o unsub) \o sub, m, subscribed, S)
  <2>1. PICK q : q = toServer \o unsub
    OBVIOUS
  <2>2. q \in Seq(Request) /\ LastDecides(q, m, subscribed, kept)
    BY <2>1, <1>2, <1>4, <1>6, Joined
  <2>3. /\ m \in S \ subscribes => ("Subscribe" = "Subscribe" <=> m \in S)
        /\ m \notin S \ subscribes => (m \in kept <=> m \in S)
    OBVIOUS
  <2> HIDE DEF kept
  <2>4. LastDecides(q \o sub, m, subscribed, S)
    BY <1>3, <2>2, <2>3, DecidesJoined
  <2> QED
    BY <2>1, <2>4
<1> QED
  BY <1>1, <1>7

(* A new connection asks for all that is shown. *)
LEMMA ConnectedMarkets ==
    ASSUME ShapeInv, process_ws_connected
    PROVE  MarketsInv'
<1>1. PICK sub \in Requests("Subscribe", subscribes) : toServer' = toServer \o sub
  BY DEF process_ws_connected
<1>2. login = "answered" /\ UNCHANGED <<subscribes, subscribed>>
  BY DEF process_ws_connected, server
<1>3. toServer = <<>> /\ subscribed = {}
  BY <1>2 DEF ShapeInv, PhaseInv, Idle, Connecting, Greeting, Online, Closing
<1>4. /\ sub \in Seq(Request)
      /\ \A i \in 1..Len(sub) : sub[i].type = "Subscribe" /\ sub[i].market \in subscribes
      /\ \A m \in subscribes : \E i \in 1..Len(sub) : sub[i].market = m
  BY RequestsAre, SMT DEF ShapeInv, TypeOK
<1> SUFFICES ASSUME NEW m \in Market
             PROVE  LastDecides(toServer', m, subscribed, subscribes)
  BY <1>2 DEF MarketsInv
<1>5. toServer \in Seq(Request) /\ LastDecides(toServer, m, subscribed, {})
  <2>1. <<>> \in Seq(Request) /\ 1..Len(<<>>) = {}
    BY SMT
  <2>2. LastDecides(<<>>, m, {}, {})
    BY <2>1 DEF LastDecides
  <2> QED
    BY <1>3, <2>1, <2>2
<1>6. /\ m \in subscribes => ("Subscribe" = "Subscribe" <=> m \in subscribes)
      /\ m \notin subscribes => (m \in {} <=> m \in subscribes)
  OBVIOUS
<1> QED
  BY <1>1, <1>4, <1>5, <1>6, DecidesJoined

LEMMA ServesMarkets ==
    ASSUME ShapeInv, MarketsInv, ServerServes
    PROVE  MarketsInv'
<1> DEFINE r == Head(toServer)
<1>1. /\ toServer \in Seq(Request) /\ toServer /= <<>> /\ link = "up"
      /\ toServer' = Tail(toServer) /\ subscribes' = subscribes
  BY DEF ShapeInv, TypeOK, ServerServes, client
<1> SUFFICES ASSUME connected, NEW m \in Market
             PROVE  LastDecides(Tail(toServer), m, subscribed', subscribes)
  BY <1>1 DEF MarketsInv, ServerServes, client
<1>2. InUse /\ session /\ r.type /= "Login"
  BY <1>1, UsedOnline, UsedHeads DEF InUse, Online
<1>3. \/ r.type = "Subscribe" /\ subscribed' = subscribed \cup {r.market}
      \/ r.type = "Unsubscribe" /\ subscribed' = subscribed \ {r.market}
  BY <1>2 DEF ServerServes
<1>4. LastDecides(toServer, m, subscribed, subscribes)
  BY <1>1 DEF MarketsInv
<1>5. PICK has2 : has2 = subscribed'
  OBVIOUS
<1>6. /\ r.market = m => (m \in has2 <=> r.type = "Subscribe")
      /\ r.market /= m => (m \in has2 <=> m \in subscribed)
  BY <1>3, <1>5
<1>7. LastDecides(Tail(toServer), m, has2, subscribes)
  BY <1>1, <1>4, <1>6, DecidesServed
<1> QED
  BY <1>5, <1>7

LEMMA StepMarkets ==
    ASSUME ShapeInv, MarketsInv, [Next]_vars
    PROVE  MarketsInv'
<1>1. ASSUME UNCHANGED <<link, connected, toServer, subscribed, subscribes>>
      PROVE  MarketsInv'
  BY <1>1 DEF MarketsInv
<1>2. CASE Select
  BY <1>2, SelectMarkets DEF Select
<1>3. CASE process_ws_connected
  BY <1>3, ConnectedMarkets
<1>4. CASE process_ws_msg
  <2>1. CASE connected' = connected
    BY <1>1, <1>4, <2>1 DEF process_ws_msg, server
  <2>2. CASE process_ws_disconnected
    BY <2>2 DEF process_ws_disconnected, MarketsInv
  <2> QED
    BY <1>4, <2>1, <2>2 DEF process_ws_msg, process_subscribe_response,
           process_unsubscribe_response, process_order_created, process_order_removed
<1>5. CASE SendLogin
  BY <1>5, UsedHeads DEF SendLogin, MarketsInv, InUse
<1>6. CASE send_ws_connect \/ Connect \/ Disconnect
  <2>1. ~connected \/ link /= "connecting"
    BY DEF ShapeInv, PhaseInv, Idle, Connecting, Greeting, Online, Closing, Offline
  <2> QED
    BY <1>6, <2>1 DEF send_ws_connect, Connect, Disconnect, client, MarketsInv
<1>10. CASE check_ws_connection \/ LoginFails
  BY <1>10 DEF check_ws_connection, LoginFails, restart_websocket, MarketsInv
<1>7. CASE ServerServes
  BY <1>7, ServesMarkets
<1>8. CASE ServerChanges
  BY <1>1, <1>8 DEF ServerChanges, ServerOrder, ServerRemoves, client
<1>9. CASE UNCHANGED vars
  BY <1>1, <1>9 DEF vars, client, server
<1> QED
  BY <1>2, <1>3, <1>4, <1>5, <1>6, <1>7, <1>8, <1>9, <1>10 DEF Next
-----------------------------------------------------------------------------
(* With nothing on its way, the last word on each order is in the list,    *)
(* and the last word on each market is with the server.                    *)
LEMMA QuietConverged == ConvergeInv => Converged
<1> SUFFICES ASSUME ConvergeInv, Quiet, NEW o \in Order, MarketOf(o) \in SwapAsset
             PROVE  /\ o \in DOMAIN orders_last <=>
                           (o \in DOMAIN open /\ (o \in Own \/ MarketOf(o) \in subscribes))
                    /\ o \in DOMAIN orders_last => orders_last[o].price = open[o]
  BY DEF Converged
<1>1. link = "up" /\ login = "none" /\ connected /\ toServer = <<>> /\ fromServer = <<>>
  BY DEF Quiet
<1>2. InUse
  BY <1>1 DEF InUse
<1>3. Len(fromServer) = 0 /\ Len(toServer) = 0
  BY <1>1
<1>4. MarketOf(o) \in subscribed <=> MarketOf(o) \in subscribes
  <2>1. PICK market \in Market : market = MarketOf(o)
    BY DEF Market
  <2>2. LastDecides(toServer, market, subscribed, subscribes)
    BY <1>1, <1>2 DEF ConvergeInv, MarketsInv
  <2>3. 1..Len(toServer) = {}
    BY <1>3, SMT
  <2>4. market \in subscribed <=> market \in subscribes
    BY <2>2, <2>3 DEF LastDecides
  <2> QED
    BY <2>1, <2>4
<1>5. ListInv(o)
  <2>1. OrderInv(o)
    BY <1>1, <1>2 DEF ConvergeInv, OrdersInv
  <2>2. Silent(o, 0)
    BY <1>3, SMT DEF Silent
  <2> QED
    BY <2>1, <2>2 DEF OrderInv
<1> QED
  BY <1>1, <1>4, <1>5 DEF ListInv, RightPut, RightTaken, Reported

(* However selections, changes at the server, losses and reconnections     *)
(* fall between the messages: once nothing is on its way, the list of the  *)
(* worker is what the server has of the own orders and of the markets      *)
(* shown, at the server's prices.                                          *)
THEOREM AlwaysConverges == Spec => []Converged
<1>1. Init => ConvergeInv
  BY StartShape DEF Init, ConvergeInv, OrdersInv, InUse, MarketsInv
<1>2. ConvergeInv /\ [Next]_vars => ConvergeInv'
  BY StepShape, StepOrders, StepMarkets DEF ConvergeInv
<1>3. ConvergeInv => Converged
  BY QuietConverged
<1> QED
  BY <1>1, <1>2, <1>3, PTL DEF Spec
=============================================================================
