--------------------------- MODULE HeadlessServer ---------------------------
(***************************************************************************)
(* The headless server (sideswap_headless_server): clients of its HTTP API *)
(* ask for swap orders, which it submits to the SideSwap server, signs and *)
(* follows.  The worker thread (worker.rs) is composed with the API        *)
(* (api_server.rs), the wallet thread (wallet.rs), the manual web-socket   *)
(* thread (reconnecting is up to the worker) and the SideSwap server.      *)
(*                                                                         *)
(* The worker makes its requests asynchronously; what it does with a reply *)
(* is a callback kept under the number of the request.  Orders are known   *)
(* by the number of the API request they were made for.                    *)
(***************************************************************************)
EXTENDS Integers, Sequences, FiniteSets, FiniteSetsExt, SequencesExt

CONSTANTS
    Setups,      \* [reqs, coins, removals, faults, warm]: the API requests, as
                 \*   [n, key (0: none), amount]; the coins of the wallet, each of
                 \*   amount 1; does the server announce that an order is gone from
                 \*   the list; the bound on connections lost, requests refused and
                 \*   signatures that fail; and does the program start with a
                 \*   session and the list of the coins
    SignLimit    \* signatures under way above which no order is taken (5 in the code)

VARIABLES
    net,     \* the web-socket thread, the channels, and the queue of the worker
    data,    \* Data, the state of the worker
    api,     \* what became of the API requests
    wal,     \* the wallet thread and the wallet
    srv,     \* the SideSwap server
    faults

vars == <<net, data, api, wal, srv, faults>>

Reqs == srv.setup.reqs
Ids == {r.n : r \in Reqs}
The(id) == CHOOSE r \in Reqs : r.n = id

NoInputs == {-1}      \* None
Started ==
    [ws_connected |-> FALSE, async_requests |-> {},
     orders |-> [id \in {} |-> "none"], inputs |-> [id \in {} |-> {}],
     swap_inputs |-> NoInputs, unique_orders |-> [k \in {} |-> 0], sign_request_count |-> 0]
NetStarted == [ws |-> "idle", reqs |-> <<[op |-> "Connect"]>>, stream |-> <<>>, queue |-> <<>>]

Init ==
    /\ \E s \in Setups :
         /\ net = IF s.warm THEN [NetStarted EXCEPT !.ws = "open", !.reqs = <<>>] ELSE NetStarted
         /\ data = IF s.warm THEN [Started EXCEPT !.ws_connected = TRUE, !.swap_inputs = s.coins] ELSE Started
         /\ srv = [setup |-> s, session |-> s.warm, stage |-> [r \in {q.n : q \in s.reqs} |-> "none"],
                   inputs |-> [r \in {q.n : q \in s.reqs} |-> {}]]
         /\ api = [r \in {q.n : q \in s.reqs} |-> "none"]
         /\ wal = [q |-> <<>>, dirty |-> ~s.warm, coins |-> s.coins]
    /\ faults = 0

Fault == faults < srv.setup.faults /\ faults' = faults + 1
-----------------------------------------------------------------------------
(* The worker's state while a handler runs: the requests to send and the   *)
(* answers to give are collected with it.                                  *)
W == [data |-> data, send |-> <<>>, say |-> api]

(* send_request: nothing without a connection, and nobody waits.           *)
send_request(w, op, id) ==
    IF w.data.ws_connected THEN [w EXCEPT !.send = Append(@, [op |-> op, id |-> id])] ELSE w

cancel_order(w, id) ==
    send_request([w EXCEPT !.data.orders = (id :> "Failed") @@ @], "Cancel", id)

respond(w, id, res) == [w EXCEPT !.say[id] = res]

(* A request with a callback, when there is a connection.  No two that     *)
(* wait for a reply have the same operation and order, which stand for     *)
(* the number of the request.                                              *)
request(w, r) ==
    [w EXCEPT !.send = Append(@, r), !.data.async_requests = @ \cup {r}]

(* What the callbacks do with an error, and so what make_async_request     *)
(* does without a connection.                                              *)
Failure(w, r) ==
    CASE r.op = "Submit" -> respond(w, r.id, "Server")
      [] r.op = "PsetMaker" -> respond(cancel_order(w, r.id), r.id, "NotInputs")
      [] r.op = "Sign" -> cancel_order(w, r.id)
      [] OTHER -> w

make_async_request(w, r) == IF w.data.ws_connected THEN request(w, r) ELSE Failure(w, r)

(* Bug: only the coins of active orders are reserved. *)
Bug_reserved(w) ==
    UNION {w.data.inputs[id] : id \in {i \in DOMAIN w.data.inputs : w.data.orders[i] = "Active"}}

(* The coins of orders that are active or have succeeded are reserved.     *)
Reserved(w) ==
    UNION {w.data.inputs[id] : id \in {i \in DOMAIN w.data.inputs : w.data.orders[i] \in {"Active", "Succeed"}}}

(* process_submit_inputs: the outcomes, by the coins that are selected     *)
(* among those not reserved.                                               *)
process_submit_inputs(w, id) ==
    LET free == IF w.data.swap_inputs = NoInputs THEN {} ELSE w.data.swap_inputs \ Reserved(w)
        amount == The(id).amount
    IN  IF Cardinality(free) < amount
        THEN {respond(cancel_order(w, id), id, "NotInputs")}
        ELSE {make_async_request([w EXCEPT !.data.orders = (id :> "Active") @@ @,
                                           !.data.inputs = (id :> coins) @@ @],
                                 [op |-> "PsetMaker", id |-> id, coins |-> coins])
                 : coins \in kSubset(amount, free)}

(* Bug: the key is looked up before the order is submitted only. *)
Bug_on_pset_maker(w, id) ==
    LET key == The(id).key
    IN  respond([w EXCEPT !.data.unique_orders = (key :> id) @@ @], id, "Ok")

(* The order is with the server; an order for the same key that is active  *)
(* or has succeeded makes it a duplicate.                                  *)
on_pset_maker(w, id) ==
    LET key == The(id).key
        old == IF key \in DOMAIN w.data.unique_orders THEN w.data.unique_orders[key] ELSE 0
        is_allowed == old = 0 \/ old \notin DOMAIN w.data.orders \/ w.data.orders[old] = "Failed"
    IN  IF key = 0 THEN respond(w, id, "Ok")
        ELSE IF is_allowed THEN respond([w EXCEPT !.data.unique_orders = (key :> id) @@ @], id, "Ok")
        ELSE cancel_order(respond(w, id, "Duplicated"), id)

(* Bug: the orders listed by the login stay. *)
Bug_success(w, r, arg) ==
    CASE r.op = "Submit" -> process_submit_inputs(w, r.id)
      [] r.op = "PsetMaker" -> {on_pset_maker(w, r.id)}
      [] OTHER -> {w}

(* The outcomes of the callback of a request whose reply is no error.      *)
Success(w, r, arg) ==
    CASE r.op = "Submit" -> process_submit_inputs(w, r.id)
      [] r.op = "PsetMaker" -> {on_pset_maker(w, r.id)}
      [] r.op = "Login" -> {FoldSet(LAMBDA id, acc : cancel_order(acc, id), w, arg)}
      [] OTHER -> {w}
-----------------------------------------------------------------------------
(* The messages of the worker's queue.                                     *)
Msg == Head(net.queue)
Receives(t) == net.queue /= <<>> /\ Msg.t = t
Ends(w) ==
    /\ data' = w.data /\ api' = w.say
    /\ net' = [net EXCEPT !.queue = Tail(@), !.reqs = @ \o w.send]

process_new_order ==
    /\ Receives("NewOrder")
    /\ Ends(IF data.sign_request_count > SignLimit THEN respond(W, Msg.id, "TooMany")
            ELSE make_async_request(W, [op |-> "Submit", id |-> Msg.id]))
    /\ UNCHANGED <<wal, srv, faults>>

SwapInputs ==
    /\ Receives("SwapInputs")
    /\ Ends([W EXCEPT !.data.swap_inputs = Msg.coins])
    /\ UNCHANGED <<wal, srv, faults>>

SignedPset ==
    /\ Receives("SignedPset")
    /\ Ends(make_async_request([W EXCEPT !.data.sign_request_count = @ - 1], [op |-> "Sign", id |-> Msg.id]))
    /\ UNCHANGED <<wal, srv, faults>>

(* Bug: a failed signature is not counted. *)
Bug_sign_failed ==
    /\ Receives("PsetSignFailed")
    /\ Ends(cancel_order(W, Msg.id))
    /\ UNCHANGED <<wal, srv, faults>>

PsetSignFailed ==
    /\ Receives("PsetSignFailed")
    /\ Ends(cancel_order([W EXCEPT !.data.sign_request_count = @ - 1], Msg.id))
    /\ UNCHANGED <<wal, srv, faults>>

Connected ==
    /\ Receives("Connected")
    /\ Ends(make_async_request([W EXCEPT !.data.ws_connected = TRUE], [op |-> "Login", id |-> 0]))
    /\ UNCHANGED <<wal, srv, faults>>

(* Bug: the callbacks are dropped. *)
Bug_disconnected ==
    /\ Receives("Disconnected")
    /\ Ends([W EXCEPT !.data.ws_connected = FALSE, !.data.async_requests = {}, !.send = <<[op |-> "Connect"]>>])
    /\ UNCHANGED <<wal, srv, faults>>

(* Every callback is called with an error; then a connection is wanted.    *)
Disconnected ==
    /\ Receives("Disconnected")
    /\ LET off == [W EXCEPT !.data.ws_connected = FALSE, !.data.async_requests = {}]
           done == FoldSet(LAMBDA r, acc : Failure(acc, r), off, data.async_requests)
       IN  Ends([done EXCEPT !.send = <<[op |-> "Connect"]>>])
    /\ UNCHANGED <<wal, srv, faults>>

(* A reply to a request that is not known any more is ignored.             *)
OnReply ==
    /\ Receives("Reply")
    /\ LET hit == {r \in data.async_requests : r.op = Msg.op /\ r.id = Msg.id}
           left == [W EXCEPT !.data.async_requests = @ \ hit]
       IN  IF hit = {} THEN Ends(W)
           ELSE \E r \in hit :
                   IF Msg.res = "ok" THEN \E w \in Success(left, r, Msg.arg) : Ends(w)
                   ELSE Ends(Failure(left, r))
    /\ UNCHANGED <<wal, srv, faults>>

(* An order that is removed from the list: only one that is not active     *)
(* is changed.                                                             *)
OrderRemoved ==
    /\ Receives("OrderRemoved")
    /\ Ends(IF Msg.id \in DOMAIN data.orders /\ data.orders[Msg.id] /= "Active"
            THEN [W EXCEPT !.data.orders[Msg.id] = "Failed"] ELSE W)
    /\ UNCHANGED <<wal, srv, faults>>

(* A swap that was made; an order that is not active is a panic.           *)
IsActive(id) == id \in DOMAIN data.orders /\ data.orders[id] = "Active"

Complete ==
    /\ Receives("Complete") /\ (Msg.txid => IsActive(Msg.id))
    /\ Ends([W EXCEPT !.data.orders = (Msg.id :> IF Msg.txid THEN "Succeed" ELSE "Failed") @@ @])
    /\ UNCHANGED <<wal, srv, faults>>

(* Bug: the signature that is asked for is not counted. *)
Bug_sign ==
    /\ Receives("Sign")
    /\ Ends(W)
    /\ wal' = [wal EXCEPT !.q = Append(@, Msg.id)]
    /\ UNCHANGED <<srv, faults>>

Sign ==
    /\ Receives("Sign")
    /\ Ends([W EXCEPT !.data.sign_request_count = @ + 1])
    /\ wal' = [wal EXCEPT !.q = Append(@, Msg.id)]
    /\ UNCHANGED <<srv, faults>>
-----------------------------------------------------------------------------
(* The API (api_server.rs): an order is asked for.  The requests are       *)
(* numbered in the order of their arrival.                                 *)
NewOrder(id) ==
    /\ api[id] = "none" /\ \A i \in Ids : i < id => api[i] /= "none"
    /\ api' = [api EXCEPT ![id] = "waiting"]
    /\ net' = [net EXCEPT !.queue = Append(@, [t |-> "NewOrder", id |-> id])]
    /\ UNCHANGED <<data, wal, srv, faults>>

(* The wallet thread: coins after a change, no more than every 10 seconds; *)
(* signatures in order.                                                    *)
WalletCoins ==
    /\ wal.dirty
    /\ wal' = [wal EXCEPT !.dirty = FALSE]
    /\ net' = [net EXCEPT !.queue = Append(@, [t |-> "SwapInputs", coins |-> wal.coins])]
    /\ UNCHANGED <<data, api, srv, faults>>

WalletSigns ==
    /\ wal.q /= <<>>
    /\ wal' = [wal EXCEPT !.q = Tail(@)]
    /\ \E t \in {"SignedPset", "PsetSignFailed"} :
          /\ IF t = "SignedPset" THEN UNCHANGED faults ELSE Fault
          /\ net' = [net EXCEPT !.queue = Append(@, [t |-> t, id |-> Head(wal.q)])]
    /\ UNCHANGED <<data, api, srv>>
-----------------------------------------------------------------------------
(* The manual web-socket thread: it connects when asked to, drops requests *)
(* until then, and reports a loss.                                         *)
SocketIdle ==
    /\ net.ws = "idle" /\ net.reqs /= <<>>
    /\ net' = IF Head(net.reqs).op = "Connect"
              THEN [net EXCEPT !.ws = "open", !.reqs = Tail(@), !.queue = Append(@, [t |-> "Connected"])]
              ELSE [net EXCEPT !.reqs = Tail(@)]
    /\ UNCHANGED <<data, api, wal, srv, faults>>

SocketServes ==
    /\ net.ws = "open" /\ net.stream /= <<>>
    /\ net' = [net EXCEPT !.stream = Tail(@), !.queue = Append(@, Head(net.stream))]
    /\ UNCHANGED <<data, api, wal, srv, faults>>

(* The SideSwap server ends the session; an order that is not yet open to  *)
(* others is dropped.                                                      *)
SessionEnds ==
    srv' = [srv EXCEPT !.session = FALSE,
                       !.stage = [id \in Ids |-> IF @[id] = "new" THEN "gone" ELSE @[id]]]

Lost ==
    /\ net.ws = "open" /\ Fault
    /\ net' = [net EXCEPT !.ws = "idle", !.stream = <<>>,
                          !.queue = Append(@, [t |-> "Disconnected"])]
    /\ SessionEnds
    /\ UNCHANGED <<data, api, wal>>
-----------------------------------------------------------------------------
(* The SideSwap server (external) takes the requests that the socket       *)
(* passes on.  An order that a taker has is not cancelled any more.        *)
Stage(id) == srv.stage[id]
Accepts(r) ==
    CASE r.op = "Submit" -> Stage(r.id) = "none"
      [] r.op = "PsetMaker" -> Stage(r.id) = "new"
      [] r.op = "Cancel" -> Stage(r.id) \in {"new", "ready"}
      [] r.op = "Sign" -> Stage(r.id) = "asked"
      [] OTHER -> TRUE

Moved(s, id, stage) == [s EXCEPT !.stage[id] = stage]
Gone(id, txid) ==
    <<[t |-> "Complete", id |-> id, txid |-> txid]>>
       \o IF srv.setup.removals THEN <<[t |-> "OrderRemoved", id |-> id]>> ELSE <<>>

ServerAnswers ==
    /\ net.ws = "open" /\ net.reqs /= <<>>
    /\ LET r == Head(net.reqs)
           listed == {id \in Ids : Stage(id) \in {"ready", "asked"}}
           reply(res) == [t |-> "Reply", op |-> r.op, id |-> r.id, res |-> res, arg |-> IF r.op = "Login" THEN listed ELSE {}]
           news == IF r.op = "Cancel" THEN Gone(r.id, FALSE) ELSE <<>>
           read == [net EXCEPT !.reqs = Tail(@)]
       IN  \/ /\ Accepts(r)
              /\ net' = [read EXCEPT !.stream = Append(@, reply("ok")) \o news]
              /\ srv' = CASE r.op = "Login" -> [srv EXCEPT !.session = TRUE]
                          [] r.op = "Submit" -> Moved(srv, r.id, "new")
                          [] r.op = "PsetMaker" -> [Moved(srv, r.id, "ready") EXCEPT !.inputs[r.id] = r.coins]
                          [] r.op = "Cancel" -> Moved(srv, r.id, "gone")
                          [] r.op = "Sign" -> Moved(srv, r.id, "signed")
              /\ UNCHANGED faults
           \/ /\ IF Accepts(r) THEN Fault /\ r.op \notin {"Login", "Cancel"} ELSE UNCHANGED faults
              /\ net' = [read EXCEPT !.stream = Append(@, reply("err"))]
              /\ UNCHANGED srv
    /\ UNCHANGED <<data, api, wal>>

Notified(msgs) == net' = [net EXCEPT !.stream = IF srv.session THEN @ \o msgs ELSE @]

Take(id) ==
    /\ Stage(id) = "ready" /\ srv.session
    /\ srv' = Moved(srv, id, "asked")
    /\ Notified(<<[t |-> "Sign", id |-> id]>>)
    /\ UNCHANGED <<data, api, wal, faults>>

(* The swap is made, if its coins are still there, or comes to nothing.    *)
SwapEnds(id) ==
    /\ \/ /\ Stage(id) = "signed" /\ srv.inputs[id] \subseteq wal.coins
          /\ srv' = Moved(srv, id, "done")
          /\ wal' = [wal EXCEPT !.coins = @ \ srv.inputs[id], !.dirty = TRUE]
          /\ Notified(Gone(id, TRUE))
       \/ /\ Stage(id) \in {"asked", "signed"}
          /\ srv' = Moved(srv, id, "gone")
          /\ Notified(Gone(id, FALSE))
          /\ UNCHANGED wal
    /\ UNCHANGED <<data, api, faults>>

(* The panic of the Complete handler ends the process, which is started    *)
(* again; clients of the API lose their connections.                       *)
UnexpectedState == Receives("Complete") /\ Msg.txid /\ ~IsActive(Msg.id)
Restart ==
    /\ UnexpectedState
    /\ net' = NetStarted /\ data' = Started
    /\ api' = [id \in Ids |-> IF api[id] = "waiting" THEN "Closed" ELSE api[id]]
    /\ wal' = [wal EXCEPT !.q = <<>>, !.dirty = TRUE]
    /\ SessionEnds
    /\ UNCHANGED faults
-----------------------------------------------------------------------------
Worker ==
    \/ process_new_order \/ SwapInputs \/ SignedPset \/ PsetSignFailed \/ Connected \/ Disconnected
    \/ OnReply \/ OrderRemoved \/ Complete \/ Sign \/ Restart
Wallet == WalletCoins \/ WalletSigns
Socket == SocketIdle \/ SocketServes
Next ==
    \/ Worker \/ Wallet \/ Socket \/ ServerAnswers \/ Lost
    \/ \E id \in Ids : NewOrder(id) \/ Take(id) \/ SwapEnds(id)

Spec == Init /\ [][Next]_vars
LiveSpec == Spec /\ WF_vars(Worker) /\ WF_vars(Wallet) /\ WF_vars(Socket) /\ WF_vars(ServerAnswers)
-----------------------------------------------------------------------------
Outcomes == {"none", "waiting", "Ok", "NotInputs", "Duplicated", "TooMany", "Server", "Closed"}

(* The shape of the state.                                                 *)
TypeOK ==
    /\ net.ws \in {"idle", "open"}
    /\ DOMAIN data.orders \subseteq Ids /\ DOMAIN data.inputs \subseteq Ids
    /\ data.sign_request_count \in 0..Cardinality(Ids)
    /\ api \in [Ids -> Outcomes]

Queued(t) == Cardinality({i \in DOMAIN net.queue : net.queue[i].t \in t})

(* sign_request_count, an unsigned number, counts the signatures under way *)
(* in the wallet thread and those on their way back, also when connections *)
(* come and go, and never falls below zero.                                *)
SignsCounted ==
    data.sign_request_count = Len(wal.q) + Queued({"SignedPset", "PsetSignFailed"})

(* The coins of an order are not used by another, while it is active or    *)
(* after it has succeeded, although the list of coins is that of some time *)
(* ago and still has those that were spent.                                *)
CoinsReserved ==
    \A i, j \in DOMAIN data.inputs :
       i /= j /\ data.orders[i] = "Active" /\ data.orders[j] \in {"Active", "Succeed"}
          => data.inputs[i] \cap data.inputs[j] = {}

(* At most one order of a key is confirmed to the clients and not failed,  *)
(* although orders of the same key may be submitted at the same time.      *)
OneOrderPerKey ==
    \A i, j \in DOMAIN data.orders :
       i /= j /\ The(i).key = The(j).key /\ The(i).key /= 0 /\ api[i] = "Ok" /\ api[j] = "Ok"
          => data.orders[i] = "Failed" \/ data.orders[j] = "Failed"

(* "duplicated order requested": no order of a key is confirmed when one   *)
(* that was confirmed before has been swapped, as long as no connection is *)
(* lost and nothing is refused.                                            *)
ConfirmsNewKeys ==
    \A i, j \in Ids :
       faults = 0 /\ i /= j /\ The(i).key = The(j).key /\ The(i).key /= 0
          /\ api[i] = "Ok" /\ i \in DOMAIN data.orders /\ Stage(i) = "done"
          => ~(api[j] = "waiting" /\ api'[j] = "Ok")
KeyUsedOnce == [][ConfirmsNewKeys]_vars

(* Every client of the API gets an answer, whatever is lost: there are     *)
(* always again times at which none is waiting.                            *)
AllAnswered == \A id \in Ids : api[id] /= "waiting"
RequestsAnswered == []<>AllAnswered

(* An order whose client was told that it failed does not stay open to     *)
(* takers: what cannot be cancelled at once, without a connection, is      *)
(* cancelled after the next login.                                         *)
FailedAreGone ==
    \A id \in Ids : api[id] \in {"NotInputs", "Duplicated", "Server"} => Stage(id) /= "ready"
FailedOrdersWithdrawn == []<>FailedAreGone
=============================================================================
