# A TLA+ model of the SideSwap client and its dealers

SideSwap is a marketplace for assets of the Liquid network. This repository
holds its wallet application (a Flutter program around a Rust library), the
programs a market maker runs, and a server without a screen that swaps for
clients of an HTTP interface. The modules here model the parts in which several
threads, a server, a user, an exchange, a hardware wallet and a disk have to
agree, check them with TLC on small instances, and prove the central ones with
TLAPS for every instance.

## The system and its parts

| part | source | modelled in |
|------|--------|-------------|
| web-socket thread of the client | `sideswap_common/src/ws/manual.rs` | `WsManual` |
| worker: connection, login, device key, addresses | `sideswap_client/src/worker.rs`, `settings.rs` | `ClientConn` |
| worker: order list | `worker.rs` | `OrderList` |
| worker: submit, review and sign orders | `worker.rs`, `lib/providers/wallet.dart` | `OrderSign` |
| worker: coins of an order | `worker.rs`, `sideswap_common/src/types.rs` | `Coins` |
| worker: AMP session | `worker.rs` | `AmpConn` |
| worker: pegs and instant swaps | `worker.rs` | `PegSwap` |
| worker: wallet and transactions | `worker.rs`, `gdk_ses_impl.rs` | `WalletTxs` |
| Jade hardware wallet | `sideswap_jade`, `jade_mng.rs`, `gdk_ses_impl.rs` | `Jade` |
| payjoin | `sideswap_payjoin`, `gdk_ses_impl.rs` | `Payjoin` |
| amounts and fees | `types.rs`, `sideswap_payjoin` | `Amounts` |
| reconnecting web-socket thread | `sideswap_common/src/ws/auto.rs` | `WsAuto` |
| dealer library | `sideswap_dealer/src/dealer.rs` | `Dealer` |
| Bitfinex dealer: main loop, swaps, hedging | `sideswap_dealer_bitfinex/src/main.rs`, `module.rs` | `BfxMain` |
| Bitfinex dealer: what to move | `balancing.rs`, `main.rs` | `BfxRatio` |
| Bitfinex dealer: moving it | `balancing.rs`, `main.rs`, `module.rs`, `storage.rs`, `go/sideswap.io/proxy_bitfinex/main.go` | `BfxBalancing` |
| headless server | `sideswap_headless_server` | `HeadlessServer` |
| prices and market data, FFI, PIN, API types, Flutter screens, `gdk_rust` | | not modelled, see the end |

The client has one worker thread that owns all state and reads one message at a
time from a single queue: requests of the user interface, messages of the
web-socket thread, notifications of the wallet, timers. Within a handler it may
*block* on a request to the server (`send_request`), during which it reads
nothing else while everybody else goes on. Most of what can go wrong comes from
that: what the worker is about to handle describes a world that has moved on.
The dealer library and the Bitfinex dealer are loops of the same kind. The
latter talks through a module thread to a proxy written in Go, linked into the
same process, which talks to the exchange. The headless server makes its
requests asynchronously instead, with callbacks.

## Modules

**WsManual** (`ws/manual.rs`). The thread waits for a `Connect` ("idle"), opens a
connection ("connecting") or serves one ("connected"); requests arrive in a
channel, reports and replies leave in two. While idle it drops everything but
`Connect`; while connecting it reads nothing, so a request that timed out long ago
is sent on the next connection. After a loss it reports `Disconnected` and never
reconnects by itself. The growing pause between attempts is abstracted away. A
stream that ends without an error is a panic (`manual.rs:141`), which aborts the
process: for ClientConn a restart.

**ClientConn** instantiates WsManual and adds the worker and a server.
`process_ws_connected` starts a chain of blocking requests (`LoginClient`,
`Assets`, `AmpAssets`, `ServerStatus`, `VerifyDevice` or `RegisterDevice`,
`Login`); `call` and `callId` say which one the worker waits for, and
`HandshakeContinues`, `HandshakeSucceeds`, `CallRefused`, `CallTimeout` and
`DiscardOldResponse` are the ways a wait goes on. Login, logout, change of
network, push token, the Ping of `check_ws_connection` and the wallet's used
addresses are handlers of a worker that does not wait. `settings` holds what is
saved: wallet, device key, numbers of registered addresses. A restart keeps
`settings` and nothing else. `asyncReqs` are the closures of `make_async_request`;
they carry the values the closure captured.

**OrderList** is `orders_last`, the list the worker keeps, and `orders_sent`, what
the user interface was told. The actions are the handlers of subscriptions,
notifications, login and loss, each with its `sync_order_list`. A connection is
two FIFO queues; the server, modelled from its use, reports the own orders and
those of the markets subscribed to. The asset registry may fail
(`try_add_asset`), hence the choice in `AddOrders`. `restart_websocket`, called
after a failed ping, a failed login and a logout, clears `connected`, leaves the
list where it is and asks the thread to close; until the thread's report of the
loss is read the user sees the old list, and its messages are still handled. Left
out: a logout while the client is not connected, and that a logout forgets
`session_id`, so that the orders made before it are own no more.

**OrderSign** follows an order from the user's click to the signature. The steps
of `process_pending_requests` are actions in the order of its loops (`pc`), since
a request to the server in one of them may fail; nothing else is handled until
it is done. The *price* stands for the terms: `verify_amounts` makes the amounts
and the fee a function of it, and 0 stands for terms it refuses. The server is
loose: it may ask for a signature at any price, with a transaction of any price,
repeatedly, by notification or push message. The user clicks, edits, decides on
the review shown, logs out. `agreed`, `terms` and `autoOn` remember what the user
has consented to; the program does not have them.

**Coins** chooses the coins of an order: the amount entered, the whole balance
(which stands for what it can pay for together with the fee), the coins no other
order has, and the greedy `select_utxo` with the loop that drops spare coins.

**AmpConn** is the session of the AMP account: hints to connect or disconnect,
the library's reports of its link, logins, and the queues of requests that
`process_pending_requests` holds back until the session is there.

**PegSwap** has peg-outs, peg-ins and instant swaps of the worker with the
settings file. A blocking request is one step with the outcomes answered,
refused, and timed out with or without effect at the server, because nothing
else the worker does can happen in between. The program may be killed between
any two steps and starts again from the file. A logout forgets the pegs, in the
file too, and the active swap, and has the connection closed, while what the
server sent before is still read; the next handshake stands for the next login.

**WalletTxs** keeps the list of transactions in step with the wallet library:
notifications of blocks and transactions, `resync_wallet` with the sets of
confirmed and unconfirmed transactions, sending, accepting a swap and payjoins,
whose success is reported when the transaction turns up in the list. Login,
logout and change of network happen in between. One account is modelled.

**Jade** joins five actors: an operation of the client, the managed handle, the
worker thread of a handle, its serial port, and the device with its user. The
client takes what comes next out of a channel for the answer, by its kind
alone; the worker of the handle matches by request numbers, which start anew
with each handle. An operation is the sequence of requests it makes (`Body`).
Operations of a session share one managed handle and its channel; a port scan and
the first login of a wallet (`try_register`, after a logout) each have their own,
dropped at their end.

**Payjoin** makes the transaction of `create_payjoin`, has the server sign, and
joins the signatures when the user agrees. **Amounts** holds the arithmetic of
fees. Where the code computes in floating point and a product lies halfway
between two integers, the constant `TiesDown` says for which amounts the product
falls just below the half; elsewhere the rounding is exact.

**WsAuto** is the thread that reconnects for ever. Requests made meanwhile wait
in its channel and are written to the next connection.

**Dealer** composes WsAuto with the worker of the dealer library, a server and
the node's wallet: own orders made from prices and limits, edits and
cancellations, orders of others that are taken, signing and completion. A
handler that makes blocking requests is a `job` with the requests still to make;
a request that is not answered in thirty seconds is a panic, after which the
process starts again.

**BfxMain** composes WsAuto with the main loop of the Bitfinex dealer, the
module thread, the proxy and the dealer library: prices passed on, offers,
instant swaps, hedge orders and their expiry, restarts.

**BfxRatio** is `get_balancing` as an operator, with the values of the assets in
one currency, and a machine that carries out every suggestion.

**BfxBalancing** is the state machine of a transfer. `saving` separates a change
of the storage from the write to disk, so that a kill can fall between. Requests
pass through the module thread's queue to the proxy, which runs each one in a
goroutine; replies overtake each other and are lost with the connection. `ledger`
holds the payments between wallet and exchange, `lbtc` the L-BTC on the exchange,
`known` the balance last read by the main loop. `cuts` counts the kills between a
change and its save; `misread` remembers that L-BTC was converted or withdrawn on
an outdated balance (`known` is not what the exchange has, or a report of another
balance is still to be read) before the first such kill. The program has neither.

**HeadlessServer** has the requests of the HTTP interface, the worker with its
callbacks, the wallet thread that finds coins and signs, the web-socket thread
and the SideSwap server.

The modules `MC...` give values to constants and state what is checked; where
several small parts share a run (`MCClient`, `MCServices`, `MCOrders`), the
variable `part` is chosen in the beginning and says which one a behaviour is of.
They then share variables, renamed by `INSTANCE ... WITH`, and a property reads
`part = "x" => ...`. The modules `...Proofs` hold the proofs. Definitions whose name begins with `Bug_` are faulty variants of the
definition that follows them; each shows that some property notices the fault,
and none is used by a specification.

## Runs

| run | instance | distinct states | properties |
|-----|----------|-----------------|------------|
| client | connection: 2 wallets, 3 requests of the UI, 1 fault; transactions: 2 or 3 operations, 3 blocks; pegs and swaps: 2 to 5 operations, 1 to 3 faults, logouts; AMP: 3 requests, 2 faults; coins: up to 4 coins, and balances at the steps of the fee; payjoins: up to 3 coins a side | 642 thousand | `ClientTypeOK`, `ConnInv`, `RegisteredAreKnown`, `KnownKeyIsKept`, `ConnSettles`, `TxsListIsCurrent`, `TxsSendsReported`, `PegPaidPegsKept`, `PegPaysAsAgreed`, `PegWaitsEnd`, `AmpRequestsServed`, `CoinsPayForOrders`, `PayjoinAsShown` |
| orders | list: 3 orders, 2 changes, 2 selections, 1 loss, failed ping, logout or failed login; reviews: 2 orders, 2 clicks, 3 notifications, 1 loss | 398 thousand | `ListIsShown`, `Converged`, `ListReturns`, `ReviewsSettle` |
| order_list_tokens | the same list | (violated) | `UnsubscribeEmpties` |
| sign | a maker's and a taker's order, good and bad terms, 1 failure, 1 logout; or 1 index order, 3 prices, 1 failure, 1 restart | 3.2 million | `SignedAsAgreed`, `SignedOnce`, `PromptsWaitForReview` |
| sign_relink | 1 taker's order opened twice | (violated) | `TakerReviewed` |
| jade | 3 operations of six kinds or port scans, 2 handles, 1 fault | 906 thousand | `AnswersAreOwn`, `DialogsUndisturbed`, `OperationsSettle` |
| dealer | a maker with and without a price, a taker; 2 orders, 1 fault | 576 thousand | `CallsAreOwn`, `KnownOrderIsLive`, `SwapsReported`, `OffersOnce`, `DealerSettles` |
| services | ratio: four balances of 0 to 10, minimum 2; main loop: 1 or 2 swaps, 1 fault; headless: 2 requests with one key or none, 1 or 2 coins, up to 2 faults | 0.9 million | `RatioInv`, `RestIsBalanced`, `MainKnowsThePresent`, `MainSwapsHedged`, `MainModuleRecovers`, `HeadlessPromisesOnce`, `HeadlessSettles` |
| headless_keys | 2 requests with one key, the server removes orders | (violated) | `KeyUsedOnce` |
| bfx_sequence | 2 transfers, 1 lost connection | 5.8 million | `TypeOK`, `CompleteIsReal`, `WithdrawReplyIsOwn` |
| bfx_crash | 1 transfer, 2 kills, 1 lost connection | 3.7 million | `NothingPaidTwice` |
| bfx_liveness | 2 transfers | 1.1 million | `TransferSettles` |

What they show, and why the bounds are enough:

* *Connection.* The interesting cases are short: a logout or login around a
  loss, a timeout with a late answer, a restart between registering a device and
  its addresses. They need two or three requests and one fault. Safety is proved
  without bounds anyway.
* *Transactions.* `TxsListIsCurrent` is about quiet states: once the
  notifications are handled the list is the wallet's. A block that overtakes a
  transaction takes two operations and three blocks. `TxsSendsReported` takes a
  send with a logout, a failed change of network, a second try or an eviction
  around it. A transaction that was mined stays mined: reorganisations of the
  chain are not modelled.
* *Pegs and swaps.* A kill or loss between quote, request, save and payment takes
  one operation and one fault; the second fault falls into the recovery.
  `PegPaidPegsKept` is about the pegs made since the last logout.
  `PegPaysAsAgreed` takes a swap that timed out at the client, goes on at the
  server, and a second one beside it, or a logout while the dealer's transaction
  is on its way. `PegWaitsEnd` is about behaviours without a
  fault: when the report of the end is lost with its connection the code has no
  way to ask again.
* *AMP.* Three requests fill each queue, or one queue with both kinds of orders;
  a login that is refused while the link is up is not repeated by the code, and
  `AmpRequestsServed` says so.
* *Coins and payjoins.* Pure computations over all small wallets; the balances
  lie around the amounts at which the fee changes by a satoshi and at which the
  floating-point product falls below a half.
* *Order list.* `Converged` is a statement about quiet states. Deselecting and
  selecting a market while its replies are under way takes two selections; an
  update that is overtaken takes two changes. `ListIsShown` says that the user sees
  the worker's list and that orders are there only while the connection they came
  from is up or the report of its loss is still to be read; `ListReturns` says
  that the list becomes, and stays, the right one in the end.
* *Signing.* `SignedAsAgreed` compares each signature with everything the user
  consented to; three prices give one inside and one outside the 10 per cent an
  index order may move. `SignedOnce` takes two requests for one order.
  `PromptsWaitForReview` takes an order on the screen while a sign request for another
  one arrives; a prompt that waits when an order is removed takes three
  notifications, as in `ReviewsSettle`.
* *Jade.* A late answer takes an operation that was given up and the next one;
  the third is the one that could meet it after a new handle was opened.
  `AnswersAreOwn` and `DialogsUndisturbed` name the cases in which the code's
  precautions do not reach. The first leaves out operations that took a late
  status of an earlier operation for their own (`c.own`), since then nothing has
  made sure that the device is done with the earlier requests, and what follows a
  garbled message. The second is about unlocking dialogs only, and not after a
  failed HTTP request or a garbled message.
* *Dealer.* A reply that is counted for another request, an order that is
  forgotten while it is live, and a second order of a side each take one loss,
  refusal or timeout around a request. The two orders are an own order and its
  successor. `KnownOrderIsLive` is about the orders the dealer knows. That it has
  no others (`OneOpenOrder`) is claimed only while the server refuses nothing: an
  order whose `PsetMaker` was refused is forgotten by the code.
* *Main loop.* `MainSwapsHedged` allows for swaps whose report was lost with the
  connection or the process: the code cannot know of them.
* *Headless server.* Two requests with one key, or with coins that overlap, in
  all interleavings with the wallet thread and the server. That a key is not used
  again after its swap is false of the code (`headless_keys`, below).
* *Transfers.* The reply to a withdrawal names no transfer; two transfers in a
  row with a lost connection show that it still arrives at its own one, because
  a failed transfer stays until the operator removes it. Two kills are the least
  that could repeat a payment twice. `CompleteIsReal` and the part of
  `NothingPaidTwice` on L-BTC leave out behaviours with `misread`, and have to:
  the main loop trusts the balance it read last, whenever that was. A deposit
  made while the balance of an earlier transfer is still believed is "converted"
  before it arrives; the late report of zero then completes the transfer before
  the request is even executed, and the L-BTC arrives later. A third transfer that
  is killed between its withdrawal and the save finds it there and withdraws
  again. TLC produces this with a withdrawal, a deposit and a withdrawal of L-BTC
  and one kill. In `bfx_crash` `misread` is never true, since
  there is no earlier transfer.

Properties that join several statements of a module (`ConnSettles`,
`PegPaidPegsKept`, `CoinsPayForOrders`, `OffersOnce` and others) name the
statements; each is defined and explained in the module it is about.

### Disagreements found

* `order_list_tokens`: the comment at `worker.rs:2171` says that orders of the
  market just unsubscribed from are removed. For the token market they are not:
  `add_order` registers the asset before it asks whether the asset is known, so
  `token_market` is false for every asset of the registry.
* `sign_relink`: the comment at `worker.rs:2887` says that a taker's price "was
  already reviewed earlier (and can't change since that)". When the order is
  opened a second time before the decision on the first review is read, the
  second answer replaces the first under the same order id, and the decision
  takes the order at a price the user did not see when deciding. The other runs
  of `OrderSign` set `Relinks = FALSE`, which excludes just this.
* `headless_keys`: the condition of the handler of `OrderRemoved`
  (`sideswap_headless_server/src/worker.rs:403`) is inverted. An order that has
  succeeded becomes failed when the server removes it, and its key is accepted
  for another order, against the check at `worker.rs:262`. In the run `services`
  requests that share a key are not combined with removals.

### Fairness

Threads are scheduled by the operating system: workers, web-socket threads, main
loop, module thread, wallet thread, serial port threads and proxy are weakly
fair. Connection attempts succeed in the end (the threads retry for ever), and
the servers and the wallet library answer; losses, refusals and timeouts of
answerable requests are faults, of which there are finitely many. `OrderSign`
assumes a user who decides on the review shown, the order list one who logs in
again after a logout. `Jade` assumes nothing of the
device or its user: every wait of the client has a timeout. `Dealer` assumes that
swaps end, that the timer ticks, and strong fairness for the timer's turn with a
price edit due, which comes back every five seconds. `BfxBalancing`
assumes that the exchange confirms payments and pushes balances, and strong
fairness for loading movements, which the timer repeats every minute. In the
merged runs one fairness condition covers the corresponding threads of the
parts, which is the same since a behaviour is of one part. Nobody else is assumed to
start anything.

`CHECK_DEADLOCK FALSE` is set because all bounded instances end when the bounds
are used up, and because a failed transfer really stays where it is.

## Proofs

`ClientConnProofs`, from `ConnAssumption` alone (any sets of wallets, any chains,
any bounds):

* `TypeCorrect`: `Spec => []TypeOK`, one step per action. `TypeOK` is inductive.
* `ConnCorrect`: `Spec => []ConnInv`. None of the properties is inductive by
  itself: whether a handler finds a clean state depends on the order of reports
  in the queue. `ConnInv` adds that reports alternate (between two `Connected`
  there is a `Disconnected`), that every queued `Connected` is followed by its
  `Disconnected` unless the connection is still open, and that a worker that
  holds anything of a connection reads a `Disconnected` before the next
  `Connected`. Lemmas say what appending to and taking from the queue does to
  these three; then there is one lemma per action.
* `NeverLostReconnect`, `AlwaysHonest`, `CallbacksNotForgotten`,
  `HandshakesStartClean`, `LogoutGoesOffline` follow from it.

`ClientKeyProofs` builds on it, with the same assumption:

* `KeyCorrect`: `Spec => []KeyInv`. A registration is right if the reply is that
  to the request, and if key and wallet are still those it was made for when the
  reply is read. `KeyInv` says so for every place a request or reply can be in:
  the numbers of requests and the device keys still to be given out are new, a
  reply on its way answers the request of the closure with its number, a closure
  holds the key and the wallet of its request, and the counters of the settings
  (and of the closures) are covered by what the server has.
* `AlwaysRegisteredKnown` and `KnownKeyAlwaysKept` follow: `RegisteredAreKnown` as
  an invariant, `KnownKeyIsKept` as a property of every step, one case per handler.

`OrderSignAgreedProofs` builds on `OrderSignProofs`. They assume `SignAssumption` (any
orders, prices and bounds; `None` is neither an order nor a request):

* `TypeCorrect`: `Spec => []TypeOK`, inductive by itself.
* `PromptsNeverStuck`: `Spec => []PromptsWaitForReview`, inductive with `TypeOK`.
  The steps that matter are those that end a review.
* `AlwaysSignedOnce`: `Spec => []SignedOnce`. Not inductive: a prompt that waits,
  or a review that is open, for an order already signed would sign it again.
  `OnceInv` adds that an order that is not in `processed_signs`, or whose prompt
  waits, or which is under review has no signature, and that no prompt is queued
  twice.
* `AlwaysAsAgreed`: `Spec => []SignedAsAgreed`, assuming `~Relinks`. `AgreedInv`
  follows a price from the place where the user consents to it to the place where
  it is signed: what `submit_data` holds was accepted or is going to be reviewed,
  the user interface shows what the worker believes it shows, and a decision on
  its way is about the review the worker takes it for. The last of these is false
  when an order is opened again while it is being opened; `sign_relink` is the
  counterexample, so the hypothesis cannot be dropped. There is one lemma per
  action of the worker, the server and the user.

`OrderListProofs`, from `OrderListAssumption` (any orders and bounds, finitely
many markets; the token market is not an asset):

* `AlwaysShown`: `Spec => []ListIsShown`. `sync_order_list` makes the list of the
  user interface the worker's whatever it showed before (`SyncShows`); that no
  list outlives its connection needs `ShapeInv`, which tells from the link, the
  login and the two queues how far the connection is: idle with its loss still to
  be read, connecting, open before the login, logged in, or closing, with a
  `Disconnect` on its way to the thread.
* `AlwaysConverges`: `Spec => []Converged`. `Converged` is about quiet states and
  says nothing of the steps that lead there. `ConvergeInv` adds: of the messages
  under way that say anything of an order the last one tells what the server has,
  and if there is none the list (or the answer to the login) does; of the requests
  under way for a market the last one is the user's selection, and if there is
  none the server reports on the market just when it is selected. Both parts are
  stated with the index of the last message, so that appending to and taking from
  a queue moves one case to the next, and no induction over queues is needed.

`ArithmeticProofs`, from `RatioAssumption` (a positive minimum): `RatioCorrect`
proves `RatioInv` inductive. After the smaller asset was moved it is within one
unit of one half, and so inside its range; moving the bigger asset to mirror it
leaves nothing to suggest. `AlwaysAffordable`, `ComesToRest` and `RestCovers`
follow. `Init` bounds the balances by `MaxValue`, of which the proof uses only
that it is a number.

The same module, for every balance and every set `TiesDown`: the fee grows by at
most one with each satoshi (`ServerFeeGrows`), hence the first estimate of
`get_max_bitcoin_amount` is off by at most one (`EstimateIsClose`), and the
correction of the code makes the amount affordable (`MaxAmountAffordable`) and
the largest such (`MaxAmountIsMax`). `PayjoinFeeIsBounded`: the fee of a payjoin
made with fewer inputs than were reckoned with is at most the one shown, so the
unsigned subtractions of `construct_pset` do not wrap around.

`BfxBalancingProofs` and `BfxTransferProofs`, for any number of transfers, kills,
lost connections and waiting reports:

* `BalancingCorrect`: `Spec => [](TypeOK /\ BalancingInv)`. Four parts hold
  always. `WithdrawInv`: one withdrawal at most is queued, executed or answered at
  a time, and it is for the active transfer. `LedgerInv`: payments are numbered.
  `MemoryInv`: what is stored is what is in memory unless a save is due. `PaidInv`:
  a transfer that is still to pay, by its state or by a request not yet executed,
  has paid at most `cuts` times. The rest holds as long as nothing went wrong that
  the code cannot know of. `ExactInv` (no cut, no misread balance) gives the L-BTC
  on the exchange and the payments made from the state of the transfer, and
  `FallbackInv` what a kill would fall back to; `DrainedInv` (one cut) takes over
  at the kill: a transfer that has withdrawn L-BTC and asks again gets nothing,
  since none is left and none can arrive.
* `WithdrawalsReachTheirTransfer` (`WithdrawReplyIsOwn`), `NothingIsPaidTwice`
  (`NothingPaidTwice`) and `CompletedTransfersAreReal` (`CompleteIsReal`) follow.

The lemmas of `BfxBalancingProofs` count payments and take the few facts about
finite sets they need as a hypothesis, `FiniteSizes`; `BfxTransferProofs` proves it
(`FiniteSizesHold`) from the library's theorems, so the theorems do not depend on
it. TLC finds `BalancingInv` true on the instances of `bfx_sequence` and
`bfx_crash`.

Model-checked only: liveness, which is outside the prover's reach; what
`select_utxo` computes, which is a recursion over data; and everything about the
modules `WalletTxs`, `PegSwap`, `AmpConn`, `Payjoin` (but for its fee), `Jade`,
`Dealer`, `BfxMain` and `HeadlessServer`, whose invariants (`TxsListIsCurrent`,
`PegPaidPegsKept`, `PegPaysAsAgreed`, `PayjoinAsShown`, `AnswersAreOwn`,
`DialogsUndisturbed`, `CallsAreOwn`, `KnownOrderIsLive`, `SwapsReported`,
`OffersOnce`, `MainKnowsThePresent`, `MainSwapsHedged`, `HeadlessPromisesOnce`)
have no proof yet.

## Not modelled

* *Two-step swaps* (their funding transactions) and `force_auto_sign_maker`.
* *Prices, market data, asset registry, messages* of the worker: passed through
  to the user interface, with no state of their own. The book of the Bitfinex
  proxy is an input.
* *Wallet sessions* beyond what is named above: conversions and calls of a C
  library; `gdk_rust` is vendored. The pair of sessions in `gdk_ses_jade.rs`, one
  that watches the wallet and one that is logged in to when the device has to
  sign, is one session here; Bluetooth and the encoding of the Jade's messages are
  left out.
* *Cryptography*: blinding, signatures and their verification are model values.
* *FFI, PIN, environment, API and value types*: conversions and constants.
* *Flutter*: screens; the one piece of its state the worker depends on, the
  review being shown, is in `OrderSign`.
* *Dealer programs* (`sideswap_dealer_example`, `sideswap_dealer_ws`,
  `sideswap_headless`, `sideswap_headless_trader`): they pass messages on.
* *Real time*: a timeout may happen whenever the code waits, so a link slower
  than the five-second timeout of requests, on which the client would reconnect
  for ever, is outside the model; so are two hedge orders of one millisecond,
  which would share their number at the exchange.
* *A stream that ends without an error*: for the proxy `module.rs:60` returns
  without a report; for the dealers' connection `auto.rs:77` panics, which aborts
  the Bitfinex dealer (a restart) but only ends the thread in a program without a
  panic hook. Whether the library can end a stream that way is not in the source.
* *Things the code does not attempt*, for which no property is stated: a late
  failure of a conversion is credited to the next transfer (`balancing.rs:534`);
  a list of transactions that fails to load is not loaded again until the next
  notification (`worker.rs:843`); a sign request that failed once is not tried
  again (`worker.rs:2861`); a logout leaves the visible review of the old session
  (`worker.rs:2031`); push messages of regular orders next to an AMP order make
  it run without the AMP session (`worker.rs:3679`).
