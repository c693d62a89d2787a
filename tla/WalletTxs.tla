----------------------------- MODULE WalletTxs -----------------------------
(***************************************************************************)
(* The wallet side of the client worker (sideswap_client/src/worker.rs):   *)
(* the list of transactions shown to the user, which is kept in step with  *)
(* the wallet by its notifications; sending transactions and accepting     *)
(* swaps, whose success is reported when the transaction is seen in the    *)
(* list; login, logout and change of network.  The worker is composed with *)
(* the wallet library (GDK, external) and the user interface.  One account *)
(* is modelled; a call of the library or of a web page is part of a step.  *)
(***************************************************************************)
EXTENDS Integers, Sequences, FiniteSets, TLC

CONSTANTS
    Setups,     \* [ops, budget, top]: what happens besides notifications, how many
                \*   times at most, and up to which block
    ConfCount   \* TX_CONF_COUNT_LIQUID

VARIABLES
    w,       \* the worker's fields
    q,       \* the notifications on their way to the worker
    gdk,     \* the wallet: session, top block, transactions (height, or 0), what was notified
    ui,      \* the user interface: the list, what it waits for, for which
             \*   transaction, and was that one sent before
    n        \* bounds: the setup, operations done, transactions made

vars == <<w, q, gdk, ui, n>>

None == 0
NoTxs == [t \in {} |-> 0]

Fresh ==
    [wallet |-> FALSE, sync_complete |-> FALSE, wallet_loaded_sent |-> FALSE, last_block |-> 0,
     confirmed_txids |-> {}, unconfirmed_txids |-> {}, unsigned_tx |-> None,
     sent_txhash |-> None, succeed_swap |-> None]

Init ==
    /\ w = Fresh
    /\ q = <<>>
    /\ gdk = [session |-> "none", top |-> 1, txs |-> NoTxs, block |-> 0, changed |-> FALSE, synced |-> FALSE]
    /\ ui = [txs |-> NoTxs, waits |-> "login", tx |-> None, again |-> FALSE]
    /\ \E s \in Setups : n = [setup |-> s, ops |-> 0, ids |-> 0]

Does(op) ==
    /\ op \in n.setup.ops /\ n.ops < n.setup.budget
    /\ n' = [n EXCEPT !.ops = @ + 1]
NewTx == n.ids + 1
Makes(op) ==
    /\ op \in n.setup.ops /\ n.ops < n.setup.budget
    /\ n' = [n EXCEPT !.ops = @ + 1, !.ids = @ + 1]
Broadcast(g, t) == [g EXCEPT !.txs = (t :> 0) @@ @, !.changed = TRUE]
-----------------------------------------------------------------------------
confirmed_tx(tx_block, top_block) ==
    tx_block /= 0 /\ top_block /= 0 /\ tx_block <= top_block /\ top_block + 1 - tx_block >= ConfCount

(* Bug: the block of a transaction is never ahead of the top. *)
Bug_confs(block_height, top_block) ==
    IF confirmed_tx(block_height, top_block) THEN ConfCount
    ELSE IF block_height = 0 THEN 0 ELSE top_block + 1 - block_height

(* The number of confirmations that is shown; ConfCount stands for a       *)
(* transaction that is confirmed and shown without a number.  The wallet   *)
(* may report a transaction before the block it is in.                     *)
get_tx_item_confs(block_height, top_block) ==
    LET tx_block == IF block_height > top_block THEN 0 ELSE block_height
    IN  IF confirmed_tx(tx_block, top_block) THEN ConfCount
        ELSE IF tx_block = 0 THEN 0 ELSE top_block + 1 - tx_block

(* All transactions of the wallet, page by page; of one, its height.       *)
load_transactions == gdk.txs

(* Transactions that were confirmed are not looked at again; those that    *)
(* were not and are gone are taken off the list; the user is told of the   *)
(* transaction waited for.  s is the state of the worker and the           *)
(* interface while a handler runs.                                         *)
send_new_transactions(s) ==
    LET txs == load_transactions
        updated == {t \in DOMAIN txs : t \notin s.w.confirmed_txids}
        confs == [t \in updated |-> get_tx_item_confs(txs[t], s.w.last_block)]
        removed == s.w.unconfirmed_txids \ updated
        open == {t \in updated : confs[t] < ConfCount}
        reported == updated \cap {s.w.sent_txhash, s.w.succeed_swap}
        kept == [t \in DOMAIN s.ui.txs \ removed |-> s.ui.txs[t]]
    IN  [w |-> [s.w EXCEPT !.unconfirmed_txids = open, !.confirmed_txids = @ \cup (updated \ open),
                           !.sent_txhash = IF @ \in updated THEN None ELSE @,
                           !.succeed_swap = IF @ \in updated THEN None ELSE @],
         ui |-> [s.ui EXCEPT !.txs = confs @@ kept,
                             !.waits = IF reported /= {} THEN "none" ELSE @,
                             !.tx = IF reported /= {} THEN None ELSE @]]

(* Balances and coins go to the user too; the list needs a block.          *)
resync_wallet(s) == IF s.w.last_block /= 0 THEN send_new_transactions(s) ELSE s

send_wallet_loaded(s) == [s EXCEPT !.w.wallet_loaded_sent = TRUE]

sync_complete(s) ==
    resync_wallet(IF s.w.sync_complete THEN s
                  ELSE [send_wallet_loaded(s) EXCEPT !.w.sync_complete = TRUE])
-----------------------------------------------------------------------------
(* process_wallet_notif: the notifications name an account, not a session; *)
(* without a wallet they are ignored.                                      *)
S == [w |-> w, ui |-> ui]
Ends(s) == w' = s.w /\ ui' = s.ui
Notif(t) == q /= <<>> /\ Head(q).t = t /\ q' = Tail(q)

process_transaction ==
    /\ Notif("transaction")
    /\ Ends(IF w.wallet THEN resync_wallet(S) ELSE S)
    /\ UNCHANGED <<gdk, n>>

(* Bug: the list is left alone once a block is known. *)
Bug_process_block ==
    /\ Notif("block")
    /\ LET s == [S EXCEPT !.w.last_block = Head(q).height]
       IN  Ends(IF ~w.wallet THEN S ELSE IF w.last_block = 0 THEN resync_wallet(s) ELSE s)
    /\ UNCHANGED <<gdk, n>>

process_block ==
    /\ Notif("block")
    /\ LET s == [S EXCEPT !.w.last_block = Head(q).height]
       IN  Ends(IF ~w.wallet THEN S
                ELSE IF w.unconfirmed_txids /= {} \/ w.last_block = 0 THEN resync_wallet(s) ELSE s)
    /\ UNCHANGED <<gdk, n>>

process_synced ==
    /\ Notif("synced")
    /\ Ends(IF w.wallet THEN sync_complete(S) ELSE S)
    /\ UNCHANGED <<gdk, n>>

(* login fails when the session is not connected.                          *)
login == gdk.session \in {"connected", "open"} /\ gdk' = [gdk EXCEPT !.session = "open"]

(* The session is connected: login, which fails when the notification is   *)
(* of an earlier session and this one is not connected yet.                *)
process_network ==
    /\ Notif("network")
    /\ IF w.wallet /\ gdk.session \in {"connected", "open"}
       THEN login /\ Ends(resync_wallet(S))
       ELSE UNCHANGED <<w, ui, gdk>>
    /\ UNCHANGED n
-----------------------------------------------------------------------------
(* The requests of the user.  A new session connects by itself.            *)
start_processing == [gdk EXCEPT !.session = "connecting", !.block = 0, !.synced = FALSE, !.changed = FALSE]

process_login_request ==
    /\ ui.waits = "login"
    /\ gdk' = start_processing
    /\ Ends([send_wallet_loaded(S) EXCEPT !.w.wallet = TRUE, !.ui.waits = "none"])
    /\ UNCHANGED <<q, n>>

(* Bug: what the user waits for stays. *)
Bug_process_logout_request ==
    /\ ui.waits /= "login" /\ Does("logout")
    /\ gdk' = [gdk EXCEPT !.session = "none"]
    /\ w' = [w EXCEPT !.wallet = FALSE, !.sync_complete = FALSE, !.wallet_loaded_sent = FALSE,
                      !.confirmed_txids = {}, !.unconfirmed_txids = {}]
    /\ ui' = [txs |-> NoTxs, waits |-> "login", tx |-> None, again |-> FALSE]
    /\ UNCHANGED q

(* The wallet is dropped; last_blocks and unsigned_tx stay.                *)
process_logout_request ==
    /\ ui.waits /= "login" /\ Does("logout")
    /\ gdk' = [gdk EXCEPT !.session = "none"]
    /\ w' = [w EXCEPT !.wallet = FALSE, !.sync_complete = FALSE, !.wallet_loaded_sent = FALSE,
                      !.confirmed_txids = {}, !.unconfirmed_txids = {},
                      !.sent_txhash = None, !.succeed_swap = None]
    /\ ui' = [txs |-> NoTxs, waits |-> "login", tx |-> None, again |-> FALSE]
    /\ UNCHANGED q

(* A session with another server; when it cannot be started there is no    *)
(* wallet any more.                                                        *)
process_change_network ==
    /\ ui.waits /= "login" /\ Does("network")
    /\ IF w.wallet
       THEN \/ gdk' = start_processing /\ UNCHANGED w
            \/ gdk' = [gdk EXCEPT !.session = "none"] /\ w' = [w EXCEPT !.wallet = FALSE]
       ELSE UNCHANGED <<gdk, w>>
    /\ UNCHANGED <<q, ui>>

Usable == w.wallet /\ gdk.session = "open"

(* The unsigned transaction, when there are funds for it and its fee.      *)
try_create_tx(t) == Usable /\ w' = [w EXCEPT !.unsigned_tx = t]

process_create_tx ==
    /\ ui.waits = "none" /\ Makes("send")
    /\ \/ try_create_tx(NewTx) /\ ui' = [ui EXCEPT !.waits = "created"]
       \/ UNCHANGED <<w, ui>>
    /\ UNCHANGED <<q, gdk>>

(* Signs and sends it; sent again it is the same transaction.              *)
try_send_tx(t) ==
    /\ Usable /\ t /= None
    /\ gdk' = IF t \in DOMAIN gdk.txs THEN gdk ELSE Broadcast(gdk, t)

(* The transaction is sent, or the call fails, perhaps after it was sent;  *)
(* then it is kept for another try, but not when there is no wallet.       *)
process_send_tx ==
    /\ ui.waits = "created" /\ Does("send")
    /\ LET t == w.unsigned_tx
       IN  \/ /\ try_send_tx(t)
              /\ \/ /\ w' = [w EXCEPT !.unsigned_tx = None, !.sent_txhash = t]
                    /\ ui' = [ui EXCEPT !.waits = "send", !.tx = t, !.again = t \in DOMAIN gdk.txs]
                 \/ UNCHANGED <<w, ui>>
           \/ w.wallet /\ UNCHANGED <<w, ui, gdk>>
           \/ ~w.wallet /\ w' = [w EXCEPT !.unsigned_tx = None] /\ UNCHANGED <<ui, gdk>>
    /\ UNCHANGED q

(* Bug: a swap that is accepted is not waited for. *)
Bug_try_process_swap_accept(t) == w

(* process_swap_accept and process_send_payjoin: a transaction made with   *)
(* the help of a server.                                                   *)
try_process_swap_accept(t) == [w EXCEPT !.succeed_swap = t]
try_process_send_payjoin(t) == [w EXCEPT !.sent_txhash = t]

MadeWithServer(op, waiting) ==
    /\ ui.waits = "none" /\ Makes(op)
    /\ \/ /\ Usable /\ gdk' = Broadcast(gdk, NewTx)
          /\ \/ w' = waiting /\ ui' = [ui EXCEPT !.waits = op, !.tx = NewTx]
             \/ UNCHANGED <<w, ui>>
       \/ UNCHANGED <<gdk, w, ui>>
    /\ UNCHANGED q

process_swap_accept == MadeWithServer("accept", try_process_swap_accept(NewTx))
process_send_payjoin == MadeWithServer("payjoin", try_process_send_payjoin(NewTx))
-----------------------------------------------------------------------------
(* The wallet library.  Heights of transactions are visible at once, the   *)
(* notifications follow.                                                   *)
Posts(m) == q' = Append(q, m)

GdkConnects ==
    /\ gdk.session = "connecting"
    /\ gdk' = [gdk EXCEPT !.session = "connected"] /\ Posts([t |-> "network"])
    /\ UNCHANGED <<w, ui, n>>

GdkReconnects ==
    /\ gdk.session = "open" /\ Does("reconnect")
    /\ Posts([t |-> "network"])
    /\ UNCHANGED <<w, ui, gdk>>

GdkNotifies ==
    /\ gdk.session = "open"
    /\ \/ /\ gdk.block /= gdk.top
          /\ gdk' = [gdk EXCEPT !.block = gdk.top] /\ Posts([t |-> "block", height |-> gdk.top])
       \/ /\ gdk.changed
          /\ gdk' = [gdk EXCEPT !.changed = FALSE] /\ Posts([t |-> "transaction"])
       \/ /\ ~gdk.synced
          /\ gdk' = [gdk EXCEPT !.synced = TRUE] /\ Posts([t |-> "synced"])
    /\ UNCHANGED <<w, ui, n>>

Mine ==
    /\ gdk.top < n.setup.top
    /\ \E in \in SUBSET {t \in DOMAIN gdk.txs : gdk.txs[t] = 0} :
          gdk' = [gdk EXCEPT !.top = @ + 1,
                             !.txs = [t \in DOMAIN @ |-> IF t \in in THEN gdk.top + 1 ELSE @[t]]]
    /\ UNCHANGED <<w, q, ui, n>>

Receive ==
    /\ Makes("receive")
    /\ gdk' = Broadcast(gdk, NewTx)
    /\ UNCHANGED <<w, q, ui>>

Evict ==
    /\ Does("evict")
    /\ \E t \in DOMAIN gdk.txs :
          /\ gdk.txs[t] = 0
          /\ gdk' = [gdk EXCEPT !.txs = [x \in DOMAIN @ \ {t} |-> @[x]], !.changed = TRUE]
    /\ UNCHANGED <<w, q, ui>>
-----------------------------------------------------------------------------
Worker == process_transaction \/ process_block \/ process_synced \/ process_network
Library == GdkConnects \/ GdkNotifies
User ==
    \/ process_login_request \/ process_logout_request \/ process_change_network \/ process_create_tx
    \/ process_send_tx \/ process_swap_accept \/ process_send_payjoin
Next == Worker \/ Library \/ User \/ GdkReconnects \/ Mine \/ Receive \/ Evict

Spec == Init /\ [][Next]_vars
LiveSpec == Spec /\ WF_vars(Worker) /\ WF_vars(Library)
-----------------------------------------------------------------------------
(* The shape of the state.                                                 *)
TypeOK ==
    /\ w.confirmed_txids \cap w.unconfirmed_txids = {}
    /\ gdk.session \in {"none", "connecting", "connected", "open"}
    /\ \A t \in DOMAIN ui.txs : ui.txs[t] \in 0..ConfCount
    /\ ui.waits \in {"login", "none", "created", "send", "accept", "payjoin"}

Quiet == q = <<>> /\ gdk.session = "open" /\ gdk.block = gdk.top /\ ~gdk.changed /\ gdk.synced

(* When all notifications have been handled, the user sees the wallet's    *)
(* transactions, all of them, with the confirmations they have, although   *)
(* a new block does not always load the list and confirmed transactions    *)
(* are not loaded again.                                                   *)
ListIsCurrent ==
    Quiet => ui.txs = [t \in DOMAIN gdk.txs |-> get_tx_item_confs(gdk.txs[t], gdk.top)]

(* What the worker waits for in the list is the transaction the user waits *)
(* for: a report is never about another.                                   *)
ReportIsOwn ==
    /\ w.sent_txhash /= None => ui.waits \in {"send", "payjoin"} /\ ui.tx = w.sent_txhash
    /\ w.succeed_swap /= None => ui.waits = "accept" /\ ui.tx = w.succeed_swap

(* The user is told in the end of the transaction that was made, unless    *)
(* it is gone, there is no wallet any more, or an earlier try had sent it. *)
SendReported ==
    ui.waits \in {"send", "payjoin", "accept"} => ui.tx \notin DOMAIN gdk.txs \/ ~w.wallet \/ ui.again
SendsReported == []<>SendReported
=============================================================================
