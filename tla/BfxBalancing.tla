---------------------------- MODULE BfxBalancing ----------------------------
(***************************************************************************)
(* A transfer of the Bitfinex dealer between its wallet and the exchange   *)
(* (balancing.rs, main.rs), from the decision to its completion, across    *)
(* the module thread (module.rs), the proxy (proxy_bitfinex/main.go) and   *)
(* the exchange.  Four kinds of transfer share one state machine that is   *)
(* saved to disk after every step:                                         *)
(*                                                                         *)
(*   SendUsdt  pay to the exchange, wait for the movement                  *)
(*   RecvUsdt  ask for a withdrawal, wait for its id and for the movement  *)
(*   SendBtc   pay L-BTC to the exchange, convert it to BTC there          *)
(*   RecvBtc   convert BTC to L-BTC there, then withdraw it                *)
(*                                                                         *)
(* Every transfer is of Amount.  Of the balances only L-BTC on the         *)
(* exchange is kept: it is zero except during a transfer, and its reported *)
(* value drives the state machine.  Whether another balance is large       *)
(* enough is left open.                                                    *)
(***************************************************************************)
EXTENDS Naturals, Sequences, FiniteSets

CONSTANTS
    MaxTransfers,   \* bound: transfers started
    MaxKills,       \* bound: times the process is killed
    MaxLosses,      \* bound: times the connection to the proxy is lost
    MaxReports      \* bound: reports of the exchange waiting to be read

ASSUME BalancingAssumption ==
    {MaxTransfers, MaxKills, MaxLosses, MaxReports} \subseteq Nat

VARIABLES
    balancing,          \* storage.balancing
    stored,             \* the storage file
    saving,             \* storage changed and not yet saved
    module_connected,   \* what the main loop knows of the connection
    known,              \* exchange_balances[L-BTC]: {} or {balance}
    movements,          \* the previous Movements reply: {} or {reply}
    up,                 \* the connection of the module thread is open
    requests,           \* requests queued to the module thread
    running,            \* requests being executed by the proxy
    inbox,              \* messages of the module thread to the main loop
    reported,           \* the balance last pushed by the exchange
    lbtc,               \* the L-BTC balance on the exchange
    ledger,             \* payments to and from the exchange
    started,            \* transfers started so far
    kills, losses,      \* faults so far
    cuts,               \* kills between a change of storage and its save
    misread             \* L-BTC was asked for on an outdated balance, with no change lost yet

main == <<balancing, saving, module_connected, known, movements>>
link == <<up, requests, running, reported>>
exchange == <<lbtc, ledger>>
ghosts == <<started, kills, losses, cuts, misread>>
vars == <<main, stored, link, inbox, exchange, ghosts>>

Amount == 1

TransferState ==
    {"SendUsdtNew", "SendUsdtWaitConfirm",
     "RecvUsdtNew", "RecvUsdtWaitWithdrawId", "RecvUsdtWaitConfirm",
     "SendBtcNew", "SendBtcWaitLbtcBalance", "SendBtcWaitConfirm",
     "RecvBtcNew", "RecvBtcWaitLbtcBalance", "RecvBtcWaitWithdrawId",
     "RecvBtcWaitConfirm", "Complete", "Failed"}

(* storage.balancing = None, and a new transfer.  The number tells apart   *)
(* the transfers; the code has nothing like it.  0 stands for no id.       *)
NoTransfer == [no |-> 0, state |-> "None", txid |-> 0, withdraw_id |-> 0]
New(no, state) == [no |-> no, state |-> state, txid |-> 0, withdraw_id |-> 0]

Movement == [id : Nat, no : Nat, asset : {"usdt", "lbtc"}, in : BOOLEAN, done : BOOLEAN]

(* A request, its execution, and the reply all carry the transfer they are *)
(* made for; the main loop does not see it.                                *)
RequestType == {"WithdrawUsdt", "WithdrawLbtc", "TransferToBtc", "TransferToLbtc", "Movements"}
Request(type) == [type |-> type, no |-> balancing.no]
Msg(type, no, value, seen) == [type |-> type, no |-> no, value |-> value, seen |-> seen]

Init ==
    /\ balancing = NoTransfer /\ stored = NoTransfer /\ saving = FALSE
    /\ module_connected = FALSE /\ known = {} /\ movements = {}
    /\ up = FALSE /\ requests = <<>> /\ running = {} /\ inbox = <<>>
    /\ reported = {}
    /\ lbtc = 0 /\ ledger = {}
    /\ started = 0 /\ kills = 0 /\ losses = 0 /\ cuts = 0 /\ misread = FALSE
-----------------------------------------------------------------------------
(* The main loop.  Every handler that changes storage ends with            *)
(* save_storage; a kill can fall between the change and the save.          *)
save_storage ==
    /\ saving
    /\ stored' = balancing
    /\ saving' = FALSE
    /\ UNCHANGED <<balancing, module_connected, known, movements, link, inbox,
                   exchange, ghosts>>

(* Bug: the state is changed in memory only. *)
Bug_not_saved(state) ==
    balancing' = [balancing EXCEPT !.state = state] /\ saving' = FALSE

(* Bug: a failed transfer is forgotten. *)
Bug_failure_forgotten(state) ==
    /\ balancing' = IF state = "Failed" THEN NoTransfer
                    ELSE [balancing EXCEPT !.state = state]
    /\ saving' = TRUE

update_balancing_state(state) ==
    balancing' = [balancing EXCEPT !.state = state] /\ saving' = TRUE

(* Msg::Cli, sent by the timer or by the operator; refused when a transfer *)
(* is under way.                                                           *)
Cli(new_state) ==
    /\ ~saving /\ balancing = NoTransfer
    /\ started < MaxTransfers
    /\ started' = started + 1
    /\ balancing' = New(started + 1, new_state)
    /\ saving' = TRUE
    /\ movements' = {}
    /\ UNCHANGED <<stored, module_connected, known, link, inbox, exchange,
                   kills, losses, cuts, misread>>

Paid(asset, in) ==
    [id |-> Cardinality(ledger) + 1, no |-> balancing.no, asset |-> asset,
     in |-> in, done |-> FALSE]

(* The wallet's sendtoaddress.  An error is no proof that nothing was      *)
(* paid: the reply of the node may be lost.                                *)
Send(asset, next_state) ==
    /\ module_connected
    /\ LET payment == Paid(asset, TRUE)
       IN  \/ /\ ledger' = ledger \cup {payment}
              /\ balancing' = [balancing EXCEPT !.txid = payment.id, !.state = next_state]
              /\ saving' = TRUE
           \/ /\ ledger' \in {ledger, ledger \cup {payment}}
              /\ update_balancing_state("Failed")
    /\ UNCHANGED <<requests, misread>>

(* send_msg to the module thread, whatever becomes of the request.         *)
Ask(type, next_state) ==
    /\ module_connected
    /\ requests' = Append(requests, Request(type))
    /\ update_balancing_state(next_state)
    /\ UNCHANGED ledger

(* The main loop acts on a balance that is not the present one, or a       *)
(* report of another one is still on its way to it.                        *)
Outdated ==
    \/ known /= {lbtc}
    \/ \E i \in DOMAIN inbox : inbox[i].type = "WalletUpdate" /\ inbox[i].value /= lbtc

(* Convert or withdraw L-BTC once the whole amount is reported.            *)
AskWithLbtc(type, next_state) ==
    /\ Amount \in known
    /\ misread' = (misread \/ (cuts = 0 /\ Outdated))
    /\ Ask(type, next_state)

ConversionDone ==
    /\ balancing.state = "SendBtcWaitConfirm"
    /\ 0 \in known
    /\ update_balancing_state("Complete")
    /\ UNCHANGED <<requests, ledger, misread>>

(* Bug: the record of the transfer stays in storage. *)
Bug_TransferEnds_keeps_record ==
    /\ balancing.state = "Complete"
    /\ balancing' = [balancing EXCEPT !.state = "None"] /\ saving' = TRUE
    /\ UNCHANGED <<requests, ledger, misread>>

TransferEnds ==
    /\ balancing.state = "Complete"
    /\ balancing' = NoTransfer /\ saving' = TRUE
    /\ UNCHANGED <<requests, ledger, misread>>

process_balancing ==
    /\ ~saving
    /\ \/ balancing.state = "SendUsdtNew" /\ Send("usdt", "SendUsdtWaitConfirm")
       \/ /\ balancing.state = "RecvUsdtNew"
          /\ Ask("WithdrawUsdt", "RecvUsdtWaitWithdrawId") /\ UNCHANGED misread
       \/ balancing.state = "SendBtcNew" /\ Send("lbtc", "SendBtcWaitLbtcBalance")
       \/ /\ balancing.state = "SendBtcWaitLbtcBalance"
          /\ AskWithLbtc("TransferToBtc", "SendBtcWaitConfirm")
       \/ ConversionDone
       \/ /\ balancing.state = "RecvBtcNew"
          /\ Ask("TransferToLbtc", "RecvBtcWaitLbtcBalance") /\ UNCHANGED misread
       \/ /\ balancing.state = "RecvBtcWaitLbtcBalance"
          /\ AskWithLbtc("WithdrawLbtc", "RecvBtcWaitWithdrawId")
       \/ TransferEnds
    /\ UNCHANGED <<stored, module_connected, known, movements, up, running, reported,
                   inbox, lbtc, started, kills, losses, cuts>>

(* Bound: one Movements request at a time. *)
Querying ==
    \/ \E i \in DOMAIN requests : requests[i].type = "Movements"
    \/ \E r \in running : r.type = "Movements"
    \/ \E i \in DOMAIN inbox : inbox[i].type = "Movements"

CheckExchange ==
    /\ ~saving /\ balancing /= NoTransfer /\ module_connected
    /\ ~Querying
    /\ requests' = Append(requests, Request("Movements"))
    /\ UNCHANGED <<main, stored, up, running, reported, inbox, exchange, ghosts>>
-----------------------------------------------------------------------------
(* Messages of the module thread. *)
ModuleConnected(m) ==
    /\ m.type = "Connected"
    /\ module_connected' = TRUE
    /\ UNCHANGED <<balancing, saving, known, movements>>

ModuleDisconnected(m) ==
    /\ m.type = "Disconnected"
    /\ module_connected' = FALSE
    /\ UNCHANGED <<balancing, saving, known, movements>>

WalletUpdate(m) ==
    /\ m.type = "WalletUpdate"
    /\ known' = {m.value}
    /\ UNCHANGED <<balancing, saving, module_connected, movements>>

(* Bug: a failed withdrawal is only logged. *)
Bug_withdraw_failure_logged(m) ==
    /\ m.type \in {"WithdrawUsdt", "WithdrawLbtc"}
    /\ IF /\ balancing.state \in {"RecvUsdtWaitWithdrawId", "RecvBtcWaitWithdrawId"}
          /\ m.value > 0 /\ balancing.withdraw_id = 0
       THEN /\ balancing' = [balancing EXCEPT
                   !.withdraw_id = m.value,
                   !.state = IF @ = "RecvUsdtWaitWithdrawId" THEN "RecvUsdtWaitConfirm"
                                                             ELSE "RecvBtcWaitConfirm"]
            /\ saving' = TRUE
       ELSE UNCHANGED <<balancing, saving>>
    /\ UNCHANGED <<module_connected, known, movements>>

process_withdraw(m) ==
    /\ m.type \in {"WithdrawUsdt", "WithdrawLbtc"}
    /\ \/ balancing = NoTransfer /\ UNCHANGED <<balancing, saving>>
       \/ /\ balancing.state \in {"RecvUsdtWaitWithdrawId", "RecvBtcWaitWithdrawId"}
          /\ m.value > 0 /\ balancing.withdraw_id = 0
          /\ balancing' = [balancing EXCEPT
                 !.withdraw_id = m.value,
                 !.state = IF @ = "RecvUsdtWaitWithdrawId" THEN "RecvUsdtWaitConfirm"
                                                           ELSE "RecvBtcWaitConfirm"]
          /\ saving' = TRUE
       \/ /\ balancing /= NoTransfer
          /\ ~ /\ balancing.state \in {"RecvUsdtWaitWithdrawId", "RecvBtcWaitWithdrawId"}
               /\ m.value > 0 /\ balancing.withdraw_id = 0
          /\ update_balancing_state("Failed")
    /\ UNCHANGED <<module_connected, known, movements>>

(* Bug: the status of the movement is not looked at. *)
Bug_tx_found_pending(seen) ==
    \E mv \in seen : balancing.state = "SendUsdtWaitConfirm" /\ mv.id = balancing.txid

(* Has the movement that the transfer waits for been completed?            *)
tx_found(seen) ==
    \E mv \in seen :
        /\ mv.done
        /\ \/ balancing.state = "SendUsdtWaitConfirm" /\ mv.id = balancing.txid
           \/ /\ balancing.state \in {"RecvUsdtWaitConfirm", "RecvBtcWaitConfirm"}
              /\ mv.id = balancing.withdraw_id

(* Only what two replies in a row agree on counts.                         *)
process_movements(m) ==
    /\ m.type = "Movements"
    /\ \/ m.value = 0 /\ UNCHANGED <<balancing, saving, movements>>
       \/ /\ m.value = 1 /\ movements /= {m.seen}
          /\ movements' = {m.seen}
          /\ UNCHANGED <<balancing, saving>>
       \/ /\ m.value = 1 /\ movements = {m.seen}
          /\ IF tx_found(m.seen) THEN update_balancing_state("Complete")
                                 ELSE UNCHANGED <<balancing, saving>>
          /\ UNCHANGED movements
    /\ UNCHANGED <<module_connected, known>>

process_transfer(m) ==
    /\ m.type \in {"TransferToBtc", "TransferToLbtc"}
    /\ IF balancing /= NoTransfer /\ m.value = 0 THEN update_balancing_state("Failed")
                                                 ELSE UNCHANGED <<balancing, saving>>
    /\ UNCHANGED <<module_connected, known, movements>>

ModuleMessage ==
    /\ ~saving /\ inbox /= <<>>
    /\ LET m == Head(inbox)
       IN  \/ ModuleConnected(m) \/ ModuleDisconnected(m) \/ WalletUpdate(m)
           \/ process_withdraw(m) \/ process_movements(m) \/ process_transfer(m)
    /\ inbox' = Tail(inbox)
    /\ UNCHANGED <<stored, link, exchange, ghosts>>
-----------------------------------------------------------------------------
(* The module thread.  Requests queued while it is not connected are sent  *)
(* on the next connection.  The exchange may or may not push the current   *)
(* balances to a new session (the proxy forwards updates, not snapshots).  *)
Connect ==
    /\ ~up
    /\ up' = TRUE
    /\ inbox' = Append(inbox, Msg("Connected", 0, 0, {}))
    /\ reported' \in {{}, {lbtc}}
    /\ UNCHANGED <<main, stored, requests, running, exchange, ghosts>>

(* The connection is lost.  A request written to it may be lost with it;   *)
(* what the proxy has begun it finishes, but its reply finds no handler.   *)
Disconnect ==
    /\ up /\ losses < MaxLosses
    /\ losses' = losses + 1
    /\ up' = FALSE
    /\ inbox' = Append(inbox, Msg("Disconnected", 0, 0, {}))
    /\ requests' \in {requests} \cup (IF requests = <<>> THEN {} ELSE {Tail(requests)})
    /\ running' = {[r EXCEPT !.lost = TRUE] :
                      r \in {q \in running : q.type /= "Movements" /\ ~q.ran}}
    /\ UNCHANGED <<main, stored, reported, exchange, started, kills, cuts, misread>>

(* The proxy starts a goroutine for each request. *)
ProxyReceives ==
    /\ up /\ requests /= <<>>
    /\ running' = running \cup
           {[type |-> Head(requests).type, no |-> Head(requests).no,
             ran |-> FALSE, lost |-> FALSE, value |-> 0]}
    /\ requests' = Tail(requests)
    /\ UNCHANGED <<main, stored, up, reported, inbox, exchange, ghosts>>

Ran(r, value) ==
    running' = (running \ {r}) \cup
        (IF r.lost THEN {} ELSE {[r EXCEPT !.ran = TRUE, !.value = value]})

(* Wallet.Withdraw, retries included: done, refused, or done but answered  *)
(* with an error.                                                          *)
ProxyWithdraws(r) ==
    /\ r.type \in {"WithdrawUsdt", "WithdrawLbtc"}
    /\ \/ /\ r.type = "WithdrawLbtc" => lbtc >= Amount
          /\ LET mv == [Paid(IF r.type = "WithdrawUsdt" THEN "usdt" ELSE "lbtc", FALSE)
                            EXCEPT !.no = r.no]
             IN  /\ ledger' = ledger \cup {mv}
                 /\ \E value \in {0, mv.id} : Ran(r, value)
          /\ lbtc' = IF r.type = "WithdrawLbtc" THEN lbtc - Amount ELSE lbtc
       \/ Ran(r, 0) /\ UNCHANGED exchange

(* Wallet.Transfer, between two currencies of the exchange.                *)
ProxyTransfers(r) ==
    /\ r.type \in {"TransferToBtc", "TransferToLbtc"}
    /\ \/ /\ r.type = "TransferToBtc" => lbtc >= Amount
          /\ lbtc' = IF r.type = "TransferToBtc" THEN lbtc - Amount ELSE lbtc + Amount
          /\ \E value \in {0, 1} : Ran(r, value)
       \/ Ran(r, 0) /\ UNCHANGED lbtc
    /\ UNCHANGED ledger

ProxyExecutes ==
    /\ \E r \in running : ~r.ran /\ (ProxyWithdraws(r) \/ ProxyTransfers(r))
    /\ UNCHANGED <<main, stored, up, requests, reported, inbox, ghosts>>

Reply(r, value, seen) ==
    /\ running' = running \ {r}
    /\ inbox' = Append(inbox, Msg(r.type, r.no, value, seen))
    /\ UNCHANGED <<main, stored, up, requests, reported, exchange, ghosts>>

(* A goroutine hands its reply to the handler that started it; replies     *)
(* overtake each other here.  Movements are loaded at this moment.         *)
ProxyReplies == \E r \in running : r.ran /\ Reply(r, r.value, {})

MovementsFail == \E r \in running : r.type = "Movements" /\ Reply(r, 0, {})
MovementsLoaded == \E r \in running : r.type = "Movements" /\ Reply(r, 1, ledger)

(* The exchange: a payment is confirmed, a balance that changed is pushed. *)
Settle ==
    /\ \E mv \in ledger :
           /\ ~mv.done
           /\ ledger' = (ledger \ {mv}) \cup {[mv EXCEPT !.done = TRUE]}
           /\ lbtc' = IF mv.in /\ mv.asset = "lbtc" THEN lbtc + Amount ELSE lbtc
    /\ UNCHANGED <<main, stored, link, inbox, ghosts>>

Push ==
    /\ up /\ reported /= {lbtc}
    /\ Cardinality({i \in DOMAIN inbox : inbox[i].type = "WalletUpdate"}) < MaxReports
    /\ inbox' = Append(inbox, Msg("WalletUpdate", 0, lbtc, {}))
    /\ reported' = {lbtc}
    /\ UNCHANGED <<main, stored, up, requests, running, exchange, ghosts>>

(* The process, with the proxy inside it, is killed and started again:     *)
(* only the storage file survives.                                         *)
Restart ==
    /\ kills < MaxKills
    /\ kills' = kills + 1
    /\ cuts' = IF saving THEN cuts + 1 ELSE cuts
    /\ balancing' = stored /\ saving' = FALSE
    /\ module_connected' = FALSE /\ known' = {} /\ movements' = {}
    /\ up' = FALSE /\ requests' = <<>> /\ running' = {} /\ inbox' = <<>> /\ reported' = {}
    /\ UNCHANGED <<stored, exchange, started, losses, misread>>
-----------------------------------------------------------------------------
Start == \E s \in {"SendUsdtNew", "RecvUsdtNew", "SendBtcNew", "RecvBtcNew"} : Cli(s)

Next ==
    \/ Start \/ process_balancing \/ save_storage \/ CheckExchange \/ ModuleMessage
    \/ Connect \/ Disconnect \/ ProxyReceives \/ ProxyExecutes \/ ProxyReplies
    \/ MovementsFail \/ MovementsLoaded \/ Settle \/ Push \/ Restart

Spec == Init /\ [][Next]_vars

(* Every thread of the process and the exchange keep working; nobody has   *)
(* to start a transfer, and no fault has to happen.  That process_balancing *)
(* is taken means that the paying side holds the amount at last; movements *)
(* cannot fail to load forever.                                            *)
Fairness ==
    /\ WF_vars(process_balancing) /\ WF_vars(save_storage) /\ WF_vars(ModuleMessage)
    /\ WF_vars(CheckExchange) /\ WF_vars(Connect) /\ WF_vars(ProxyReceives)
    /\ WF_vars(ProxyExecutes) /\ WF_vars(ProxyReplies) /\ SF_vars(MovementsLoaded)
    /\ WF_vars(Settle) /\ WF_vars(Push)

LiveSpec == Spec /\ Fairness
-----------------------------------------------------------------------------
Message == [type : RequestType \cup {"Connected", "Disconnected", "WalletUpdate"},
            no : Nat, value : Nat, seen : SUBSET Movement]

Transfer == [no : Nat, state : TransferState, txid : Nat, withdraw_id : Nat]
RequestSent == [type : RequestType, no : Nat]
Execution == [type : RequestType, no : Nat, ran : BOOLEAN, lost : BOOLEAN, value : Nat]

TypeOK ==
    /\ balancing \in {NoTransfer} \cup Transfer
    /\ stored \in {NoTransfer} \cup Transfer
    /\ saving \in BOOLEAN /\ module_connected \in BOOLEAN /\ up \in BOOLEAN
    /\ known \subseteq Nat /\ reported \subseteq Nat
    /\ requests \in Seq(RequestSent)
    /\ running \subseteq Execution
    /\ inbox \in Seq(Message)
    /\ lbtc \in Nat
    /\ ledger \subseteq Movement
    /\ {started, kills, losses, cuts} \subseteq Nat /\ misread \in BOOLEAN

Payments(no) == {mv \in ledger : mv.no = no}

(* A transfer pays once, whatever is lost and however often the process is *)
(* restarted; only a kill between the payment and save_storage repeats it. *)
PaidOnce == \A no \in 1..started : Cardinality(Payments(no)) <= 1 + cuts

(* Withdrawals of L-BTC survive even one such kill: process_balancing asks *)
(* only while exactly the amount is on the exchange, if it has not acted   *)
(* on an outdated balance before that kill.                                *)
LbtcPaidOnce ==
    (cuts <= 1 /\ ~misread) => \A no \in 1..started :
        Cardinality({mv \in Payments(no) : mv.asset = "lbtc" /\ ~mv.in}) <= 1

(* No transfer pays twice.                                                 *)
NothingPaidTwice == PaidOnce /\ LbtcPaidOnce

(* A transfer that process_balancing or process_movements calls Complete   *)
(* has moved the money: its one payment is confirmed and no L-BTC is left  *)
(* on the exchange.  Not so after a kill between a change and its save, or *)
(* when a conversion was asked for on an outdated balance.                 *)
CompleteIsReal ==
    (balancing.state \in {"Complete", "None"} /\ cuts = 0 /\ ~misread) =>
        /\ lbtc = 0
        /\ \A no \in 1..started :
               Cardinality(Payments(no)) = 1 /\ \A mv \in Payments(no) : mv.done

(* The result of a withdrawal carries no reference to the transfer it was  *)
(* made for: process_withdraw credits it to whatever transfer is active.   *)
(* It is the right one, still waiting for it (or failed).                  *)
WithdrawReplyIsOwn ==
    \A i \in DOMAIN inbox :
        inbox[i].type \in {"WithdrawUsdt", "WithdrawLbtc"} =>
            /\ inbox[i].no = balancing.no
            /\ balancing.state \in {"RecvUsdtWaitWithdrawId", "RecvBtcWaitWithdrawId", "Failed"}

(* The inductive invariant behind these properties.  Of a queue: no entry  *)
(* is of a type of T, or at most one is.                                   *)
NoneOf(q, T) == \A i \in DOMAIN q : q[i].type \notin T
AtMostOne(q, T) == \A i, j \in DOMAIN q : q[i].type \in T /\ q[j].type \in T => i = j

Withdrawal == {"WithdrawUsdt", "WithdrawLbtc"}
Money == RequestType \ {"Movements"}

Unrun(T) == {r \in running : r.type \in T /\ ~r.ran}
NothingUnrun(T) == NoneOf(requests, T) /\ Unrun(T) = {}

(* One withdrawal at most is queued, executed or answered at a time.       *)
OneWithdrawal ==
    /\ AtMostOne(requests, Withdrawal) /\ AtMostOne(inbox, Withdrawal)
    /\ \A r, s \in running : r.type \in Withdrawal /\ s.type \in Withdrawal => r = s
    /\ NoneOf(requests, Withdrawal) \/ NoneOf(inbox, Withdrawal)
    /\ (\E r \in running : r.type \in Withdrawal) =>
           NoneOf(requests, Withdrawal) /\ NoneOf(inbox, Withdrawal)

(* The transfer it was asked for is the active one.                        *)
IsOwn(x) ==
    x.type \in Withdrawal =>
        /\ x.no = balancing.no
        /\ balancing.state \in {"RecvUsdtWaitWithdrawId", "RecvBtcWaitWithdrawId", "Failed"}

WithdrawInv ==
    /\ OneWithdrawal
    /\ \A i \in DOMAIN requests : IsOwn(requests[i])
    /\ \A r \in running : IsOwn(r)
    /\ \A i \in DOMAIN inbox : IsOwn(inbox[i])

(* The payments are numbered.                                              *)
LedgerInv ==
    /\ IsFiniteSet(ledger)
    /\ \A mv \in ledger : mv.id \in 1..Cardinality(ledger) /\ mv.no \in 1..started
    /\ \A mv, other \in ledger : mv.id = other.id => mv = other

(* What a reply to Movements shows as confirmed still is, and what was     *)
(* saved is what is in memory.                                             *)
MemoryInv ==
    /\ \A i \in DOMAIN inbox : \A mv \in inbox[i].seen : mv.done => mv \in ledger
    /\ \A b \in {balancing, stored} : b = NoTransfer \/ b.no \in 1..started
    /\ ~saving => stored = balancing

(* A transfer that is still to pay, in one of these states or by a request *)
(* that was not executed, has paid at most as often as its state was lost. *)
ToPay == {"SendUsdtNew", "RecvUsdtNew", "SendBtcNew", "RecvBtcNew", "RecvBtcWaitLbtcBalance"}

PaidInv ==
    /\ \A no \in 0..started : Cardinality(Payments(no)) <= 1 + cuts
    /\ balancing.state \in ToPay \/ ~NothingUnrun(Withdrawal) =>
           Cardinality(Payments(balancing.no)) <= cuts

(* The rest holds as long as no change of storage was lost and no balance  *)
(* was misread.  One request that moves money at most is yet to be         *)
(* executed, for the active transfer.                                      *)
Exact == cuts = 0 /\ ~misread

AskedIn(type) ==
    CASE type = "WithdrawUsdt"   -> "RecvUsdtWaitWithdrawId"
      [] type = "WithdrawLbtc"   -> "RecvBtcWaitWithdrawId"
      [] type = "TransferToLbtc" -> "RecvBtcWaitLbtcBalance"
      [] type = "TransferToBtc"  -> "SendBtcWaitConfirm"

IsDue(x) ==
    x.type \in Money => x.no = balancing.no /\ balancing.state \in {AskedIn(x.type), "Failed"}

MoneyInv ==
    /\ AtMostOne(requests, Money)
    /\ \A r, s \in Unrun(Money) : r = s
    /\ NoneOf(requests, Money) \/ Unrun(Money) = {}
    /\ \A i \in DOMAIN requests : IsDue(requests[i])
    /\ \A r \in Unrun(Money) : IsDue(r)

(* The one payment of the active transfer.                                 *)
HasPaid(id) == \E mv \in ledger : Payments(balancing.no) = {mv} /\ mv.id = id
HasSettled(no) == \E mv \in ledger : Payments(no) = {mv} /\ mv.done

(* What a result that is on its way to the active transfer says is true.   *)
IsTrue(x) ==
    x.type \in Withdrawal /\ x.value > 0 /\ balancing.state /= "Failed" =>
        HasPaid(x.value) /\ lbtc = 0

(* The L-BTC on the exchange and the payments, from the state of the       *)
(* active transfer.                                                        *)
LbtcInv ==
    /\ balancing.state \notin {"SendBtcWaitLbtcBalance", "SendBtcWaitConfirm",
                               "RecvBtcWaitLbtcBalance", "RecvBtcWaitWithdrawId", "Failed"}
           => lbtc = 0
    /\ balancing.state = "SendBtcWaitLbtcBalance" =>
           \E mv \in ledger : /\ Payments(balancing.no) = {mv} /\ mv.in /\ mv.asset = "lbtc"
                              /\ lbtc = IF mv.done THEN Amount ELSE 0
    /\ balancing.state = "SendBtcWaitConfirm" =>
           /\ HasSettled(balancing.no)
           /\ \/ lbtc = 0 /\ NothingUnrun(Money)
              \/ /\ lbtc = Amount /\ 0 \notin known
                 /\ \A i \in DOMAIN inbox : inbox[i].type = "WalletUpdate" => inbox[i].value /= 0
    /\ balancing.state = "RecvBtcWaitLbtcBalance" =>
           lbtc = 0 \/ (lbtc = Amount /\ NothingUnrun(Money))
    /\ balancing.state = "RecvBtcWaitWithdrawId" =>
           lbtc = 0 \/ (lbtc = Amount /\ Payments(balancing.no) = {})

(* Every earlier transfer has moved its money, and so has a completed one. *)
(* A deposit of L-BTC that is not yet confirmed is that of a transfer that *)
(* waits for it; a payment that is waited for was made.                    *)
NoDeposit == \A mv \in ledger : mv.done \/ ~mv.in \/ mv.asset /= "lbtc"

PaymentsInv ==
    /\ \A no \in 1..started : no /= balancing.no => HasSettled(no)
    /\ NoDeposit \/ balancing.state \in {"SendBtcWaitLbtcBalance", "Failed"}
    /\ balancing.state = "SendUsdtWaitConfirm" => HasPaid(balancing.txid)
    /\ balancing.state \in {"RecvUsdtWaitConfirm", "RecvBtcWaitConfirm"} =>
           HasPaid(balancing.withdraw_id)
    /\ balancing.state = "Complete" => HasSettled(balancing.no)

ResultsInv == (\A r \in running : IsTrue(r)) /\ (\A i \in DOMAIN inbox : IsTrue(inbox[i]))

ExactInv == MoneyInv /\ LbtcInv /\ PaymentsInv /\ ResultsInv

(* Withdrawals of L-BTC of a transfer.  Once one was made, a transfer that *)
(* asks for it again gets nothing: no L-BTC is left nor still to come.     *)
LbtcOut(no) == {mv \in ledger : mv.no = no /\ mv.asset = "lbtc" /\ ~mv.in}

OneLbtcOut == \A no \in 1..started : \A mv, other \in LbtcOut(no) : mv = other

Drained == lbtc = 0 /\ NothingUnrun({"TransferToLbtc"}) /\ NoDeposit

DrainedInv ==
    /\ OneLbtcOut
    /\ balancing.state = "RecvBtcNew" => LbtcOut(balancing.no) = {}
    /\ balancing.state = "RecvBtcWaitLbtcBalance" \/ ~NothingUnrun({"WithdrawLbtc"}) =>
           LbtcOut(balancing.no) = {} \/ Drained

(* What a kill would fall back to.                                         *)
FallbackInv ==
    saving /\ stored.state \in {"RecvBtcNew", "RecvBtcWaitLbtcBalance"} =>
        /\ stored.no = balancing.no
        /\ \/ LbtcOut(stored.no) = {} /\ NothingUnrun({"WithdrawLbtc"})
           \/ stored.state = "RecvBtcWaitLbtcBalance" /\ balancing.state = "RecvBtcWaitWithdrawId"

BalancingInv ==
    /\ WithdrawInv /\ LedgerInv /\ MemoryInv /\ PaidInv
    /\ Exact => ExactInv /\ FallbackInv
    /\ cuts <= 1 /\ ~misread => DrainedInv

(* Without faults every transfer comes to an end: it is completed, or it   *)
(* fails and waits for the operator.                                       *)
TransferSettles == (balancing /= NoTransfer) ~> (balancing.state \in {"None", "Failed"})
=============================================================================
