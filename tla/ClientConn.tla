----------------------------- MODULE ClientConn -----------------------------
(***************************************************************************)
(* The connection management of the SideSwap client: the worker thread of  *)
(* sideswap_client (worker.rs) composed with the web-socket thread         *)
(* (WsManual) and a server.                                                *)
(*                                                                         *)
(* The worker reads one message at a time.  On ServerConnected it runs a   *)
(* chain of blocking requests (LoginClient .. Login) during which it reads *)
(* nothing else, while the web-socket thread keeps running: the connection *)
(* that answers need not be the one whose Connected is being handled.      *)
(* Requests of the UI and notifications of the wallet are handled whenever *)
(* the worker is free.                                                     *)
(*                                                                         *)
(* Also modelled: the device key and the address registrations kept in the *)
(* settings file, which has to stay consistent with the server across      *)
(* reconnections, logouts, late replies and restarts of the application.   *)
(***************************************************************************)
EXTENDS Naturals, Sequences, FiniteSets

CONSTANTS
    Wallets,           \* wallets (seeds) a user may log in with
    NoWallet,
    RegChains,         \* address chains of the regular account, a sequence
    AmpChains,         \* address chains of the AMP account, a sequence
    AddressGap,        \* addresses registered ahead (count = 100 in the code)
    MaxUsed,           \* bound: largest address index in use
    NoKey,             \* "no device key"
    DisableDeviceKey,  \* params.disable_device_key
    MaxUiOps,          \* bound: UI requests and wallet notifications
    MaxFaults          \* bound: losses, failures, delays and restarts

Chains == {RegChains[i] : i \in 1..Len(RegChains)}
            \cup {AmpChains[i] : i \in 1..Len(AmpChains)}

ASSUME ConnAssumption ==
    /\ NoWallet \notin Wallets
    /\ RegChains \in Seq(STRING) /\ AmpChains \in Seq(STRING)
    /\ AddressGap \in Nat \ {0} /\ MaxUsed \in Nat
    /\ NoKey \notin Nat
    /\ DisableDeviceKey \in BOOLEAN
    /\ MaxUiOps \in Nat /\ MaxFaults \in Nat

Accounts == {"REG", "AMP"}
Owners == Wallets \cup {NoWallet}
Address == Owners \X Chains \X Nat

(* The blocking requests of the connection handshake, and the Ping of      *)
(* check_ws_connection.                                                    *)
HandshakeOps == {"LoginClient", "Assets", "AmpAssets", "ServerStatus",
                 "VerifyDevice", "RegisterDevice", "Login"}
SyncOps == HandshakeOps \cup {"Ping"}
AsyncOps == {"UpdatePushToken", "RegisterAddresses"}

Request == [id : Nat, op : SyncOps \cup AsyncOps,
            key : Nat \cup {NoKey}, addrs : SUBSET Address]
Results == {"ok", "err", "unregistered"}
Reply == [id : Nat, op : SyncOps \cup AsyncOps, res : Results,
          key : Nat \cup {NoKey}]
IsSync(r) == r.op \in SyncOps

VARIABLES
    ws, reqq, msgq, respq, toServer, fromServer,
    connected,      \* Data.connected
    wallets,        \* accounts with a wallet session (Data.wallets)
    call,           \* the blocking request the worker waits for, or "none"
    callId,
    asyncReqs,      \* Data.async_requests: callbacks by request id
    pushToken,      \* is Data.push_token known?
    used,           \* Data.used_addresses
    settings,       \* Data.settings, saved in the handler that changes it
    uiConnected,    \* the last of ServerConnected/Disconnected sent to the UI
    nextId,         \* next_request_id
    devices,        \* device keys the server knows
    srvAddrs,       \* <<device key, address>> pairs the server knows
    nextKey,
    uiOps, faults

INSTANCE WsManual

wsVars == <<ws, reqq, msgq, respq, toServer, fromServer>>
workerVars == <<connected, wallets, call, callId, asyncReqs, pushToken, used,
                settings, uiConnected, nextId>>
serverVars == <<devices, srvAddrs, nextKey>>
vars == <<wsVars, workerVars, serverVars, uiOps, faults>>

NoRegistrations == [c \in Chains |-> 0]
DefaultSettings ==
    [reg_info |-> NoWallet, device_key |-> NoKey, registered |-> NoRegistrations]

(* The fields key, wallet and first are captured for the properties only;  *)
(* the code's closure captures chain and last.                             *)
AsyncRequest ==
    [id : Nat, op : {"UpdatePushToken"}, chain : {"none"}, first : {0}, last : {0},
     key : Nat, wallet : Owners]
    \cup
    [id : Nat, op : {"RegisterAddresses"}, chain : Chains, first : Nat, last : Nat,
     key : Nat, wallet : Owners]

WorkerTypeOK ==
    /\ connected \in BOOLEAN
    /\ wallets \subseteq Accounts
    /\ call \in SyncOps \cup {"none"}
    /\ callId \in Nat
    /\ asyncReqs \subseteq AsyncRequest
    /\ pushToken \in BOOLEAN
    /\ used \in [Chains -> Nat]
    /\ settings \in [reg_info : Owners,
                     device_key : Nat \cup {NoKey},
                     registered : [Chains -> Nat]]
    /\ uiConnected \in BOOLEAN
    /\ nextId \in Nat

ServerTypeOK ==
    /\ devices \subseteq Nat
    /\ srvAddrs \subseteq Nat \X Address
    /\ nextKey \in Nat

TypeOK ==
    /\ WsTypeOK
    /\ WorkerTypeOK
    /\ ServerTypeOK
    /\ uiOps \in Nat
    /\ faults \in Nat

Init ==
    /\ WsInit
    /\ connected = FALSE
    /\ wallets = {}
    /\ call = "none"
    /\ callId = 0
    /\ asyncReqs = {}
    /\ pushToken = FALSE
    /\ used = NoRegistrations
    /\ settings = DefaultSettings
    /\ uiConnected = FALSE
    /\ nextId = 0
    /\ devices = {}
    /\ srvAddrs = {}
    /\ nextKey = 0
    /\ uiOps = 0
    /\ faults = 0
-----------------------------------------------------------------------------
(* Requests of the worker *)

SendSync(op, key) ==
    /\ call' = op
    /\ callId' = nextId
    /\ nextId' = nextId + 1
    /\ reqq' = Append(reqq, Send([id |-> nextId, op |-> op, key |-> key,
                                  addrs |-> {}]))

(* Bug: the web-socket thread is told only when the worker is connected. *)
Bug_restart_if_connected ==
    /\ connected' = FALSE
    /\ reqq' = IF connected THEN Append(reqq, Disconnect) ELSE reqq

restart_websocket ==
    /\ connected' = FALSE
    /\ reqq' = Append(reqq, Disconnect)

send_ws_connect == reqq' = Append(reqq, Connect)

(* The n-th of the requests made with make_async_request in a handler, as  *)
(* the callback kept and as the message sent.                              *)
PushTokenCallback(n) ==
    [id |-> n, op |-> "UpdatePushToken", chain |-> "none", first |-> 0,
     last |-> 0, key |-> settings.device_key, wallet |-> settings.reg_info]

AddressesCallback(n, chain, use) ==
    [id |-> n, op |-> "RegisterAddresses", chain |-> chain,
     first |-> settings.registered[chain], last |-> use[chain] + AddressGap,
     key |-> settings.device_key, wallet |-> settings.reg_info]

MessageOf(cb) ==
    Send([id |-> cb.id, op |-> cb.op, key |-> cb.key,
          addrs |-> IF cb.op = "RegisterAddresses"
                    THEN {cb.wallet} \X {cb.chain} \X (cb.first .. cb.last - 1)
                    ELSE {}])

(* Bug: the token is sent without looking at the connection and the key. *)
Bug_push_token_unguarded(n) ==
    IF pushToken' THEN <<PushTokenCallback(n)>> ELSE <<>>

update_push_token(n) ==
    IF pushToken' /\ connected' /\ settings.device_key /= NoKey
    THEN <<PushTokenCallback(n)>> ELSE <<>>

ChainCallbacks(n, account, chains) ==
    IF connected' /\ settings.device_key /= NoKey /\ account \in wallets
    THEN [i \in 1..Len(chains) |-> AddressesCallback(n + i - 1, chains[i], used')]
    ELSE <<>>

update_address_registrations(n) ==
    LET reg == ChainCallbacks(n, "REG", RegChains)
    IN  reg \o ChainCallbacks(n + Len(reg), "AMP", AmpChains)

make_async_requests(cbs) ==
    /\ asyncReqs' = asyncReqs \cup {cbs[i] : i \in 1..Len(cbs)}
    /\ reqq' = reqq \o [i \in 1..Len(cbs) |-> MessageOf(cbs[i])]
    /\ nextId' = nextId + Len(cbs)
-----------------------------------------------------------------------------
(* Messages of the web-socket thread *)

Free == call = "none"

(* ServerConnected: the handshake starts with the first blocking request.  *)
process_ws_connected ==
    /\ Free
    /\ msgq /= <<>> /\ Head(msgq) = Connected
    /\ msgq' = Tail(msgq)
    /\ SendSync("LoginClient", NoKey)
    /\ UNCHANGED <<ws, respq, toServer, fromServer, connected, wallets,
                   asyncReqs, pushToken, used, settings, uiConnected>>
    /\ UNCHANGED <<serverVars, uiOps, faults>>

(* Bug: only an AMP session counts. *)
Bug_logged_in_amp == "AMP" \in wallets

logged_in == wallets /= {}

(* Bug: the callbacks stay open. *)
Bug_keep_async_requests == UNCHANGED asyncReqs

fail_async_requests == asyncReqs' = {}

(* ServerDisconnected: the callbacks of all open requests are called with  *)
(* an error, which only logs, and a new connection is requested.           *)
process_ws_disconnected ==
    /\ Free
    /\ msgq /= <<>> /\ Head(msgq) = Disconnected
    /\ msgq' = Tail(msgq)
    /\ connected' = FALSE
    /\ uiConnected' = FALSE
    /\ fail_async_requests
    /\ IF logged_in THEN send_ws_connect ELSE UNCHANGED reqq
    /\ UNCHANGED <<ws, respq, toServer, fromServer, wallets, call, callId,
                   pushToken, used, settings, nextId>>
    /\ UNCHANGED <<serverVars, uiOps, faults>>

(* AsyncResp: the callback, if the request is still open.                  *)
process_async_resp ==
    /\ Free
    /\ msgq /= <<>> /\ Head(msgq).type = "Response"
    /\ msgq' = Tail(msgq)
    /\ LET r == Head(msgq).reply
           open == {cb \in asyncReqs : cb.id = r.id}
       IN  /\ asyncReqs' = asyncReqs \ open
           /\ IF r.res = "ok" /\ r.op = "RegisterAddresses" /\ open /= {}
              THEN \E cb \in open :
                     settings' = [settings EXCEPT !.registered[cb.chain] = cb.last]
              ELSE UNCHANGED settings
    /\ UNCHANGED <<ws, reqq, respq, toServer, fromServer, connected, wallets,
                   call, callId, pushToken, used, uiConnected, nextId>>
    /\ UNCHANGED <<serverVars, uiOps, faults>>
-----------------------------------------------------------------------------
(* Replies to the blocking request *)

(* What try_process_ws_connected does after the reply r to the request     *)
(* "call": the next blocking request and the settings.                     *)
(* (Bug: a new device key at every connection.) *)
Bug_FirstDeviceOp_registers ==
    IF DisableDeviceKey THEN "Login" ELSE "RegisterDevice"

FirstDeviceOp ==
    IF DisableDeviceKey THEN "Login"
    ELSE IF settings.device_key /= NoKey THEN "VerifyDevice" ELSE "RegisterDevice"

NextHandshakeOp(r) ==
    CASE call = "LoginClient" -> "Assets"
      [] call = "Assets" -> "AmpAssets"
      [] call = "AmpAssets" -> "ServerStatus"
      [] call = "ServerStatus" -> FirstDeviceOp
      [] call = "VerifyDevice" ->
            IF r.res = "unregistered" THEN "RegisterDevice" ELSE "Login"
      [] call = "RegisterDevice" -> "Login"

NoDeviceKey == [settings EXCEPT !.device_key = NoKey]

(* Bug: the counters of the previous device key survive. *)
Bug_NewDeviceKey_keeps_counters(key) == [settings EXCEPT !.device_key = key]

NewDeviceKey(key) ==
    [settings EXCEPT !.device_key = key, !.registered = NoRegistrations]

HandshakeSettings(r) ==
    CASE call = "ServerStatus" /\ DisableDeviceKey -> NoDeviceKey
      [] call = "VerifyDevice" /\ r.res = "unregistered" -> NoDeviceKey
      [] call = "RegisterDevice" -> NewDeviceKey(r.key)
      [] OTHER -> settings

Replied ==
    /\ call /= "none"
    /\ respq /= <<>>
    /\ respq' = Tail(respq)
    /\ UNCHANGED <<ws, msgq, toServer, fromServer, wallets, pushToken, used>>
    /\ UNCHANGED <<serverVars, uiOps, faults>>

Answered == Head(respq).id = callId /\ Head(respq).res /= "err"

(* A reply to an earlier request that has timed out.                       *)
DiscardOldResponse ==
    /\ Replied
    /\ Head(respq).id /= callId
    /\ UNCHANGED <<reqq, connected, call, callId, asyncReqs, settings,
                   uiConnected, nextId>>

HandshakeContinues ==
    /\ Replied
    /\ Answered /\ call \in HandshakeOps \ {"Login"}
    /\ settings' = HandshakeSettings(Head(respq))
    /\ SendSync(NextHandshakeOp(Head(respq)), settings'.device_key)
    /\ UNCHANGED <<connected, asyncReqs, uiConnected>>

(* The rest of process_ws_connected after a successful handshake.          *)
HandshakeSucceeds ==
    /\ Replied
    /\ Answered /\ call = "Login"
    /\ call' = "none"
    /\ connected' = TRUE
    /\ uiConnected' = TRUE
    /\ LET push == update_push_token(nextId)
       IN  make_async_requests(
               push \o update_address_registrations(nextId + Len(push)))
    /\ UNCHANGED <<callId, settings>>

PingSucceeds ==
    /\ Replied
    /\ Answered /\ call = "Ping"
    /\ call' = "none"
    /\ UNCHANGED <<reqq, connected, callId, asyncReqs, settings, uiConnected,
                   nextId>>

(* Bug: a failed request only clears the flag. *)
Bug_CallFails_no_restart ==
    /\ call' = "none"
    /\ connected' = FALSE
    /\ UNCHANGED <<reqq, callId, asyncReqs, settings, uiConnected, nextId>>

(* A failed handshake or Ping restarts the connection.                     *)
CallFails ==
    /\ call' = "none"
    /\ restart_websocket
    /\ UNCHANGED <<callId, asyncReqs, settings, uiConnected, nextId>>

CallRefused ==
    /\ Replied
    /\ Head(respq).id = callId /\ Head(respq).res = "err"
    /\ CallFails

(* SERVER_REQUEST_TIMEOUT.  The request can no longer be answered, or the  *)
(* connection or the server is too slow, which counts as a fault.          *)
Unanswerable ==
    /\ \A i \in 1..Len(reqq) : reqq[i].type = "Request" => reqq[i].req.id /= callId
    /\ \A q \in toServer : q.id /= callId
    /\ \A r \in fromServer : r.id /= callId

CallTimeout ==
    /\ call /= "none"
    /\ respq = <<>>
    /\ \/ Unanswerable /\ UNCHANGED faults
       \/ ~Unanswerable /\ faults < MaxFaults /\ faults' = faults + 1
    /\ CallFails
    /\ UNCHANGED <<ws, msgq, respq, toServer, fromServer, wallets, pushToken, used>>
    /\ UNCHANGED <<serverVars, uiOps>>
-----------------------------------------------------------------------------
(* Requests of the UI and notifications of the wallet *)

UiStep ==
    /\ Free
    /\ uiOps < MaxUiOps
    /\ uiOps' = uiOps + 1
    /\ UNCHANGED <<ws, msgq, respq, toServer, fromServer, serverVars, faults>>

(* Without reg_info the wallet is registered first and reg_info saved.     *)
LoginAs(w) ==
    /\ w \in Wallets
    /\ settings.reg_info \in {NoWallet, w}
    /\ settings' = [settings EXCEPT !.reg_info = w]

(* The AMP session is optional.                                            *)
process_login_request(w) ==
    /\ UiStep
    /\ LoginAs(w)
    /\ \E accounts \in {{"REG"}, Accounts} : wallets' = wallets \cup accounts
    /\ send_ws_connect
    /\ UNCHANGED <<connected, call, callId, asyncReqs, pushToken, used,
                   uiConnected, nextId>>

(* The regular session cannot be started.                                  *)
LoginFails(w) ==
    /\ UiStep
    /\ LoginAs(w) \/ UNCHANGED settings
    /\ UNCHANGED <<reqq, connected, wallets, call, callId, asyncReqs, pushToken,
                   used, uiConnected, nextId>>

process_logout_request ==
    /\ UiStep
    /\ wallets' = {}
    /\ used' = NoRegistrations
    /\ settings' = DefaultSettings
    /\ restart_websocket
    /\ UNCHANGED <<call, callId, asyncReqs, pushToken, uiConnected, nextId>>

(* The regular session is replaced; it is gone when that fails.            *)
process_change_network ==
    /\ UiStep
    /\ "REG" \in wallets
    /\ wallets' \in {wallets, wallets \ {"REG"}}
    /\ UNCHANGED <<reqq, connected, call, callId, asyncReqs, pushToken, used,
                   settings, uiConnected, nextId>>

process_update_push_token ==
    /\ UiStep
    /\ pushToken' = TRUE
    /\ UNCHANGED connected
    /\ make_async_requests(update_push_token(nextId))
    /\ UNCHANGED <<wallets, call, callId, used, settings, uiConnected>>

(* AppState or the idle timer; without a connection only a hint is sent,   *)
(* which shortens the delay before the next connection attempt.            *)
check_ws_connection ==
    /\ UiStep
    /\ connected
    /\ SendSync("Ping", NoKey)
    /\ UNCHANGED <<connected, wallets, asyncReqs, pushToken, used, settings,
                   uiConnected>>

(* resync_wallet: the address indexes in use are read from the wallet.     *)
AccountChains(account) ==
    LET chains == IF account = "REG" THEN RegChains ELSE AmpChains
    IN  {chains[i] : i \in 1..Len(chains)}

update_used_addresses(account) ==
    /\ UiStep
    /\ account \in wallets
    /\ \E u \in [AccountChains(account) -> 0..MaxUsed] :
          used' = [c \in Chains |-> IF c \in AccountChains(account)
                                    THEN u[c] ELSE used[c]]
    /\ UNCHANGED connected
    /\ make_async_requests(update_address_registrations(nextId))
    /\ UNCHANGED <<wallets, call, callId, pushToken, settings, uiConnected>>
-----------------------------------------------------------------------------
(* The web-socket thread, the server and faults *)

WsThread ==
    /\ \/ WsAwaitConnect
       \/ WsConnected
       \/ WsServeRequest
       \/ \E r \in fromServer : WsDeliver(r)
    /\ UNCHANGED <<workerVars, serverVars, uiOps, faults>>

(* The server answers the requests it has in any order.                    *)
Answer(q, res, key) ==
    /\ q \in toServer
    /\ toServer' = toServer \ {q}
    /\ fromServer' = fromServer \cup
         {[id |-> q.id, op |-> q.op, res |-> res, key |-> key]}
    /\ UNCHANGED <<ws, reqq, msgq, respq, workerVars, uiOps>>

ServerAccepts(q) ==
    /\ Answer(q, "ok", NoKey)
    /\ q.op \notin {"VerifyDevice", "RegisterDevice", "RegisterAddresses"}
    /\ UNCHANGED <<serverVars, faults>>

ServerVerifyDevice(q) ==
    /\ q.op = "VerifyDevice"
    /\ Answer(q, IF q.key \in devices THEN "ok" ELSE "unregistered", NoKey)
    /\ UNCHANGED <<serverVars, faults>>

ServerRegisterDevice(q) ==
    /\ q.op = "RegisterDevice"
    /\ Answer(q, "ok", nextKey)
    /\ devices' = devices \cup {nextKey}
    /\ nextKey' = nextKey + 1
    /\ UNCHANGED <<srvAddrs, faults>>

ServerRegisterAddresses(q) ==
    /\ q.op = "RegisterAddresses"
    /\ IF q.key \in devices
       THEN Answer(q, "ok", NoKey) /\ srvAddrs' = srvAddrs \cup ({q.key} \X q.addrs)
       ELSE Answer(q, "err", NoKey) /\ UNCHANGED srvAddrs
    /\ UNCHANGED <<devices, nextKey, faults>>

Server(q) ==
    \/ ServerAccepts(q)
    \/ ServerVerifyDevice(q)
    \/ ServerRegisterDevice(q)
    \/ ServerRegisterAddresses(q)

Fault ==
    /\ faults < MaxFaults
    /\ faults' = faults + 1
    /\ UNCHANGED uiOps

ConnectionLost ==
    /\ Fault
    /\ WsLost
    /\ UNCHANGED <<workerVars, serverVars>>

ServerRefuses(q) ==
    /\ faults < MaxFaults
    /\ faults' = faults + 1
    /\ Answer(q, "err", NoKey)
    /\ UNCHANGED serverVars

ServerForgetsDevice(k) ==
    /\ Fault
    /\ devices' = devices \ {k}
    /\ UNCHANGED <<wsVars, workerVars, srvAddrs, nextKey>>

(* The application is killed and started again with the saved settings.    *)
Restart ==
    /\ Fault
    /\ ws' = "idle" /\ reqq' = <<>> /\ msgq' = <<>> /\ respq' = <<>>
    /\ toServer' = {} /\ fromServer' = {}
    /\ connected' = FALSE /\ wallets' = {} /\ call' = "none" /\ asyncReqs' = {}
    /\ pushToken' = FALSE /\ used' = NoRegistrations /\ uiConnected' = FALSE
    /\ callId' = 0 /\ nextId' = 0
    /\ UNCHANGED <<settings, serverVars>>
-----------------------------------------------------------------------------
Worker ==
    \/ process_ws_connected
    \/ process_ws_disconnected
    \/ process_async_resp
    \/ DiscardOldResponse
    \/ HandshakeContinues
    \/ HandshakeSucceeds
    \/ PingSucceeds
    \/ CallRefused
    \/ CallTimeout

Ui ==
    \/ \E w \in Wallets : process_login_request(w) \/ LoginFails(w)
    \/ process_logout_request
    \/ process_change_network
    \/ process_update_push_token
    \/ check_ws_connection
    \/ \E account \in Accounts : update_used_addresses(account)

Faults ==
    \/ ConnectionLost
    \/ \E q \in toServer : ServerRefuses(q)
    \/ \E k \in devices : ServerForgetsDevice(k)
    \/ Restart

Next ==
    \/ WsThread
    \/ \E q \in toServer : Server(q)
    \/ Worker
    \/ Ui
    \/ Faults

Spec == Init /\ [][Next]_vars

(* The threads run, connection attempts succeed in the end and the server  *)
(* answers; faults are finitely many.                                      *)
Fairness ==
    /\ WF_vars(WsThread)
    /\ WF_vars(\E q \in toServer : Server(q))
    /\ WF_vars(Worker)

LiveSpec == Spec /\ Fairness
-----------------------------------------------------------------------------
(* Properties *)

In(m, q) == \E i \in 1..Len(q) : q[i] = m

(* A client with a wallet session is never left offline: when the          *)
(* web-socket thread is idle, a Connect request is on its way or the       *)
(* worker has yet to read the Disconnected that makes it send one.         *)
NoLostReconnect ==
    wallets /= {} =>
        ws /= "idle" \/ In(Connect, reqq) \/ In(Disconnected, msgq)

(* Neither the worker nor the UI believes in a connection that is gone:    *)
(* the loss is still to be read from the message queue.                    *)
ConnectedIsHonest ==
    connected \/ uiConnected => ws = "connected" \/ In(Disconnected, msgq)

(* No callback of make_async_request is forgotten: it is open only while a *)
(* reply may come or a Disconnected that fails it is still to be read.     *)
NoForgottenCallback ==
    asyncReqs /= {} => ws = "connected" \/ In(Disconnected, msgq)

(* The handshake of a new connection runs after everything of the previous *)
(* one was cleaned up, even when its Connected is handled late.            *)
HandshakeStartsClean ==
    call \in HandshakeOps => ~connected /\ asyncReqs = {}

(* After a logout the client goes offline: the connection is closed or the *)
(* Disconnect that closes it is the last word sent to the thread.          *)
GoesOffline(q) ==
    \E i \in 1..Len(q) :
        q[i] = Disconnect /\ \A j \in (i + 1)..Len(q) : q[j] /= Connect

OfflineAfterLogout ==
    settings.reg_info = NoWallet =>
        (ws = "idle" /\ ~In(Connect, reqq)) \/ GoesOffline(reqq)

(* The order of the reports in the message queue: a connection is reported *)
(* after the loss of the one before, and its own loss is reported unless   *)
(* it is still open.                                                       *)
LossFollows(q, open) ==
    \A i \in 1..Len(q) : q[i] = Connected =>
        open \/ \E j \in (i + 1)..Len(q) : q[j] = Disconnected

LossPrecedes(q) ==
    \A i \in 1..Len(q) : q[i] = Connected =>
        \E j \in 1..(i - 1) : q[j] = Disconnected

Alternates(q) ==
    \A i, k \in 1..Len(q) : i < k /\ q[i] = Connected /\ q[k] = Connected =>
        \E j \in (i + 1)..(k - 1) : q[j] = Disconnected

(* What the worker holds of a connection, from the handshake to the        *)
(* handling of its loss.                                                   *)
HoldsConnection == connected \/ asyncReqs /= {} \/ call \in HandshakeOps

(* The inductive invariant behind the five properties above: the queued    *)
(* reports are in order, what the worker and the UI hold of a connection   *)
(* is backed by the connection or by a report of its loss, and that report *)
(* comes before the next Connected; a wallet session implies a wallet.     *)
ConnInv ==
    /\ LossFollows(msgq, ws = "connected")
    /\ Alternates(msgq)
    /\ HoldsConnection => LossPrecedes(msgq)
    /\ HoldsConnection \/ uiConnected => ws = "connected" \/ In(Disconnected, msgq)
    /\ HandshakeStartsClean
    /\ NoLostReconnect
    /\ OfflineAfterLogout
    /\ wallets /= {} => settings.reg_info /= NoWallet

(* The addresses counted as registered in the settings are known to the    *)
(* server for the present wallet under the present device key.             *)
RegisteredAreKnown ==
    settings.device_key \in devices =>
        \A c \in Chains : \A n \in 0..(settings.registered[c] - 1) :
            <<settings.device_key, <<settings.reg_info, c, n>>>> \in srvAddrs

(* A device key the server still knows is given up only by a logout (or    *)
(* where device keys are disabled).                                        *)
KnownKeyIsKept ==
    [][settings.device_key \in devices /\ settings'.device_key /= settings.device_key
         => settings'.reg_info = NoWallet \/ DisableDeviceKey]_vars

(* The requests on their way to the server and the replies on their way to *)
(* the worker, wherever they are queued.                                   *)
Items(q) == {q[i] : i \in 1..Len(q)}
Requests(q) == {q[i].req : i \in {j \in 1..Len(q) : q[j].type = "Request"}}
Replies(q) == {q[i].reply : i \in {j \in 1..Len(q) : q[j].type = "Response"}}

Asked == toServer \cup Requests(reqq)
Told == fromServer \cup Items(respq) \cup Replies(msgq)

(* The server has addresses first .. last - 1 of a chain under a key.      *)
Known(key, wallet, chain, first, last) ==
    \A n \in first..(last - 1) : <<key, <<wallet, chain, n>>>> \in srvAddrs

(* Request ids and device keys are fresh when they are given out.          *)
FreshInv ==
    /\ \A q \in Asked : q.id < nextId
    /\ \A r \in Told : r.id < nextId /\ (r.key /= NoKey => r.key < nextKey)
    /\ \A cb \in asyncReqs : cb.id < nextId
    /\ settings.device_key /= NoKey => settings.device_key < nextKey

(* The device key does not change under a blocking request about it, and   *)
(* is reported as unknown only when it is.                                 *)
DeviceInv ==
    /\ call = "RegisterDevice" => settings.device_key = NoKey
    /\ call = "VerifyDevice" =>
         /\ \A q \in Asked : q.id = callId => q.key = settings.device_key
         /\ \A r \in Told : r.id = callId /\ r.res = "unregistered" =>
               settings.device_key \notin devices

(* What travels with the id of an open callback is its request, or the     *)
(* reply to it; a good reply means that the addresses are known.           *)
CallbackInv(cb) ==
    /\ \A q \in Asked : q.id = cb.id => Send(q) = MessageOf(cb)
    /\ \A r \in Told : r.id = cb.id =>
         /\ r.op = cb.op
         /\ r.op = "RegisterAddresses" /\ r.res = "ok" =>
              Known(cb.key, cb.wallet, cb.chain, cb.first, cb.last)

(* A request to register addresses is of a wallet, the present one with    *)
(* the present key, and continues where the server's addresses end.        *)
AddressesInv(cb) ==
    cb.op = "RegisterAddresses" =>
        /\ cb.wallet /= NoWallet
        /\ settings.device_key /= NoKey =>
             cb.key = settings.device_key /\ cb.wallet = settings.reg_info
        /\ Known(cb.key, cb.wallet, cb.chain, 0, cb.first)

(* The counters are right for any key, also for one the server forgot, and *)
(* are zero before there is a wallet to register addresses of.             *)
CountersInv ==
    settings.device_key /= NoKey =>
        /\ \A c \in Chains : Known(settings.device_key, settings.reg_info, c,
                                   0, settings.registered[c])
        /\ settings.reg_info = NoWallet => settings.registered = NoRegistrations

(* The inductive invariant behind the two properties above.                *)
KeyInv ==
    /\ FreshInv
    /\ DeviceInv
    /\ \A cb \in asyncReqs : CallbackInv(cb) /\ AddressesInv(cb)
    /\ CountersInv

(* With a wallet session the client is connected in the end, and stays so. *)
Reconnects == <>[](wallets /= {}) => <>[](connected /\ uiConnected)

(* Every request with a callback is settled in the end.                    *)
CallbacksSettle == <>[](asyncReqs = {})
=============================================================================
