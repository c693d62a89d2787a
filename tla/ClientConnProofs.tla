-------------------------- MODULE ClientConnProofs --------------------------
(* Proofs about ClientConn, for every value of its constants. *)
EXTENDS ClientConn, TLAPS

(* Zenon is tried where a leaf cites no prover; SMT is cited where         *)
(* arithmetic, sequences or records are needed.                            *)
USE Zenon

(* The pieces of the type invariant that the messages of the worker and of *)
(* the server have to meet.                                                *)
LEMMA SendType ==
    ASSUME NEW r \in Request
    PROVE  Send(r) \in WrappedRequest
BY DEF Send, WrappedRequest

LEMMA MsgTypes ==
    /\ Connect \in WrappedRequest
    /\ Disconnect \in WrappedRequest
    /\ Connected \in WrappedResponse
    /\ Disconnected \in WrappedResponse
BY DEF WrappedRequest, WrappedResponse, Connect, Disconnect, Connected, Disconnected

THEOREM InitType == Init => TypeOK
<1> SUFFICES ASSUME Init PROVE TypeOK
  OBVIOUS
<1>1. WsTypeOK
  BY SMT DEF Init, WsInit, WsTypeOK
<1>2. NoRegistrations \in [Chains -> Nat]
  BY DEF NoRegistrations
<1>3. settings \in [reg_info : Owners,
                    device_key : Nat \cup {NoKey},
                    registered : [Chains -> Nat]]
  BY <1>2 DEF Init, DefaultSettings, Owners
<1>4. WorkerTypeOK
  BY <1>2, <1>3 DEF Init, WorkerTypeOK
<1>5. ServerTypeOK
  BY DEF Init, ServerTypeOK
<1> QED BY <1>1, <1>4, <1>5 DEF Init, TypeOK

LEMMA UnchangedTypes ==
    /\ WorkerTypeOK /\ UNCHANGED workerVars => WorkerTypeOK'
    /\ ServerTypeOK /\ UNCHANGED serverVars => ServerTypeOK'
    /\ WsTypeOK /\ UNCHANGED wsVars => WsTypeOK'
BY DEF WorkerTypeOK, workerVars, ServerTypeOK, serverVars, WsTypeOK, wsVars

LEMMA WsType ==
    ASSUME TypeOK, WsThread
    PROVE  TypeOK'
<1> SUFFICES WsTypeOK'
  BY UnchangedTypes DEF TypeOK, WsThread
<1> USE DEF WsTypeOK
<1>0. WsTypeOK
  BY DEF TypeOK
<1>1. CASE WsAwaitConnect
  BY <1>0, <1>1, SMT DEF WsAwaitConnect
<1>2. CASE WsConnected
  BY <1>0, <1>2, MsgTypes, SMT DEF WsConnected
<1>3. CASE WsServeRequest
  <2>1. Head(reqq) \in WrappedRequest /\ Tail(reqq) \in Seq(WrappedRequest)
    BY <1>0, <1>3, SMT DEF WsServeRequest
  <2>2. reqq' \in Seq(WrappedRequest) /\ respq' \in Seq(Reply)
    BY <1>0, <1>3, <2>1 DEF WsServeRequest
  <2>3. CASE Close
    BY <1>0, <2>2, <2>3, MsgTypes, SMT DEF Close
  <2>4. CASE ~Close
    <3>1. ws' = ws /\ msgq' = msgq /\ fromServer' = fromServer
      BY <1>3, <2>4 DEF WsServeRequest
    <3>2. toServer' \subseteq Request
      BY <1>0, <1>3, <2>1, <2>4, SMT DEF WsServeRequest, WrappedRequest, Connect, Disconnect
    <3> QED BY <1>0, <2>2, <3>1, <3>2
  <2> QED BY <2>3, <2>4
<1>4. ASSUME NEW r \in fromServer, WsDeliver(r) PROVE WsTypeOK'
  <2>1. r \in Reply /\ Response(r) \in WrappedResponse
    BY <1>0, <1>4 DEF Response, WrappedResponse
  <2>2. fromServer' \subseteq Reply /\ toServer' \subseteq Request
    BY <1>0, <1>4 DEF WsDeliver
  <2>3. ws' = ws /\ reqq' = reqq
    BY <1>4 DEF WsDeliver
  <2>4. respq' \in Seq(Reply)
    <3>1. respq' = respq \/ respq' = Append(respq, r)
      BY <1>4 DEF WsDeliver, Forward
    <3>2. respq \in Seq(Reply) /\ r \in Reply
      BY <1>0, <2>1
    <3>3. Append(respq, r) \in Seq(Reply)
      BY <3>2, SMT
    <3> QED BY <3>1, <3>2, <3>3
  <2>5. msgq' \in Seq(WrappedResponse)
    <3>1. msgq' = msgq \/ msgq' = Append(msgq, Response(r))
      BY <1>4 DEF WsDeliver, Forward
    <3>2. msgq \in Seq(WrappedResponse) /\ Response(r) \in WrappedResponse
      BY <1>0, <2>1
    <3>3. Append(msgq, Response(r)) \in Seq(WrappedResponse)
      BY <3>2, SMT
    <3> QED BY <3>1, <3>2, <3>3
  <2> QED BY <1>0, <2>1, <2>2, <2>3, <2>4, <2>5
<1> QED BY <1>1, <1>2, <1>3, <1>4 DEF WsThread

LEMMA ChainType ==
    /\ RegChains \in Seq(Chains)
    /\ AmpChains \in Seq(Chains)
BY ConnAssumption, SMT DEF Chains

(* The callbacks of a handler are well typed, and so are their messages.   *)
LEMMA AddressesCallbackType ==
    ASSUME WorkerTypeOK, NEW n \in Nat, NEW c \in Chains,
           NEW u \in [Chains -> Nat], settings.device_key /= NoKey
    PROVE  AddressesCallback(n, c, u) \in AsyncRequest
<1>1. settings.device_key \in Nat /\ settings.registered[c] \in Nat
  BY DEF WorkerTypeOK
<1>2. settings.reg_info \in Owners
  BY DEF WorkerTypeOK
<1>3. u[c] + AddressGap \in Nat
  BY ConnAssumption, SMT
<1> QED BY <1>1, <1>2, <1>3 DEF AddressesCallback, AsyncRequest, AsyncOps

LEMMA ChainCallbacksType ==
    ASSUME WorkerTypeOK, used' \in [Chains -> Nat], NEW n \in Nat, NEW account,
           NEW chains \in Seq(Chains)
    PROVE  ChainCallbacks(n, account, chains) \in Seq(AsyncRequest)
<1> DEFINE f == [i \in 1..Len(chains) |-> AddressesCallback(n + i - 1, chains[i], used')]
<1>1. CASE settings.device_key /= NoKey
  <2>1. ASSUME NEW i \in 1..Len(chains)
        PROVE  AddressesCallback(n + i - 1, chains[i], used') \in AsyncRequest
    <3>1. n + i - 1 \in Nat /\ chains[i] \in Chains
      BY SMT
    <3> QED BY <1>1, <3>1, AddressesCallbackType
  <2>2. f \in Seq(AsyncRequest)
    BY <2>1, SMT
  <2> QED BY <2>2, SMT DEF ChainCallbacks
<1>2. CASE settings.device_key = NoKey
  BY <1>2, SMT DEF ChainCallbacks
<1> QED BY <1>1, <1>2

LEMMA RegistrationsType ==
    ASSUME WorkerTypeOK, used' \in [Chains -> Nat], NEW n \in Nat
    PROVE  update_address_registrations(n) \in Seq(AsyncRequest)
<1> DEFINE reg == ChainCallbacks(n, "REG", RegChains)
<1>1. reg \in Seq(AsyncRequest)
  BY ChainType, ChainCallbacksType
<1>2. n + Len(reg) \in Nat
  BY <1>1, SMT
<1>3. ChainCallbacks(n + Len(reg), "AMP", AmpChains) \in Seq(AsyncRequest)
  BY <1>2, ChainType, ChainCallbacksType
<1> HIDE DEF reg
<1>4. reg \o ChainCallbacks(n + Len(reg), "AMP", AmpChains) \in Seq(AsyncRequest)
  BY <1>1, <1>3, SMT
<1> QED BY <1>4 DEF update_address_registrations, reg

LEMMA PushTokenType ==
    ASSUME WorkerTypeOK, NEW n \in Nat
    PROVE  update_push_token(n) \in Seq(AsyncRequest)
<1>1. CASE settings.device_key /= NoKey
  <2>1. PushTokenCallback(n) \in AsyncRequest
    BY <1>1 DEF WorkerTypeOK, PushTokenCallback, AsyncRequest, AsyncOps
  <2> QED BY <2>1, SMT DEF update_push_token
<1>2. CASE settings.device_key = NoKey
  BY <1>2, SMT DEF update_push_token
<1> QED BY <1>1, <1>2

LEMMA MessageType ==
    ASSUME NEW cb \in AsyncRequest
    PROVE  MessageOf(cb) \in WrappedRequest
<1> DEFINE addrs == IF cb.op = "RegisterAddresses"
                    THEN {cb.wallet} \X {cb.chain} \X (cb.first .. cb.last - 1)
                    ELSE {}
<1>1. addrs \in SUBSET Address
  BY SMT DEF AsyncRequest, Address
<1> HIDE DEF addrs
<1>2. [id |-> cb.id, op |-> cb.op, key |-> cb.key, addrs |-> addrs] \in Request
  BY <1>1 DEF AsyncRequest, Request, AsyncOps
<1> QED BY <1>2, SendType DEF MessageOf, addrs

LEMMA AsyncType ==
    ASSUME TypeOK, NEW cbs \in Seq(AsyncRequest), make_async_requests(cbs)
    PROVE  /\ asyncReqs' \subseteq AsyncRequest
           /\ reqq' \in Seq(WrappedRequest)
           /\ nextId' \in Nat
<1>1. asyncReqs' \subseteq AsyncRequest
  BY SMT DEF make_async_requests, TypeOK, WorkerTypeOK
<1>2. nextId' \in Nat
  BY SMT DEF make_async_requests, TypeOK, WorkerTypeOK
<1> DEFINE msgs == [i \in 1..Len(cbs) |-> MessageOf(cbs[i])]
<1>3. ASSUME NEW i \in 1..Len(cbs) PROVE MessageOf(cbs[i]) \in WrappedRequest
  BY MessageType, SMT
<1>4. msgs \in Seq(WrappedRequest)
  BY <1>3, SMT
<1> HIDE DEF msgs
<1>5. reqq \o msgs \in Seq(WrappedRequest)
  BY <1>4, SMT DEF TypeOK, WsTypeOK
<1> QED BY <1>1, <1>2, <1>5 DEF make_async_requests, msgs

LEMMA SendSyncType ==
    ASSUME TypeOK, NEW op \in SyncOps, NEW key \in Nat \cup {NoKey}, SendSync(op, key)
    PROVE  /\ call' \in SyncOps \cup {"none"}
           /\ callId' \in Nat
           /\ nextId' \in Nat
           /\ reqq' \in Seq(WrappedRequest)
<1>1. [id |-> nextId, op |-> op, key |-> key, addrs |-> {}] \in Request
  BY DEF TypeOK, WorkerTypeOK, Request
<1>2. reqq' \in Seq(WrappedRequest)
  BY <1>1, SendType, SMT DEF SendSync, TypeOK, WsTypeOK
<1> QED BY <1>2, SMT DEF SendSync, TypeOK, WorkerTypeOK

LEMMA NoRegistrationsType == NoRegistrations \in [Chains -> Nat]
BY DEF NoRegistrations

LEMMA DefaultSettingsType ==
    DefaultSettings \in [reg_info : Owners, device_key : Nat \cup {NoKey},
                         registered : [Chains -> Nat]]
BY NoRegistrationsType DEF DefaultSettings, Owners

LEMMA WorkerType ==
    ASSUME TypeOK, Worker
    PROVE  TypeOK'
<1> USE DEF TypeOK
<1>1. CASE process_ws_connected
  <2>1. reqq' \in Seq(WrappedRequest) /\ call' \in SyncOps \cup {"none"}
        /\ callId' \in Nat /\ nextId' \in Nat
    <3>1. "LoginClient" \in SyncOps /\ SendSync("LoginClient", NoKey)
      BY <1>1 DEF process_ws_connected, SyncOps, HandshakeOps
    <3> QED BY <3>1, SendSyncType
  <2>2. msgq' \in Seq(WrappedResponse)
    BY <1>1, SMT DEF process_ws_connected, WsTypeOK
  <2>3. WsTypeOK'
    BY <1>1, <2>1, <2>2 DEF process_ws_connected, WsTypeOK
  <2>4. WorkerTypeOK'
    BY <1>1, <2>1 DEF process_ws_connected, WorkerTypeOK
  <2> QED BY <1>1, <2>3, <2>4, UnchangedTypes DEF process_ws_connected
<1>2. CASE process_ws_disconnected
  <2>1. msgq' \in Seq(WrappedResponse)
    BY <1>2, SMT DEF process_ws_disconnected, WsTypeOK
  <2>2. reqq' \in Seq(WrappedRequest)
    <3>1. reqq' = reqq \/ reqq' = Append(reqq, Connect)
      BY <1>2 DEF process_ws_disconnected, send_ws_connect
    <3> QED BY <3>1, MsgTypes, SMT DEF WsTypeOK
  <2>3. WsTypeOK'
    BY <1>2, <2>1, <2>2 DEF process_ws_disconnected, WsTypeOK
  <2>4. WorkerTypeOK'
    BY <1>2 DEF process_ws_disconnected, fail_async_requests, WorkerTypeOK
  <2> QED BY <1>2, <2>3, <2>4, UnchangedTypes DEF process_ws_disconnected
<1>3. CASE process_async_resp
  <2>1. msgq' \in Seq(WrappedResponse)
    BY <1>3, SMT DEF process_async_resp, WsTypeOK
  <2>2. WsTypeOK'
    BY <1>3, <2>1 DEF process_async_resp, WsTypeOK
  <2>3. asyncReqs' \subseteq AsyncRequest
    BY <1>3 DEF process_async_resp, WorkerTypeOK
  <2>4. settings' = settings \/ \E cb \in asyncReqs :
          settings' = [settings EXCEPT !.registered[cb.chain] = cb.last]
    BY <1>3 DEF process_async_resp
  <2>5. ASSUME NEW cb \in asyncReqs
        PROVE  [settings EXCEPT !.registered[cb.chain] = cb.last]
                 \in [reg_info : Owners, device_key : Nat \cup {NoKey},
                      registered : [Chains -> Nat]]
    <3>1. cb.last \in Nat
      BY SMT DEF WorkerTypeOK, AsyncRequest
    <3>2. [settings.registered EXCEPT ![cb.chain] = cb.last] \in [Chains -> Nat]
      BY <3>1 DEF WorkerTypeOK
    <3> QED BY <3>2 DEF WorkerTypeOK
  <2>6. WorkerTypeOK'
    BY <1>3, <2>3, <2>4, <2>5 DEF process_async_resp, WorkerTypeOK
  <2> QED BY <1>3, <2>2, <2>6, UnchangedTypes DEF process_async_resp
<1>4. CASE DiscardOldResponse
  <2>1. respq' \in Seq(Reply)
    BY <1>4, SMT DEF DiscardOldResponse, Replied, WsTypeOK
  <2>2. WsTypeOK'
    BY <1>4, <2>1 DEF DiscardOldResponse, Replied, WsTypeOK
  <2>3. WorkerTypeOK'
    BY <1>4 DEF DiscardOldResponse, Replied, WorkerTypeOK
  <2> QED BY <1>4, <2>2, <2>3, UnchangedTypes DEF DiscardOldResponse, Replied
<1>5. CASE HandshakeContinues
  <2>0. Replied /\ Head(respq) \in Reply /\ respq' \in Seq(Reply)
    BY <1>5, SMT DEF HandshakeContinues, Replied, WsTypeOK
  <2>1. HandshakeSettings(Head(respq)) \in
          [reg_info : Owners, device_key : Nat \cup {NoKey},
           registered : [Chains -> Nat]]
    BY <2>0, NoRegistrationsType
    DEF HandshakeSettings, NoDeviceKey, NewDeviceKey, WorkerTypeOK, Reply
  <2>2. settings'.device_key \in Nat \cup {NoKey}
    BY <1>5, <2>1 DEF HandshakeContinues
  <2>3. NextHandshakeOp(Head(respq)) \in SyncOps
    BY <1>5 DEF HandshakeContinues, NextHandshakeOp, FirstDeviceOp, SyncOps, HandshakeOps
  <2>4. reqq' \in Seq(WrappedRequest) /\ call' \in SyncOps \cup {"none"}
        /\ callId' \in Nat /\ nextId' \in Nat
    BY <1>5, <2>2, <2>3, SendSyncType DEF HandshakeContinues
  <2>5. WsTypeOK'
    BY <2>0, <2>4 DEF Replied, WsTypeOK
  <2>6. WorkerTypeOK'
    BY <1>5, <2>0, <2>1, <2>4 DEF HandshakeContinues, Replied, WorkerTypeOK
  <2> QED BY <2>0, <2>5, <2>6, UnchangedTypes DEF Replied
<1>6. CASE HandshakeSucceeds
  <2>0. Replied /\ respq' \in Seq(Reply) /\ used' \in [Chains -> Nat]
    BY <1>6, SMT DEF HandshakeSucceeds, Replied, WsTypeOK, WorkerTypeOK
  <2> DEFINE push == update_push_token(nextId)
             addr == update_address_registrations(nextId + Len(push))
  <2>1. push \in Seq(AsyncRequest)
    BY PushTokenType DEF WorkerTypeOK
  <2>2. nextId + Len(push) \in Nat
    BY <2>1, SMT DEF WorkerTypeOK
  <2>3. addr \in Seq(AsyncRequest)
    BY <2>0, <2>2, RegistrationsType
  <2>4. make_async_requests(push \o addr)
    BY <1>6 DEF HandshakeSucceeds
  <2> HIDE DEF push, addr
  <2>5. asyncReqs' \subseteq AsyncRequest /\ reqq' \in Seq(WrappedRequest) /\ nextId' \in Nat
    <3>1. push \o addr \in Seq(AsyncRequest)
      BY <2>1, <2>3, SMT
    <3> QED BY <2>4, <3>1, AsyncType
  <2>6. WsTypeOK'
    BY <2>0, <2>5 DEF Replied, WsTypeOK
  <2>7. WorkerTypeOK'
    BY <1>6, <2>0, <2>5 DEF HandshakeSucceeds, Replied, WorkerTypeOK
  <2> QED BY <2>0, <2>6, <2>7, UnchangedTypes DEF Replied
<1>7. CASE PingSucceeds
  <2>1. respq' \in Seq(Reply)
    BY <1>7, SMT DEF PingSucceeds, Replied, WsTypeOK
  <2>2. WsTypeOK'
    BY <1>7, <2>1 DEF PingSucceeds, Replied, WsTypeOK
  <2>3. WorkerTypeOK'
    BY <1>7 DEF PingSucceeds, Replied, WorkerTypeOK
  <2> QED BY <1>7, <2>2, <2>3, UnchangedTypes DEF PingSucceeds, Replied
<1>8. CASE CallRefused
  <2>1. respq' \in Seq(Reply) /\ reqq' \in Seq(WrappedRequest)
    BY <1>8, MsgTypes, SMT DEF CallRefused, Replied, CallFails, restart_websocket, WsTypeOK
  <2>2. WsTypeOK'
    BY <1>8, <2>1 DEF CallRefused, Replied, WsTypeOK
  <2>3. WorkerTypeOK'
    BY <1>8 DEF CallRefused, CallFails, restart_websocket, Replied, WorkerTypeOK
  <2> QED BY <1>8, <2>2, <2>3, UnchangedTypes DEF CallRefused, Replied
<1>9. CASE CallTimeout
  <2>1. reqq' \in Seq(WrappedRequest)
    BY <1>9, MsgTypes, SMT DEF CallTimeout, CallFails, restart_websocket, WsTypeOK
  <2>2. WsTypeOK'
    BY <1>9, <2>1 DEF CallTimeout, WsTypeOK
  <2>3. WorkerTypeOK'
    BY <1>9 DEF CallTimeout, CallFails, restart_websocket, WorkerTypeOK
  <2>4. faults' \in Nat /\ uiOps' \in Nat
    BY <1>9, SMT DEF CallTimeout
  <2> QED BY <1>9, <2>2, <2>3, <2>4, UnchangedTypes DEF CallTimeout
<1> QED BY <1>1, <1>2, <1>3, <1>4, <1>5, <1>6, <1>7, <1>8, <1>9 DEF Worker

LEMMA UiType ==
    ASSUME TypeOK, Ui
    PROVE  TypeOK'
<1> USE DEF TypeOK
<1>0. ASSUME UiStep, WorkerTypeOK', reqq' \in Seq(WrappedRequest)
      PROVE  TypeOK'
  BY <1>0, UnchangedTypes, SMT DEF UiStep, WsTypeOK
<1>1. ASSUME NEW w \in Wallets, process_login_request(w) PROVE TypeOK'
  <2>1. reqq' \in Seq(WrappedRequest)
    BY <1>1, MsgTypes, SMT DEF process_login_request, send_ws_connect, WsTypeOK
  <2>2. WorkerTypeOK'
    BY <1>1 DEF process_login_request, LoginAs, WorkerTypeOK, Owners, Accounts
  <2> QED BY <1>0, <1>1, <2>1, <2>2 DEF process_login_request
<1>2. ASSUME NEW w \in Wallets, LoginFails(w) PROVE TypeOK'
  <2>1. WorkerTypeOK'
    BY <1>2 DEF LoginFails, LoginAs, WorkerTypeOK, Owners
  <2> QED BY <1>0, <1>2, <2>1 DEF LoginFails, WsTypeOK
<1>3. CASE process_logout_request
  <2>1. reqq' \in Seq(WrappedRequest)
    BY <1>3, MsgTypes, SMT DEF process_logout_request, restart_websocket, WsTypeOK
  <2>2. WorkerTypeOK'
    BY <1>3, NoRegistrationsType, DefaultSettingsType
    DEF process_logout_request, restart_websocket, WorkerTypeOK
  <2> QED BY <1>0, <1>3, <2>1, <2>2 DEF process_logout_request
<1>4. CASE process_change_network
  <2>1. WorkerTypeOK'
    BY <1>4 DEF process_change_network, WorkerTypeOK
  <2> QED BY <1>0, <1>4, <2>1 DEF process_change_network, WsTypeOK
<1>5. CASE process_update_push_token
  <2>1. update_push_token(nextId) \in Seq(AsyncRequest)
    BY PushTokenType DEF WorkerTypeOK
  <2>2. make_async_requests(update_push_token(nextId))
    BY <1>5 DEF process_update_push_token
  <2>3. asyncReqs' \subseteq AsyncRequest /\ reqq' \in Seq(WrappedRequest) /\ nextId' \in Nat
    BY <2>1, <2>2, AsyncType
  <2>4. WorkerTypeOK'
    BY <1>5, <2>3 DEF process_update_push_token, WorkerTypeOK
  <2> QED BY <1>0, <1>5, <2>3, <2>4 DEF process_update_push_token
<1>6. CASE check_ws_connection
  <2>1. "Ping" \in SyncOps /\ SendSync("Ping", NoKey)
    BY <1>6 DEF check_ws_connection, SyncOps
  <2>2. reqq' \in Seq(WrappedRequest) /\ call' \in SyncOps \cup {"none"}
        /\ callId' \in Nat /\ nextId' \in Nat
    BY <2>1, SendSyncType
  <2>3. WorkerTypeOK'
    BY <1>6, <2>2 DEF check_ws_connection, WorkerTypeOK
  <2> QED BY <1>0, <1>6, <2>2, <2>3 DEF check_ws_connection
<1>7. ASSUME NEW account \in Accounts, update_used_addresses(account) PROVE TypeOK'
  <2>1. used' \in [Chains -> Nat]
    <3>1. PICK u \in [AccountChains(account) -> 0..MaxUsed] :
            used' = [c \in Chains |-> IF c \in AccountChains(account)
                                      THEN u[c] ELSE used[c]]
      BY <1>7 DEF update_used_addresses
    <3>2. \A c \in AccountChains(account) : u[c] \in Nat
      BY ConnAssumption, SMT
    <3> QED BY <3>1, <3>2 DEF WorkerTypeOK
  <2>2. update_address_registrations(nextId) \in Seq(AsyncRequest)
    BY <2>1, RegistrationsType DEF WorkerTypeOK
  <2>3. make_async_requests(update_address_registrations(nextId))
    BY <1>7 DEF update_used_addresses
  <2>4. asyncReqs' \subseteq AsyncRequest /\ reqq' \in Seq(WrappedRequest) /\ nextId' \in Nat
    BY <2>2, <2>3, AsyncType
  <2>5. WorkerTypeOK'
    BY <1>7, <2>1, <2>4 DEF update_used_addresses, WorkerTypeOK
  <2> QED BY <1>0, <1>7, <2>4, <2>5 DEF update_used_addresses
<1> QED BY <1>1, <1>2, <1>3, <1>4, <1>5, <1>6, <1>7 DEF Ui

LEMMA AnswerType ==
    ASSUME TypeOK, NEW q, NEW res \in Results, NEW key \in Nat \cup {NoKey},
           Answer(q, res, key)
    PROVE  WsTypeOK' /\ WorkerTypeOK' /\ uiOps' \in Nat /\ q \in Request
<1>1. q \in Request
  BY DEF Answer, TypeOK, WsTypeOK
<1>2. [id |-> q.id, op |-> q.op, res |-> res, key |-> key] \in Reply
  BY <1>1 DEF Request, Reply
<1>3. WsTypeOK'
  BY <1>2 DEF Answer, TypeOK, WsTypeOK
<1> QED BY <1>1, <1>3, UnchangedTypes DEF Answer, TypeOK

LEMMA ServerType ==
    ASSUME TypeOK, NEW q \in toServer, Server(q)
    PROVE  TypeOK'
<1> USE DEF TypeOK
<1>1. CASE ServerAccepts(q)
  BY <1>1, AnswerType, UnchangedTypes DEF ServerAccepts, Results
<1>2. CASE ServerVerifyDevice(q)
  <2>1. PICK res \in Results : Answer(q, res, NoKey)
    BY <1>2 DEF ServerVerifyDevice, Results
  <2>2. UNCHANGED serverVars /\ faults' \in Nat
    BY <1>2 DEF ServerVerifyDevice
  <2> QED BY <2>1, <2>2, AnswerType, UnchangedTypes
<1>3. CASE ServerRegisterDevice(q)
  <2>1. WsTypeOK' /\ WorkerTypeOK' /\ uiOps' \in Nat
    BY <1>3, AnswerType DEF ServerRegisterDevice, Results, ServerTypeOK
  <2>2. ServerTypeOK'
    BY <1>3, SMT DEF ServerRegisterDevice, ServerTypeOK
  <2> QED BY <1>3, <2>1, <2>2 DEF ServerRegisterDevice
<1>4. CASE ServerRegisterAddresses(q)
  <2>1. WsTypeOK' /\ WorkerTypeOK' /\ uiOps' \in Nat /\ q \in Request
    BY <1>4, AnswerType DEF ServerRegisterAddresses, Results
  <2>2. srvAddrs' = srvAddrs \/ (q.key \in devices /\ srvAddrs' = srvAddrs \cup ({q.key} \X q.addrs))
    BY <1>4 DEF ServerRegisterAddresses
  <2>3. srvAddrs' \subseteq Nat \X Address
    BY <2>1, <2>2 DEF ServerTypeOK, Request
  <2>4. ServerTypeOK'
    BY <1>4, <2>3 DEF ServerRegisterAddresses, ServerTypeOK
  <2> QED BY <1>4, <2>1, <2>4 DEF ServerRegisterAddresses
<1> QED BY <1>1, <1>2, <1>3, <1>4 DEF Server

LEMMA FaultsType ==
    ASSUME TypeOK, Faults
    PROVE  TypeOK'
<1> USE DEF TypeOK
<1>1. CASE ConnectionLost
  <2>1. WsTypeOK'
    BY <1>1, MsgTypes, SMT DEF ConnectionLost, WsLost, Close, WsTypeOK
  <2> QED BY <1>1, <2>1, UnchangedTypes, SMT DEF ConnectionLost, Fault
<1>2. ASSUME NEW q \in toServer, ServerRefuses(q) PROVE TypeOK'
  <2>1. "err" \in Results /\ Answer(q, "err", NoKey)
    BY <1>2 DEF ServerRefuses, Results
  <2>2. UNCHANGED serverVars /\ faults' \in Nat
    BY <1>2, SMT DEF ServerRefuses
  <2> QED BY <2>1, <2>2, AnswerType, UnchangedTypes
<1>3. ASSUME NEW k \in devices, ServerForgetsDevice(k) PROVE TypeOK'
  BY <1>3, UnchangedTypes, SMT DEF ServerForgetsDevice, Fault, ServerTypeOK
<1>4. CASE Restart
  <2>1. WsTypeOK'
    BY <1>4, SMT DEF Restart, WsTypeOK
  <2>2. WorkerTypeOK'
    BY <1>4, NoRegistrationsType DEF Restart, WorkerTypeOK
  <2> QED BY <1>4, <2>1, <2>2, UnchangedTypes, SMT DEF Restart, Fault
<1> QED BY <1>1, <1>2, <1>3, <1>4 DEF Faults

(* Every variable of the worker, the web-socket thread and the server      *)
(* keeps its type; in particular every open callback and every request     *)
(* built from one carries a real device key, never NoKey.                  *)
THEOREM TypeCorrect == Spec => []TypeOK
<1>1. Init => TypeOK
  BY InitType
<1>2. TypeOK /\ [Next]_vars => TypeOK'
  <2> SUFFICES ASSUME TypeOK, [Next]_vars PROVE TypeOK'
    OBVIOUS
  <2>1. CASE Next
    BY <2>1, WsType, ServerType, WorkerType, UiType, FaultsType DEF Next
  <2>2. CASE UNCHANGED vars
    BY <2>2, UnchangedTypes DEF vars, TypeOK, wsVars, workerVars, serverVars
  <2> QED BY <2>1, <2>2
<1> QED BY <1>1, <1>2, PTL DEF Spec

-----------------------------------------------------------------------------
(* The reports in the message queue *)

LEMMA InAppend ==
    ASSUME NEW S, NEW q \in Seq(S), NEW x \in S, NEW m
    PROVE  In(m, Append(q, x)) <=> In(m, q) \/ x = m
<1>1. Len(Append(q, x)) = Len(q) + 1
      /\ \A i \in 1..Len(q) : Append(q, x)[i] = q[i]
      /\ Append(q, x)[Len(q) + 1] = x
  BY SMT
<1>2. Len(q) \in Nat
  BY SMT
<1>3. ASSUME In(m, q) PROVE In(m, Append(q, x))
  <2>1. PICK i \in 1..Len(q) : q[i] = m
    BY <1>3 DEF In
  <2> QED BY <1>1, <1>2, <2>1, SMT DEF In
<1>4. ASSUME x = m PROVE In(m, Append(q, x))
  BY <1>1, <1>2, <1>4, SMT DEF In
<1>5. ASSUME In(m, Append(q, x)) PROVE In(m, q) \/ x = m
  <2>1. PICK i \in 1..Len(q) + 1 : Append(q, x)[i] = m
    BY <1>1, <1>5 DEF In
  <2>2. i \in 1..Len(q) \/ i = Len(q) + 1
    BY <1>2, SMT
  <2> QED BY <1>1, <2>1, <2>2, SMT DEF In
<1> QED BY <1>3, <1>4, <1>5

LEMMA TailFacts ==
    ASSUME NEW S, NEW q \in Seq(S), q /= <<>>
    PROVE  /\ Head(q) = q[1] /\ Len(q) \in Nat \ {0}
           /\ Tail(q) \in Seq(S) /\ Len(Tail(q)) = Len(q) - 1
           /\ \A i \in 1..Len(q) - 1 : Tail(q)[i] = q[i + 1]
BY SMT

LEMMA InTail ==
    ASSUME NEW S, NEW q \in Seq(S), q /= <<>>, NEW m
    PROVE  In(m, q) <=> Head(q) = m \/ In(m, Tail(q))
<1>1. ASSUME In(m, q), Head(q) /= m PROVE In(m, Tail(q))
  <2>1. PICK i \in 1..Len(q) : q[i] = m
    BY <1>1 DEF In
  <2>2. i - 1 \in 1..Len(q) - 1 /\ (i - 1) + 1 = i
    BY <1>1, <2>1, TailFacts, SMT
  <2>3. Tail(q)[i - 1] = m
    BY <2>1, <2>2, TailFacts
  <2> QED BY <2>2, <2>3, TailFacts DEF In
<1>2. ASSUME Head(q) = m PROVE In(m, q)
  BY <1>2, TailFacts, SMT DEF In
<1>3. ASSUME In(m, Tail(q)) PROVE In(m, q)
  <2>1. PICK i \in 1..Len(q) - 1 : Tail(q)[i] = m
    BY <1>3, TailFacts DEF In
  <2>2. i + 1 \in 1..Len(q) /\ q[i + 1] = m
    BY <2>1, TailFacts, SMT
  <2> QED BY <2>2 DEF In
<1> QED BY <1>1, <1>2, <1>3

LEMMA OrderTail ==
    ASSUME NEW S, NEW q \in Seq(S), q /= <<>>, NEW open \in BOOLEAN
    PROVE  /\ LossFollows(q, open) => LossFollows(Tail(q), open)
           /\ Alternates(q) => Alternates(Tail(q))
           /\ LossPrecedes(q) /\ Head(q) /= Disconnected => LossPrecedes(Tail(q))
           /\ Alternates(q) /\ Head(q) = Connected => LossPrecedes(Tail(q))
           /\ LossPrecedes(q) => Head(q) /= Connected
           /\ LossFollows(q, open) /\ Head(q) = Connected
                => open \/ In(Disconnected, Tail(q))
<1> DEFINE t == Tail(q)
<1>0. /\ Head(q) = q[1] /\ Len(q) \in Nat \ {0} /\ Len(t) = Len(q) - 1
      /\ \A i \in 1..Len(q) - 1 : t[i] = q[i + 1]
  BY TailFacts
<1> HIDE DEF t
<1>1. ASSUME LossFollows(q, open) PROVE LossFollows(t, open)
  <2> SUFFICES ASSUME NEW i \in 1..Len(t), t[i] = Connected, ~open
               PROVE  \E j \in (i + 1)..Len(t) : t[j] = Disconnected
    BY DEF LossFollows
  <2>1. i + 1 \in 1..Len(q) /\ q[i + 1] = Connected
    BY <1>0, SMT
  <2>2. PICK j \in (i + 1 + 1)..Len(q) : q[j] = Disconnected
    BY <1>1, <2>1 DEF LossFollows
  <2>3. j - 1 \in (i + 1)..Len(t) /\ j - 1 \in 1..Len(q) - 1 /\ (j - 1) + 1 = j
    BY <1>0, <2>2, SMT
  <2>4. t[j - 1] = Disconnected
    BY <1>0, <2>2, <2>3
  <2> QED BY <2>3, <2>4
<1>2. ASSUME Alternates(q) PROVE Alternates(t)
  <2> SUFFICES ASSUME NEW i \in 1..Len(t), NEW k \in 1..Len(t), i < k,
                      t[i] = Connected, t[k] = Connected
               PROVE  \E j \in (i + 1)..(k - 1) : t[j] = Disconnected
    BY DEF Alternates
  <2>1. /\ i + 1 \in 1..Len(q) /\ k + 1 \in 1..Len(q) /\ i + 1 < k + 1
        /\ q[i + 1] = Connected /\ q[k + 1] = Connected
    BY <1>0, SMT
  <2>2. PICK j \in (i + 1 + 1)..(k + 1 - 1) : q[j] = Disconnected
    BY <1>2, <2>1, SMT DEF Alternates
  <2>3. j - 1 \in (i + 1)..(k - 1) /\ j - 1 \in 1..Len(q) - 1 /\ (j - 1) + 1 = j
    BY <1>0, <2>2, SMT
  <2>4. t[j - 1] = Disconnected
    BY <1>0, <2>2, <2>3
  <2> QED BY <2>3, <2>4
<1>3. ASSUME LossPrecedes(q), q[1] /= Disconnected PROVE LossPrecedes(t)
  <2> SUFFICES ASSUME NEW i \in 1..Len(t), t[i] = Connected
               PROVE  \E j \in 1..(i - 1) : t[j] = Disconnected
    BY DEF LossPrecedes
  <2>1. i + 1 \in 1..Len(q) /\ q[i + 1] = Connected
    BY <1>0, SMT
  <2>2. PICK j \in 1..(i + 1 - 1) : q[j] = Disconnected
    BY <1>3, <2>1, SMT DEF LossPrecedes
  <2>3. j - 1 \in 1..(i - 1) /\ j - 1 \in 1..Len(q) - 1 /\ (j - 1) + 1 = j
    BY <1>0, <1>3, <2>2, SMT
  <2>4. t[j - 1] = Disconnected
    BY <1>0, <2>2, <2>3
  <2> QED BY <2>3, <2>4
<1>4. ASSUME Alternates(q), q[1] = Connected PROVE LossPrecedes(t)
  <2> SUFFICES ASSUME NEW i \in 1..Len(t), t[i] = Connected
               PROVE  \E j \in 1..(i - 1) : t[j] = Disconnected
    BY DEF LossPrecedes
  <2>1. i + 1 \in 1..Len(q) /\ q[i + 1] = Connected /\ 1 \in 1..Len(q) /\ 1 < i + 1
    BY <1>0, SMT
  <2>2. PICK j \in (1 + 1)..(i + 1 - 1) : q[j] = Disconnected
    BY <1>4, <2>1, SMT DEF Alternates
  <2>3. j - 1 \in 1..(i - 1) /\ j - 1 \in 1..Len(q) - 1 /\ (j - 1) + 1 = j
    BY <1>0, <2>2, SMT
  <2>4. t[j - 1] = Disconnected
    BY <1>0, <2>2, <2>3
  <2> QED BY <2>3, <2>4
<1>5. ASSUME LossPrecedes(q) PROVE q[1] /= Connected
  BY <1>0, <1>5, SMT DEF LossPrecedes
<1>6. ASSUME LossFollows(q, open), q[1] = Connected, ~open PROVE In(Disconnected, t)
  <2>1. PICK j \in (1 + 1)..Len(q) : q[j] = Disconnected
    BY <1>0, <1>6, SMT DEF LossFollows
  <2>2. j - 1 \in 1..Len(q) - 1 /\ (j - 1) + 1 = j
    BY <1>0, <2>1, SMT
  <2>3. t[j - 1] = Disconnected
    BY <1>0, <2>1, <2>2
  <2> QED BY <1>0, <2>2, <2>3 DEF In
<1> QED BY <1>0, <1>1, <1>2, <1>3, <1>4, <1>5, <1>6 DEF t

LEMMA MsgsDiffer ==
    /\ Connected /= Disconnected
    /\ Connect /= Disconnect
    /\ \A r : Send(r) /= Connect /\ Response(r) /= Connected /\ Response(r) /= Disconnected
BY DEF Connected, Disconnected, Connect, Disconnect, Send, Response

LEMMA OrderAppend ==
    ASSUME NEW S, NEW q \in Seq(S), NEW x \in S, NEW open \in BOOLEAN
    PROVE  LET a == Append(q, x) IN
           /\ x = Disconnected => LossFollows(a, open)
           /\ LossFollows(q, open) /\ x /= Connected => LossFollows(a, open)
           /\ LossFollows(a, TRUE)
           /\ Alternates(q) /\ x /= Connected => Alternates(a)
           /\ Alternates(q) /\ LossFollows(q, FALSE) => Alternates(a)
           /\ LossPrecedes(q) /\ x /= Connected => LossPrecedes(a)
           /\ LossPrecedes(q) /\ In(Disconnected, q) => LossPrecedes(a)
<1> DEFINE a == Append(q, x)
<1>0. /\ Len(q) \in Nat /\ Len(a) = Len(q) + 1
      /\ \A i \in 1..Len(q) : a[i] = q[i]
      /\ a[Len(q) + 1] = x
  BY SMT
<1> HIDE DEF a
<1>1. ASSUME x = Disconnected PROVE LossFollows(a, open)
  <2> SUFFICES ASSUME NEW i \in 1..Len(a), a[i] = Connected
               PROVE  \E j \in (i + 1)..Len(a) : a[j] = Disconnected
    BY DEF LossFollows
  <2>1. i /= Len(q) + 1
    BY <1>0, <1>1, MsgsDiffer
  <2>2. Len(a) \in (i + 1)..Len(a) /\ a[Len(a)] = Disconnected
    BY <1>0, <1>1, <2>1, SMT
  <2> QED BY <2>2
<1>2. ASSUME LossFollows(q, open), x /= Connected PROVE LossFollows(a, open)
  <2> SUFFICES ASSUME NEW i \in 1..Len(a), a[i] = Connected, ~open
               PROVE  \E j \in (i + 1)..Len(a) : a[j] = Disconnected
    BY DEF LossFollows
  <2>1. i \in 1..Len(q) /\ q[i] = Connected
    BY <1>0, <1>2, SMT
  <2>2. PICK j \in (i + 1)..Len(q) : q[j] = Disconnected
    BY <1>2, <2>1 DEF LossFollows
  <2> QED BY <1>0, <2>1, <2>2, SMT
<1>3. LossFollows(a, TRUE)
  BY DEF LossFollows
<1>4. ASSUME Alternates(q), x /= Connected \/ LossFollows(q, FALSE) PROVE Alternates(a)
  <2> SUFFICES ASSUME NEW i \in 1..Len(a), NEW k \in 1..Len(a), i < k,
                      a[i] = Connected, a[k] = Connected
               PROVE  \E j \in (i + 1)..(k - 1) : a[j] = Disconnected
    BY DEF Alternates
  <2>1. i \in 1..Len(q) /\ q[i] = Connected
    BY <1>0, SMT
  <2>2. CASE k \in 1..Len(q)
    <3>1. q[k] = Connected
      BY <1>0, <2>2
    <3>2. PICK j \in (i + 1)..(k - 1) : q[j] = Disconnected
      BY <1>4, <2>1, <2>2, <3>1 DEF Alternates
    <3>3. j \in 1..Len(q)
      BY <2>1, <2>2, <3>2, SMT
    <3> QED BY <1>0, <3>2, <3>3
  <2>3. CASE k = Len(q) + 1
    <3>1. LossFollows(q, FALSE)
      BY <1>0, <1>4, <2>3
    <3>2. PICK j \in (i + 1)..Len(q) : q[j] = Disconnected
      BY <2>1, <3>1 DEF LossFollows
    <3>3. j \in 1..Len(q) /\ j \in (i + 1)..(k - 1)
      BY <1>0, <2>1, <2>3, <3>2, SMT
    <3> QED BY <1>0, <3>2, <3>3
  <2> QED BY <1>0, <2>2, <2>3, SMT
<1>5. ASSUME LossPrecedes(q), x /= Connected \/ In(Disconnected, q) PROVE LossPrecedes(a)
  <2> SUFFICES ASSUME NEW i \in 1..Len(a), a[i] = Connected
               PROVE  \E j \in 1..(i - 1) : a[j] = Disconnected
    BY DEF LossPrecedes
  <2>1. CASE i \in 1..Len(q)
    <3>1. PICK j \in 1..(i - 1) : q[j] = Disconnected
      BY <1>0, <1>5, <2>1 DEF LossPrecedes
    <3>2. j \in 1..Len(q)
      BY <2>1, <3>1, SMT
    <3> QED BY <1>0, <3>1, <3>2
  <2>2. CASE i = Len(q) + 1
    <3>1. PICK j \in 1..Len(q) : q[j] = Disconnected
      BY <1>0, <1>5, <2>2 DEF In
    <3>2. j \in 1..(i - 1)
      BY <1>0, <2>2, <3>1, SMT
    <3> QED BY <1>0, <3>1, <3>2
  <2> QED BY <1>0, <2>1, <2>2, SMT
<1> QED BY <1>1, <1>2, <1>3, <1>4, <1>5 DEF a

(* The worker's requests: those that are not a Connect bring no client     *)
(* back online.                                                            *)
LEMMA RequestsAppend ==
    ASSUME NEW S, NEW q \in Seq(S), NEW x \in S
    PROVE  /\ x /= Connect /\ GoesOffline(q) => GoesOffline(Append(q, x))
           /\ x = Disconnect => GoesOffline(Append(q, x))
<1> DEFINE a == Append(q, x)
<1>0. /\ Len(q) \in Nat /\ Len(a) = Len(q) + 1
      /\ \A i \in 1..Len(q) : a[i] = q[i]
      /\ a[Len(q) + 1] = x
  BY SMT
<1> HIDE DEF a
<1>1. ASSUME x /= Connect, GoesOffline(q) PROVE GoesOffline(a)
  <2>1. PICK i \in 1..Len(q) :
          q[i] = Disconnect /\ \A j \in (i + 1)..Len(q) : q[j] /= Connect
    BY <1>1 DEF GoesOffline
  <2>2. i \in 1..Len(a) /\ a[i] = Disconnect
    BY <1>0, <2>1, SMT
  <2>3. ASSUME NEW j \in (i + 1)..Len(a) PROVE a[j] /= Connect
    <3>1. j \in (i + 1)..Len(q) \/ j = Len(q) + 1
      BY <1>0, <2>1, SMT
    <3>2. j \in (i + 1)..Len(q) => j \in 1..Len(q)
      BY <2>1, SMT
    <3> QED BY <1>0, <1>1, <2>1, <3>1, <3>2
  <2> QED BY <2>2, <2>3 DEF GoesOffline
<1>2. ASSUME x = Disconnect PROVE GoesOffline(a)
  <2>1. Len(a) \in 1..Len(a) /\ a[Len(a)] = Disconnect
    BY <1>0, <1>2, SMT
  <2>2. \A j \in (Len(a) + 1)..Len(a) : a[j] /= Connect
    BY <1>0, SMT
  <2> QED BY <2>1, <2>2 DEF GoesOffline
<1> QED BY <1>1, <1>2 DEF a

LEMMA RequestsTail ==
    ASSUME NEW S, NEW q \in Seq(S), q /= <<>>, GoesOffline(q)
    PROVE  \/ GoesOffline(Tail(q))
           \/ Head(q) = Disconnect /\ ~In(Connect, Tail(q))
<1> DEFINE t == Tail(q)
<1>0. /\ Head(q) = q[1] /\ Len(q) \in Nat \ {0} /\ Len(t) = Len(q) - 1
      /\ \A i \in 1..Len(q) - 1 : t[i] = q[i + 1]
  BY TailFacts
<1> HIDE DEF t
<1>1. PICK i \in 1..Len(q) :
        q[i] = Disconnect /\ \A j \in (i + 1)..Len(q) : q[j] /= Connect
  BY DEF GoesOffline
<1>2. \A j \in i..Len(t) : t[j] /= Connect
  <2> SUFFICES ASSUME NEW j \in i..Len(t) PROVE t[j] /= Connect
    OBVIOUS
  <2>1. j \in 1..Len(q) - 1 /\ j + 1 \in (i + 1)..Len(q)
    BY <1>0, <1>1, SMT
  <2> QED BY <1>0, <1>1, <2>1
<1>3. CASE i = 1
  <2>1. ~In(Connect, t)
    BY <1>2, <1>3 DEF In
  <2> QED BY <1>0, <1>1, <1>3, <2>1 DEF t
<1>4. CASE i /= 1
  <2>1. i - 1 \in 1..Len(t) /\ i - 1 \in 1..Len(q) - 1 /\ (i - 1) + 1 = i
    BY <1>0, <1>1, <1>4, SMT
  <2>2. t[i - 1] = Disconnect
    BY <1>0, <1>1, <2>1
  <2>3. \A j \in ((i - 1) + 1)..Len(t) : t[j] /= Connect
    BY <1>2, <2>1
  <2>4. GoesOffline(t)
    BY <2>1, <2>2, <2>3 DEF GoesOffline
  <2> QED BY <2>4 DEF t
<1> QED BY <1>3, <1>4

LEMMA RequestsConcat ==
    ASSUME NEW S, NEW q \in Seq(S), NEW p \in Seq(S),
           \A i \in 1..Len(p) : p[i] /= Connect
    PROVE  /\ In(Connect, q \o p) <=> In(Connect, q)
           /\ GoesOffline(q) => GoesOffline(q \o p)
<1> DEFINE a == q \o p
<1>0. /\ Len(q) \in Nat /\ Len(p) \in Nat /\ Len(a) = Len(q) + Len(p)
      /\ \A i \in 1..Len(a) : a[i] = IF i <= Len(q) THEN q[i] ELSE p[i - Len(q)]
  BY SMT
<1> HIDE DEF a
<1>1. \A i \in 1..Len(q) : i \in 1..Len(a) /\ a[i] = q[i]
  BY <1>0, SMT
<1>2. ASSUME NEW i \in 1..Len(a), i \notin 1..Len(q) PROVE a[i] /= Connect
  <2>1. i - Len(q) \in 1..Len(p) /\ a[i] = p[i - Len(q)]
    BY <1>0, <1>2, SMT
  <2> QED BY <2>1
<1>3. In(Connect, a) <=> In(Connect, q)
  BY <1>1, <1>2 DEF In
<1>4. ASSUME GoesOffline(q) PROVE GoesOffline(a)
  <2>1. PICK i \in 1..Len(q) :
          q[i] = Disconnect /\ \A j \in (i + 1)..Len(q) : q[j] /= Connect
    BY <1>4 DEF GoesOffline
  <2>2. ASSUME NEW j \in (i + 1)..Len(a) PROVE a[j] /= Connect
    <3>1. j \in 1..Len(a) /\ (j \in (i + 1)..Len(q) \/ j \notin 1..Len(q))
      BY <1>0, <2>1, SMT
    <3>2. j \in (i + 1)..Len(q) => j \in 1..Len(q)
      BY <2>1, SMT
    <3> QED BY <1>1, <1>2, <2>1, <3>1, <3>2
  <2> QED BY <1>1, <2>1, <2>2 DEF GoesOffline
<1> QED BY <1>3, <1>4 DEF a

(* A step that sends no Connect: it takes no client back online, and keeps *)
(* the Connect requests that are on their way.                             *)
Quiet ==
    /\ In(Connect, reqq') <=> In(Connect, reqq)
    /\ GoesOffline(reqq) => GoesOffline(reqq')

LEMMA QuietAppend ==
    ASSUME TypeOK, NEW x \in WrappedRequest, x /= Connect, reqq' = Append(reqq, x)
    PROVE  Quiet
<1>1. reqq \in Seq(WrappedRequest)
  BY DEF TypeOK, WsTypeOK
<1> QED BY <1>1, InAppend, RequestsAppend DEF Quiet

LEMMA QuietSendSync ==
    ASSUME TypeOK, NEW op \in SyncOps, NEW key \in Nat \cup {NoKey}, SendSync(op, key)
    PROVE  Quiet
<1> DEFINE r == [id |-> nextId, op |-> op, key |-> key, addrs |-> {}]
<1>1. r \in Request
  BY SMTT(30) DEF TypeOK, WorkerTypeOK, Request
<1>2. Send(r) \in WrappedRequest /\ Send(r) /= Connect
  BY <1>1, SendType, MsgsDiffer
<1>3. reqq' = Append(reqq, Send(r))
  BY DEF SendSync
<1> HIDE DEF r
<1> QED BY <1>2, <1>3, QuietAppend

LEMMA QuietRestart ==
    ASSUME TypeOK, restart_websocket
    PROVE  Quiet /\ GoesOffline(reqq')
<1>1. reqq \in Seq(WrappedRequest)
  BY DEF TypeOK, WsTypeOK
<1>2. reqq' = Append(reqq, Disconnect)
  BY DEF restart_websocket
<1> QED BY <1>1, <1>2, MsgTypes, MsgsDiffer, QuietAppend, RequestsAppend

LEMMA QuietAsync ==
    ASSUME TypeOK, NEW cbs \in Seq(AsyncRequest), make_async_requests(cbs)
    PROVE  Quiet /\ (cbs = <<>> => asyncReqs' = asyncReqs)
<1> DEFINE msgs == [i \in 1..Len(cbs) |-> MessageOf(cbs[i])]
<1>1. ASSUME NEW i \in 1..Len(cbs)
      PROVE  MessageOf(cbs[i]) \in WrappedRequest /\ MessageOf(cbs[i]) /= Connect
  BY MessageType, MsgsDiffer, SMT DEF MessageOf
<1>2. msgs \in Seq(WrappedRequest) /\ \A i \in 1..Len(msgs) : msgs[i] /= Connect
  BY <1>1, SMT
<1>3. reqq' = reqq \o msgs
  BY SMTT(30) DEF make_async_requests
<1> HIDE DEF msgs
<1>4. Quiet
  BY <1>2, <1>3, RequestsConcat DEF Quiet, TypeOK, WsTypeOK
<1>5. cbs = <<>> => asyncReqs' = asyncReqs
  BY SMT DEF make_async_requests
<1> QED BY <1>4, <1>5, SMTT(30)

(* Only a connected worker makes asynchronous requests.                    *)
LEMMA OfflineNoCallbacks ==
    ASSUME ~connected', NEW n
    PROVE  update_push_token(n) = <<>> /\ update_address_registrations(n) = <<>>
BY SMTT(30) DEF update_push_token, update_address_registrations, ChainCallbacks

(* A step that leaves the queue of reports and the web-socket thread alone *)
(* preserves the inductive invariant if the worker holds no more of a      *)
(* connection than before.                                                 *)
LEMMA QuietStep ==
    ASSUME ConnInv, UNCHANGED <<ws, msgq>>,
           In(Connect, reqq) => In(Connect, reqq'),
           wallets' /= {} => wallets /= {} \/ In(Connect, reqq'),
           wallets' /= {} => settings'.reg_info /= NoWallet,
           settings'.reg_info = NoWallet =>
              GoesOffline(reqq') \/ (settings.reg_info = NoWallet /\ Quiet),
           HoldsConnection' => HoldsConnection,
           uiConnected' => uiConnected \/ HoldsConnection,
           HandshakeStartsClean'
    PROVE  ConnInv'
<1>1. LossFollows(msgq, ws = "connected")' /\ Alternates(msgq)'
  BY DEF ConnInv, LossFollows, Alternates
<1>2. (HoldsConnection => LossPrecedes(msgq))'
  BY DEF ConnInv, LossPrecedes
<1>3. (HoldsConnection \/ uiConnected => ws = "connected" \/ In(Disconnected, msgq))'
  BY DEF ConnInv, In
<1>4. NoLostReconnect'
  BY SMTT(30) DEF ConnInv, NoLostReconnect, In
<1>5. OfflineAfterLogout'
  BY DEF ConnInv, OfflineAfterLogout, Quiet
<1> QED BY <1>1, <1>2, <1>3, <1>4, <1>5, ZenonT(40) DEF ConnInv

LEMMA UnchangedQuiet ==
    UNCHANGED reqq => Quiet
BY DEF Quiet, In, GoesOffline

LEMMA WsKeepsConnInv ==
    ASSUME TypeOK, ConnInv, WsThread
    PROVE  ConnInv'
<1>0. /\ reqq \in Seq(WrappedRequest) /\ msgq \in Seq(WrappedResponse)
      /\ ws \in {"idle", "connecting", "connected"}
  BY DEF TypeOK, WsTypeOK
<1>1. /\ (connected' <=> connected) /\ wallets' = wallets /\ call' = call
      /\ asyncReqs' = asyncReqs /\ settings' = settings /\ (uiConnected' <=> uiConnected)
  BY DEF WsThread, workerVars
<1>2. (HoldsConnection' <=> HoldsConnection) /\ HandshakeStartsClean'
  BY <1>1 DEF HoldsConnection, ConnInv, HandshakeStartsClean
<1>3. wallets' /= {} => settings'.reg_info /= NoWallet
  BY <1>1 DEF ConnInv
<1>4. CASE WsAwaitConnect
  <2>0. /\ ws = "idle" /\ ws' \in {"idle", "connecting"} /\ reqq /= <<>>
        /\ reqq' = Tail(reqq) /\ msgq' = msgq
        /\ Head(reqq) = Connect => ws' = "connecting"
        /\ Head(reqq) /= Connect => ws' = "idle"
    BY <1>4 DEF WsAwaitConnect
  <2>1. LossFollows(msgq, ws = "connected")' /\ Alternates(msgq)'
    BY <2>0 DEF ConnInv, LossFollows, Alternates
  <2>2. (HoldsConnection => LossPrecedes(msgq))'
    BY <1>2, <2>0 DEF ConnInv, LossPrecedes
  <2>3. (HoldsConnection \/ uiConnected => ws = "connected" \/ In(Disconnected, msgq))'
    BY <1>1, <1>2, <2>0 DEF ConnInv, In
  <2>4. In(Connect, reqq) <=> Head(reqq) = Connect \/ In(Connect, reqq')
    BY <1>0, <2>0, InTail
  <2>5. NoLostReconnect'
    BY <1>1, <2>0, <2>4 DEF ConnInv, NoLostReconnect, In
  <2>6. OfflineAfterLogout'
    <3>1. GoesOffline(reqq) => GoesOffline(reqq')
                               \/ (Head(reqq) = Disconnect /\ ~In(Connect, reqq'))
      BY <1>0, <2>0, RequestsTail, SMTT(30)
    <3> QED BY <1>1, <2>0, <2>4, <3>1, MsgsDiffer DEF ConnInv, OfflineAfterLogout
  <2> QED BY <1>2, <1>3, <2>1, <2>2, <2>3, <2>5, <2>6 DEF ConnInv
<1>5. CASE WsConnected
  <2>0. /\ ws = "connecting" /\ ws' = "connected" /\ reqq' = reqq
        /\ msgq' = Append(msgq, Connected)
    BY <1>5 DEF WsConnected
  <2>1. LossFollows(msgq, FALSE)
    BY <2>0 DEF ConnInv, LossFollows
  <2>2. LossFollows(msgq, ws = "connected")'
    BY <2>0 DEF LossFollows
  <2>3. Alternates(msgq)'
    BY <1>0, <2>0, <2>1, MsgTypes, OrderAppend DEF ConnInv
  <2>4. (HoldsConnection => LossPrecedes(msgq))'
    BY <1>0, <1>2, <2>0, MsgTypes, OrderAppend DEF ConnInv
  <2>5. NoLostReconnect' /\ OfflineAfterLogout'
    BY <1>1, <2>0 DEF ConnInv, NoLostReconnect, OfflineAfterLogout, In, GoesOffline
  <2> QED BY <1>2, <1>3, <2>0, <2>2, <2>3, <2>4, <2>5 DEF ConnInv
<1>6. CASE WsServeRequest
  <2>0. /\ ws = "connected" /\ reqq /= <<>> /\ reqq' = Tail(reqq)
    BY <1>6 DEF WsServeRequest
  <2>1. GoesOffline(reqq) => GoesOffline(reqq')
                             \/ (Head(reqq) = Disconnect /\ ~In(Connect, reqq'))
    BY <1>0, <2>0, RequestsTail, SMTT(30)
  <2>2. CASE Head(reqq) = Disconnect
    <3>1. ws' = "idle" /\ msgq' = Append(msgq, Disconnected)
      BY <1>6, <2>2, MsgsDiffer, SMT DEF WsServeRequest, Close, Disconnect, Connect
    <3>2. LossFollows(msgq', FALSE) /\ Alternates(msgq')
      BY <1>0, <3>1, MsgTypes, MsgsDiffer, OrderAppend DEF ConnInv
    <3>3. LossFollows(msgq, ws = "connected")'
      BY <3>1, <3>2 DEF LossFollows
    <3>4. (HoldsConnection => LossPrecedes(msgq))'
      BY <1>0, <1>2, <3>1, MsgTypes, MsgsDiffer, OrderAppend, ZenonT(40) DEF ConnInv
    <3>5. In(Disconnected, msgq')
      BY <1>0, <3>1, MsgTypes, InAppend
    <3>6. NoLostReconnect'
      BY <3>5 DEF NoLostReconnect
    <3>7. OfflineAfterLogout'
      BY <1>1, <2>0, <2>1, <3>1 DEF ConnInv, OfflineAfterLogout
    <3> QED BY <1>2, <1>3, <3>2, <3>3, <3>4, <3>5, <3>6, <3>7 DEF ConnInv
  <2>3. CASE Head(reqq) /= Disconnect
    <3>1. ws' = ws /\ msgq' = msgq
      BY <1>6, <2>3 DEF WsServeRequest
    <3>2. LossFollows(msgq, ws = "connected")' /\ Alternates(msgq)'
      BY <3>1 DEF ConnInv, LossFollows, Alternates
    <3>3. (HoldsConnection => LossPrecedes(msgq))'
      BY <1>2, <3>1, SMTT(30) DEF ConnInv, LossPrecedes
    <3>4. NoLostReconnect' /\ OfflineAfterLogout'
      BY <1>1, <2>0, <2>1, <2>3, <3>1, ZenonT(40) DEF ConnInv, NoLostReconnect, OfflineAfterLogout
    <3> QED BY <1>2, <1>3, <2>0, <3>1, <3>2, <3>3, <3>4 DEF ConnInv
  <2> QED BY <2>2, <2>3
<1>7. ASSUME NEW r \in fromServer, WsDeliver(r) PROVE ConnInv'
  <2>0. ws = "connected" /\ ws' = ws /\ reqq' = reqq
    BY <1>7 DEF WsDeliver
  <2>1. msgq' = msgq \/ msgq' = Append(msgq, Response(r))
    BY <1>7 DEF WsDeliver, Forward
  <2>2. Response(r) \in WrappedResponse
    BY DEF TypeOK, WsTypeOK, Response, WrappedResponse
  <2> DEFINE a == Append(msgq, Response(r))
  <2>3. Alternates(a) /\ (LossPrecedes(msgq) => LossPrecedes(a))
    BY <1>0, <2>2, MsgsDiffer, OrderAppend DEF ConnInv
  <2> HIDE DEF a
  <2>4. Alternates(msgq') /\ (HoldsConnection' => LossPrecedes(msgq'))
    BY <1>2, <2>1, <2>3 DEF ConnInv, a
  <2>5. LossFollows(msgq, ws = "connected")'
    BY <2>0 DEF LossFollows
  <2>6. NoLostReconnect' /\ OfflineAfterLogout'
    BY <1>1, <2>0 DEF ConnInv, NoLostReconnect, OfflineAfterLogout
  <2> QED BY <1>2, <1>3, <2>0, <2>4, <2>5, <2>6 DEF ConnInv
<1> QED BY <1>4, <1>5, <1>6, <1>7 DEF WsThread

LEMMA WorkerKeepsConnInv ==
    ASSUME TypeOK, ConnInv, Worker
    PROVE  ConnInv'
<1>0. /\ reqq \in Seq(WrappedRequest) /\ msgq \in Seq(WrappedResponse)
      /\ ws \in {"idle", "connecting", "connected"}
      /\ connected \in BOOLEAN /\ uiConnected \in BOOLEAN
  BY DEF TypeOK, WsTypeOK, WorkerTypeOK
<1>1. "none" \notin HandshakeOps /\ "Ping" \notin HandshakeOps /\ "Login" \in HandshakeOps
      /\ "LoginClient" \in HandshakeOps /\ HandshakeOps \subseteq SyncOps
  BY DEF HandshakeOps, SyncOps
<1>2. CASE process_ws_connected
  <2>0. /\ call = "none" /\ msgq /= <<>> /\ Head(msgq) = Connected /\ msgq' = Tail(msgq)
        /\ call' = "LoginClient" /\ ws' = ws /\ connected' = connected
        /\ wallets' = wallets /\ asyncReqs' = asyncReqs /\ settings' = settings
        /\ uiConnected' = uiConnected
    BY <1>2 DEF process_ws_connected, Free, SendSync
  <2>1. Quiet
    BY <1>1, <1>2, QuietSendSync DEF process_ws_connected
  <2>2. ~HoldsConnection
    BY <1>0, <2>0, OrderTail DEF ConnInv
  <2>3. HandshakeStartsClean'
    BY <2>0, <2>2 DEF HoldsConnection, HandshakeStartsClean
  <2> DEFINE open == ws = "connected"
  <2>4. /\ LossFollows(msgq', open) /\ Alternates(msgq') /\ LossPrecedes(msgq')
        /\ open \/ In(Disconnected, msgq')
    BY <1>0, <2>0, OrderTail DEF ConnInv
  <2>5. LossFollows(msgq, ws = "connected")'
    BY <2>0, <2>4 DEF LossFollows
  <2>6. NoLostReconnect'
    BY <2>0, <2>4 DEF NoLostReconnect
  <2>7. OfflineAfterLogout'
    BY <2>0, <2>1 DEF ConnInv, OfflineAfterLogout, Quiet
  <2> QED BY <2>0, <2>3, <2>4, <2>5, <2>6, <2>7 DEF ConnInv
<1>3. CASE process_ws_disconnected
  <2>0. /\ call = "none" /\ msgq /= <<>> /\ Head(msgq) = Disconnected /\ msgq' = Tail(msgq)
        /\ call' = "none" /\ ws' = ws /\ connected' = FALSE /\ wallets' = wallets
        /\ asyncReqs' = {} /\ settings' = settings /\ uiConnected' = FALSE
    BY <1>3 DEF process_ws_disconnected, Free, fail_async_requests
  <2>1. ~HoldsConnection' /\ HandshakeStartsClean'
    BY <1>1, <2>0, SMTT(30) DEF HoldsConnection, HandshakeStartsClean
  <2> DEFINE open == ws = "connected"
  <2>2. LossFollows(msgq', open) /\ Alternates(msgq')
    BY <1>0, <2>0, OrderTail DEF ConnInv
  <2>3. LossFollows(msgq, ws = "connected")'
    BY <2>0, <2>2 DEF LossFollows
  <2>4. CASE wallets = {}
    <3>1. Quiet
      BY <1>3, <2>4, UnchangedQuiet DEF process_ws_disconnected, logged_in
    <3>2. NoLostReconnect' /\ OfflineAfterLogout'
      BY <2>0, <2>4, <3>1 DEF ConnInv, NoLostReconnect, OfflineAfterLogout, Quiet
    <3> QED BY <2>0, <2>1, <2>2, <2>3, <2>4, <3>2 DEF ConnInv
  <2>5. CASE wallets /= {}
    <3>1. reqq' = Append(reqq, Connect)
      BY <1>3, <2>5 DEF process_ws_disconnected, logged_in, send_ws_connect
    <3>2. In(Connect, reqq')
      BY <1>0, <3>1, MsgTypes, InAppend
    <3>3. settings'.reg_info /= NoWallet
      BY <2>0, <2>5 DEF ConnInv
    <3>4. NoLostReconnect' /\ OfflineAfterLogout'
      BY <3>2, <3>3, SMTT(30) DEF NoLostReconnect, OfflineAfterLogout
    <3> QED BY <2>0, <2>1, <2>2, <2>3, <3>3, <3>4 DEF ConnInv
  <2> QED BY <2>4, <2>5
<1>4. CASE process_async_resp
  <2>0. /\ call = "none" /\ msgq /= <<>> /\ Head(msgq).type = "Response"
        /\ msgq' = Tail(msgq) /\ call' = call /\ ws' = ws /\ connected' = connected
        /\ wallets' = wallets /\ uiConnected' = uiConnected /\ reqq' = reqq
        /\ asyncReqs' \subseteq asyncReqs
    BY <1>4 DEF process_async_resp, Free
  <2>1. settings'.reg_info = settings.reg_info
    <3>1. settings' = settings \/ \E cb \in asyncReqs :
            settings' = [settings EXCEPT !.registered[cb.chain] = cb.last]
      BY <1>4 DEF process_async_resp
    <3> QED BY <3>1 DEF TypeOK, WorkerTypeOK
  <2>2. Head(msgq) /= Connected /\ Head(msgq) /= Disconnected
    BY <2>0, SMT DEF Connected, Disconnected
  <2> DEFINE open == ws = "connected"
  <2>3. /\ LossFollows(msgq', open) /\ Alternates(msgq')
        /\ LossPrecedes(msgq) => LossPrecedes(msgq')
    BY <1>0, <2>0, <2>2, OrderTail DEF ConnInv
  <2>4. In(Disconnected, msgq') <=> In(Disconnected, msgq)
    BY <1>0, <2>0, <2>2, InTail
  <2>5. LossFollows(msgq, ws = "connected")'
    BY <2>0, <2>3 DEF LossFollows
  <2>6. (HoldsConnection' => HoldsConnection) /\ HandshakeStartsClean'
    BY <1>1, <2>0 DEF HoldsConnection, HandshakeStartsClean
  <2>7. NoLostReconnect'
    BY <2>0, <2>4 DEF ConnInv, NoLostReconnect
  <2>8. OfflineAfterLogout'
    BY <2>0, <2>1 DEF ConnInv, OfflineAfterLogout
  <2>9. wallets' /= {} => settings'.reg_info /= NoWallet
    BY <2>0, <2>1, SMTT(30) DEF ConnInv
  <2> QED BY <2>0, <2>3, <2>4, <2>5, <2>6, <2>7, <2>8, <2>9 DEF ConnInv
<1>5. CASE DiscardOldResponse
  <2>1. UNCHANGED <<ws, msgq, reqq, wallets, settings, connected, call, asyncReqs, uiConnected>>
    BY <1>5 DEF DiscardOldResponse, Replied
  <2>2. (HoldsConnection' => HoldsConnection) /\ HandshakeStartsClean'
    BY <2>1, SMTT(30) DEF HoldsConnection, ConnInv, HandshakeStartsClean
  <2> QED BY <2>1, <2>2, UnchangedQuiet, QuietStep DEF ConnInv, Quiet
<1>6. CASE HandshakeContinues
  <2>0. Replied /\ Head(respq) \in Reply
    BY <1>6, SMT DEF HandshakeContinues, Replied, TypeOK, WsTypeOK
  <2>1. /\ UNCHANGED <<ws, msgq, wallets, connected, asyncReqs, uiConnected>>
        /\ call \in HandshakeOps
    BY <1>6 DEF HandshakeContinues, Replied
  <2>2. settings'.reg_info = settings.reg_info /\ settings'.device_key \in Nat \cup {NoKey}
    BY <1>6, <2>0, NoRegistrationsType
    DEF HandshakeContinues, HandshakeSettings, NoDeviceKey, NewDeviceKey, TypeOK,
        WorkerTypeOK, Reply
  <2>3. NextHandshakeOp(Head(respq)) \in SyncOps
    BY <1>6 DEF HandshakeContinues, NextHandshakeOp, FirstDeviceOp, SyncOps, HandshakeOps
  <2>4. Quiet
    BY <1>6, <2>2, <2>3, QuietSendSync DEF HandshakeContinues
  <2>5. (HoldsConnection' => HoldsConnection) /\ HandshakeStartsClean'
    BY <2>1 DEF HoldsConnection, ConnInv, HandshakeStartsClean
  <2> QED BY <2>1, <2>2, <2>4, <2>5, QuietStep DEF ConnInv, Quiet
<1>7. CASE HandshakeSucceeds
  <2>0. /\ UNCHANGED <<ws, msgq, wallets, settings>>
        /\ call = "Login" /\ call' = "none" /\ used' = used
    BY <1>7 DEF HandshakeSucceeds, Replied
  <2> DEFINE push == update_push_token(nextId)
             addr == update_address_registrations(nextId + Len(push))
  <2>1. push \in Seq(AsyncRequest)
    BY PushTokenType DEF TypeOK, WorkerTypeOK
  <2>2. nextId + Len(push) \in Nat
    BY <2>1, SMT DEF TypeOK, WorkerTypeOK
  <2>3. addr \in Seq(AsyncRequest)
    BY <2>0, <2>2, RegistrationsType DEF TypeOK, WorkerTypeOK
  <2>4. make_async_requests(push \o addr)
    BY <1>7 DEF HandshakeSucceeds
  <2> HIDE DEF push, addr
  <2>5. push \o addr \in Seq(AsyncRequest)
    BY <2>1, <2>3, SMT
  <2>6. Quiet
    BY <2>4, <2>5, QuietAsync, ZenonT(40)
  <2>7. HoldsConnection /\ HandshakeStartsClean'
    BY <1>1, <2>0 DEF HoldsConnection, HandshakeStartsClean
  <2> QED BY <2>0, <2>6, <2>7, QuietStep DEF ConnInv, Quiet
<1>8. CASE PingSucceeds
  <2>1. /\ UNCHANGED <<ws, msgq, reqq, wallets, settings, connected, asyncReqs, uiConnected>>
        /\ call' = "none"
    BY <1>8 DEF PingSucceeds, Replied
  <2>2. (HoldsConnection' => HoldsConnection) /\ HandshakeStartsClean'
    BY <1>1, <2>1 DEF HoldsConnection, HandshakeStartsClean
  <2> QED BY <2>1, <2>2, UnchangedQuiet, QuietStep DEF ConnInv, Quiet
<1>9. CASE CallRefused \/ CallTimeout
  <2>1. CallFails /\ UNCHANGED <<ws, msgq, wallets>>
    BY <1>9 DEF CallRefused, CallTimeout, Replied
  <2>2. /\ UNCHANGED <<settings, asyncReqs, uiConnected>> /\ call' = "none" /\ connected' = FALSE
        /\ Quiet
    BY <2>1, QuietRestart DEF CallFails, restart_websocket
  <2>3. (HoldsConnection' => HoldsConnection) /\ HandshakeStartsClean'
    BY <1>1, <2>2 DEF HoldsConnection, HandshakeStartsClean
  <2> QED BY <2>1, <2>2, <2>3, QuietStep DEF ConnInv, Quiet
<1> QED BY <1>2, <1>3, <1>4, <1>5, <1>6, <1>7, <1>8, <1>9 DEF Worker

LEMMA UiKeepsConnInv ==
    ASSUME TypeOK, ConnInv, Ui
    PROVE  ConnInv'
<1>0. /\ reqq \in Seq(WrappedRequest) /\ connected \in BOOLEAN /\ nextId \in Nat
  BY DEF TypeOK, WsTypeOK, WorkerTypeOK
<1>1. "none" \notin HandshakeOps /\ "Ping" \notin HandshakeOps /\ "Ping" \in SyncOps
  BY DEF HandshakeOps, SyncOps
<1>2. ASSUME NEW w \in Wallets, process_login_request(w) PROVE ConnInv'
  <2>1. /\ UNCHANGED <<ws, msgq, connected, call, asyncReqs, uiConnected>>
        /\ reqq' = Append(reqq, Connect)
    BY <1>2 DEF process_login_request, UiStep, send_ws_connect
  <2>2. settings'.reg_info /= NoWallet
    BY <1>2, ConnAssumption DEF process_login_request, LoginAs, TypeOK, WorkerTypeOK
  <2>3. In(Connect, reqq')
    BY <1>0, <2>1, MsgTypes, InAppend
  <2>4. (HoldsConnection' => HoldsConnection) /\ HandshakeStartsClean'
    BY <2>1, SMTT(30) DEF HoldsConnection, ConnInv, HandshakeStartsClean
  <2> QED BY <2>1, <2>2, <2>3, <2>4, QuietStep
<1>3. ASSUME NEW w \in Wallets, LoginFails(w) PROVE ConnInv'
  <2>1. UNCHANGED <<ws, msgq, reqq, wallets, connected, call, asyncReqs, uiConnected>>
    BY <1>3 DEF LoginFails, UiStep
  <2>2. settings'.reg_info /= NoWallet \/ settings' = settings
    BY <1>3, ConnAssumption DEF LoginFails, LoginAs, TypeOK, WorkerTypeOK
  <2>3. (HoldsConnection' => HoldsConnection) /\ HandshakeStartsClean'
    BY <2>1, SMTT(30) DEF HoldsConnection, ConnInv, HandshakeStartsClean
  <2> QED BY <2>1, <2>2, <2>3, UnchangedQuiet, QuietStep DEF ConnInv, Quiet
<1>4. CASE process_logout_request
  <2>1. /\ UNCHANGED <<ws, msgq, call, asyncReqs, uiConnected>>
        /\ wallets' = {} /\ connected' = FALSE /\ restart_websocket
    BY <1>4 DEF process_logout_request, UiStep, restart_websocket
  <2>2. Quiet /\ GoesOffline(reqq')
    BY <2>1, QuietRestart
  <2>3. (HoldsConnection' => HoldsConnection) /\ HandshakeStartsClean'
    BY <2>1, SMTT(30) DEF HoldsConnection, ConnInv, HandshakeStartsClean
  <2> QED BY <2>1, <2>2, <2>3, QuietStep DEF Quiet
<1>5. CASE process_change_network
  <2>1. /\ UNCHANGED <<ws, msgq, reqq, connected, call, asyncReqs, uiConnected, settings>>
        /\ wallets' \subseteq wallets
    BY <1>5 DEF process_change_network, UiStep
  <2>2. (HoldsConnection' => HoldsConnection) /\ HandshakeStartsClean'
    BY <2>1, SMTT(30) DEF HoldsConnection, ConnInv, HandshakeStartsClean
  <2> QED BY <2>1, <2>2, UnchangedQuiet, QuietStep DEF ConnInv, Quiet
<1>6. ASSUME NEW cbs \in Seq(AsyncRequest), make_async_requests(cbs), call = "none",
             UNCHANGED <<ws, msgq, connected, call, wallets, settings, uiConnected>>,
             ~connected => cbs = <<>>
      PROVE  ConnInv'
  <2>1. Quiet /\ (~connected => asyncReqs' = asyncReqs)
    BY <1>6, QuietAsync
  <2>2. (HoldsConnection' => HoldsConnection) /\ HandshakeStartsClean'
    BY <1>1, <1>6, <2>1 DEF HoldsConnection, HandshakeStartsClean
  <2> QED BY <1>6, <2>1, <2>2, QuietStep DEF ConnInv, Quiet
<1>7. CASE process_update_push_token
  <2>1. /\ UNCHANGED <<ws, msgq, connected, call, wallets, settings, uiConnected>>
        /\ call = "none" /\ make_async_requests(update_push_token(nextId))
    BY <1>7 DEF process_update_push_token, UiStep, Free
  <2>2. update_push_token(nextId) \in Seq(AsyncRequest)
    BY PushTokenType DEF TypeOK, WorkerTypeOK
  <2>3. ~connected => update_push_token(nextId) = <<>>
    BY <2>1, OfflineNoCallbacks, SMTT(30)
  <2> QED BY <1>6, <2>1, <2>2, <2>3
<1>8. CASE check_ws_connection
  <2>1. /\ UNCHANGED <<ws, msgq, wallets, settings, connected, asyncReqs, uiConnected>>
        /\ call' = "Ping" /\ SendSync("Ping", NoKey)
    BY <1>8 DEF check_ws_connection, UiStep, SendSync
  <2>2. Quiet
    BY <1>1, <2>1, QuietSendSync
  <2>3. (HoldsConnection' => HoldsConnection) /\ HandshakeStartsClean'
    BY <1>1, <2>1 DEF HoldsConnection, HandshakeStartsClean
  <2> QED BY <2>1, <2>2, <2>3, QuietStep DEF ConnInv, Quiet
<1>9. ASSUME NEW account \in Accounts, update_used_addresses(account) PROVE ConnInv'
  <2>1. /\ UNCHANGED <<ws, msgq, connected, call, wallets, settings, uiConnected>>
        /\ call = "none" /\ make_async_requests(update_address_registrations(nextId))
    BY <1>9 DEF update_used_addresses, UiStep, Free
  <2>2. used' \in [Chains -> Nat]
    BY <1>9, UiType DEF Ui, TypeOK, WorkerTypeOK
  <2>3. update_address_registrations(nextId) \in Seq(AsyncRequest)
    BY <2>2, RegistrationsType DEF TypeOK, WorkerTypeOK
  <2>4. ~connected => update_address_registrations(nextId) = <<>>
    BY <2>1, OfflineNoCallbacks, SMTT(30)
  <2> QED BY <1>6, <2>1, <2>3, <2>4
<1> QED BY <1>2, <1>3, <1>4, <1>5, <1>7, <1>8, <1>9 DEF Ui

LEMMA OtherKeepsConnInv ==
    ASSUME ConnInv, UNCHANGED <<ws, msgq, reqq, workerVars>>
    PROVE  ConnInv'
<1>1. UNCHANGED <<wallets, settings, connected, call, asyncReqs, uiConnected>>
  BY DEF workerVars
<1>2. (HoldsConnection' => HoldsConnection) /\ HandshakeStartsClean'
  BY <1>1 DEF HoldsConnection, ConnInv, HandshakeStartsClean
<1> QED BY <1>1, <1>2, UnchangedQuiet, QuietStep DEF ConnInv, Quiet

LEMMA FaultsKeepConnInv ==
    ASSUME TypeOK, ConnInv, Faults
    PROVE  ConnInv'
<1>1. CASE ConnectionLost
  <2>0. /\ ws' = "idle" /\ msgq' = Append(msgq, Disconnected) /\ reqq' = reqq
        /\ ws = "connected" /\ msgq \in Seq(WrappedResponse)
    BY <1>1 DEF ConnectionLost, WsLost, Close, TypeOK, WsTypeOK
  <2>1. UNCHANGED <<wallets, settings, connected, call, asyncReqs, uiConnected>>
    BY <1>1, SMTT(30) DEF ConnectionLost, workerVars
  <2>2. LossFollows(msgq', FALSE) /\ Alternates(msgq')
        /\ (LossPrecedes(msgq) => LossPrecedes(msgq'))
    BY <2>0, MsgTypes, MsgsDiffer, OrderAppend DEF ConnInv
  <2>3. LossFollows(msgq, ws = "connected")'
    BY <2>0, <2>2 DEF LossFollows
  <2>4. In(Disconnected, msgq')
    BY <2>0, MsgTypes, InAppend
  <2>5. (HoldsConnection' => HoldsConnection) /\ HandshakeStartsClean'
    BY <2>1 DEF HoldsConnection, ConnInv, HandshakeStartsClean
  <2>6. NoLostReconnect' /\ OfflineAfterLogout'
    BY <2>0, <2>1, <2>4 DEF ConnInv, NoLostReconnect, OfflineAfterLogout
  <2> QED BY <2>1, <2>2, <2>3, <2>4, <2>5, <2>6 DEF ConnInv
<1>2. ASSUME NEW q \in toServer, ServerRefuses(q) PROVE ConnInv'
  BY <1>2, OtherKeepsConnInv DEF ServerRefuses, Answer
<1>3. ASSUME NEW k \in devices, ServerForgetsDevice(k) PROVE ConnInv'
  BY <1>3, OtherKeepsConnInv, SMTT(30) DEF ServerForgetsDevice, wsVars
<1>4. CASE Restart
  <2>1. /\ ws' = "idle" /\ reqq' = <<>> /\ msgq' = <<>> /\ connected' = FALSE
        /\ wallets' = {} /\ call' = "none" /\ asyncReqs' = {} /\ uiConnected' = FALSE
    BY <1>4 DEF Restart
  <2>2. LossFollows(msgq, ws = "connected")' /\ Alternates(msgq)'
    BY <2>1, SMT DEF LossFollows, Alternates
  <2>3. ~HoldsConnection' /\ HandshakeStartsClean'
    BY <2>1 DEF HoldsConnection, HandshakeStartsClean, HandshakeOps
  <2>4. NoLostReconnect' /\ OfflineAfterLogout'
    BY <2>1, SMT DEF NoLostReconnect, OfflineAfterLogout, In
  <2> QED BY <2>1, <2>2, <2>3, <2>4 DEF ConnInv
<1> QED BY <1>1, <1>2, <1>3, <1>4, SMTT(30) DEF Faults

(* The inductive invariant of the connection management holds in every     *)
(* state, for any number of wallets, address chains, UI requests and       *)
(* faults: reports of connections and losses are handled in order.         *)
THEOREM ConnCorrect == Spec => []ConnInv
<1>1. Init => ConnInv
  <2> SUFFICES ASSUME Init PROVE ConnInv
    OBVIOUS
  <2>1. LossFollows(msgq, ws = "connected") /\ Alternates(msgq)
    BY SMT DEF Init, WsInit, LossFollows, Alternates
  <2>2. ~HoldsConnection /\ HandshakeStartsClean
    BY DEF Init, HoldsConnection, HandshakeStartsClean, HandshakeOps
  <2>3. NoLostReconnect /\ OfflineAfterLogout
    BY SMT DEF Init, WsInit, NoLostReconnect, OfflineAfterLogout, In
  <2> QED BY <2>1, <2>2, <2>3 DEF Init, ConnInv
<1>2. TypeOK /\ ConnInv /\ [Next]_vars => ConnInv'
  <2> SUFFICES ASSUME TypeOK, ConnInv, [Next]_vars PROVE ConnInv'
    BY SMTT(30)
  <2>1. ASSUME NEW q \in toServer, Server(q) PROVE ConnInv'
    BY <2>1, OtherKeepsConnInv
    DEF Server, ServerAccepts, ServerVerifyDevice, ServerRegisterDevice,
        ServerRegisterAddresses, Answer
  <2>2. CASE Next
    BY <2>1, <2>2, WsKeepsConnInv, WorkerKeepsConnInv, UiKeepsConnInv, FaultsKeepConnInv
    DEF Next
  <2>3. CASE UNCHANGED vars
    BY <2>3, OtherKeepsConnInv DEF vars, wsVars
  <2> QED BY <2>2, <2>3
<1> QED BY <1>1, <1>2, TypeCorrect, PTL DEF Spec

(* A logged-in client never stays offline for want of a Connect request.   *)
THEOREM NeverLostReconnect == Spec => []NoLostReconnect
<1>1. ConnInv => NoLostReconnect
  BY DEF ConnInv
<1> QED BY <1>1, ConnCorrect, PTL

(* connected and the state shown by the UI never outlive the connection    *)
(* without its loss being about to be handled.                             *)
THEOREM AlwaysHonest == Spec => []ConnectedIsHonest
<1>1. ConnInv => ConnectedIsHonest
  BY DEF ConnInv, ConnectedIsHonest, HoldsConnection
<1> QED BY <1>1, ConnCorrect, PTL

(* No callback is left open without a connection or a loss to be handled.  *)
THEOREM CallbacksNotForgotten == Spec => []NoForgottenCallback
<1>1. ConnInv => NoForgottenCallback
  BY DEF ConnInv, NoForgottenCallback, HoldsConnection
<1> QED BY <1>1, ConnCorrect, PTL

(* A handshake never runs with what is left of an earlier connection.      *)
THEOREM HandshakesStartClean == Spec => []HandshakeStartsClean
<1>1. ConnInv => HandshakeStartsClean
  BY DEF ConnInv
<1> QED BY <1>1, ConnCorrect, PTL

(* After a logout nothing but the next login takes the client online.      *)
THEOREM LogoutGoesOffline == Spec => []OfflineAfterLogout
<1>1. ConnInv => OfflineAfterLogout
  BY DEF ConnInv
<1> QED BY <1>1, ConnCorrect, PTL
=============================================================================
