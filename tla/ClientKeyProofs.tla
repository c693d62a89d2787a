-------------------------- MODULE ClientKeyProofs --------------------------
(* The device key and the address registrations of ClientConn, for every   *)
(* value of its constants: the settings never count an address the server  *)
(* does not know, and a device key is not given up needlessly.             *)
EXTENDS ClientConnProofs

(* Zenon is tried where a leaf cites no prover; SMT is cited where         *)
(* arithmetic, sequences or records are needed.                            *)
USE Zenon

-----------------------------------------------------------------------------
(* What is on its way *)

(* Requests and replies of a queue whose head was read.                    *)
LEMMA TailCarries ==
    ASSUME NEW S, NEW q \in Seq(S), q /= <<>>
    PROVE  /\ Requests(Tail(q)) \subseteq Requests(q)
           /\ Replies(Tail(q)) \subseteq Replies(q)
           /\ Items(Tail(q)) \subseteq Items(q)
           /\ Head(q) \in Items(q)
           /\ Head(q).type = "Request" => Head(q).req \in Requests(q)
           /\ Head(q).type = "Response" => Head(q).reply \in Replies(q)
<1>1. /\ Len(q) \in Nat /\ Len(q) >= 1 /\ Head(q) = q[1]
      /\ \A i \in 1..Len(Tail(q)) : i + 1 \in 1..Len(q) /\ Tail(q)[i] = q[i + 1]
  BY SMT
<1>2. 1 \in 1..Len(q)
  BY <1>1, SMT
<1> DEFINE t == Tail(q)
<1> HIDE DEF t
<1>3. \A i \in 1..Len(t) : \E j \in 1..Len(q) : t[i] = q[j]
  BY <1>1 DEF t
<1>4. Requests(t) \subseteq Requests(q)
  BY <1>3 DEF Requests
<1>5. Replies(t) \subseteq Replies(q)
  BY <1>3 DEF Replies
<1>6. Items(t) \subseteq Items(q)
  BY <1>3 DEF Items
<1>7. /\ Head(q) \in Items(q)
      /\ Head(q).type = "Request" => Head(q).req \in Requests(q)
      /\ Head(q).type = "Response" => Head(q).reply \in Replies(q)
  BY <1>1, <1>2 DEF Items, Requests, Replies
<1> QED BY <1>4, <1>5, <1>6, <1>7 DEF t

(* ... and of a queue to which a message, or a few, were appended.         *)
LEMMA ConcatCarries ==
    ASSUME NEW S, NEW q \in Seq(S), NEW p \in Seq(S)
    PROVE  /\ Requests(q \o p) \subseteq Requests(q) \cup Requests(p)
           /\ Replies(q \o p) \subseteq Replies(q) \cup Replies(p)
           /\ Items(q \o p) \subseteq Items(q) \cup Items(p)
<1> DEFINE a == q \o p
<1>1. ASSUME NEW i \in 1..Len(a)
      PROVE  (\E j \in 1..Len(q) : a[i] = q[j]) \/ (\E j \in 1..Len(p) : a[i] = p[j])
  <2>1. /\ Len(q) \in Nat /\ Len(p) \in Nat /\ Len(a) = Len(q) + Len(p)
        /\ a[i] = IF i <= Len(q) THEN q[i] ELSE p[i - Len(q)]
    BY SMT
  <2> HIDE DEF a
  <2>2. CASE i <= Len(q)
    <3>1. i \in 1..Len(q) /\ a[i] = q[i]
      BY <2>1, <2>2, SMT
    <3> QED BY <3>1
  <2>3. CASE ~(i <= Len(q))
    <3>1. i - Len(q) \in 1..Len(p) /\ a[i] = p[i - Len(q)]
      BY <2>1, <2>3, SMT
    <3> QED BY <3>1
  <2> QED BY <2>2, <2>3
<1> HIDE DEF a
<1>2. Requests(a) \subseteq Requests(q) \cup Requests(p)
  BY <1>1 DEF Requests
<1>3. Replies(a) \subseteq Replies(q) \cup Replies(p)
  BY <1>1 DEF Replies
<1>4. Items(a) \subseteq Items(q) \cup Items(p)
  BY <1>1 DEF Items
<1> QED BY <1>2, <1>3, <1>4 DEF a

LEMMA AppendCarries ==
    ASSUME NEW S, NEW q \in Seq(S), NEW x \in S
    PROVE  /\ \A e \in Requests(Append(q, x)) :
                 e \in Requests(q) \/ (x.type = "Request" /\ e = x.req)
           /\ \A e \in Replies(Append(q, x)) :
                 e \in Replies(q) \/ (x.type = "Response" /\ e = x.reply)
           /\ Items(Append(q, x)) \subseteq Items(q) \cup {x}
<1> DEFINE a == Append(q, x)
<1>1. ASSUME NEW i \in 1..Len(a)
      PROVE  a[i] = x \/ \E j \in 1..Len(q) : a[i] = q[j]
  <2>1. Len(q) \in Nat /\ Len(a) = Len(q) + 1 /\ a[i] = IF i = Len(q) + 1 THEN x ELSE q[i]
    BY SMT
  <2> HIDE DEF a
  <2>2. i = Len(q) + 1 \/ i \in 1..Len(q)
    BY <2>1, SMT
  <2> QED BY <2>1, <2>2
<1> HIDE DEF a
<1>2. \A e \in Requests(a) : e \in Requests(q) \/ (x.type = "Request" /\ e = x.req)
  BY <1>1 DEF Requests
<1>3. \A e \in Replies(a) : e \in Replies(q) \/ (x.type = "Response" /\ e = x.reply)
  BY <1>1 DEF Replies
<1>4. Items(a) \subseteq Items(q) \cup {x}
  BY <1>1 DEF Items
<1> QED BY <1>2, <1>3, <1>4 DEF a

LEMMA CarriedTypes ==
    ASSUME TypeOK
    PROVE  Asked \subseteq Request /\ Told \subseteq Reply
<1>1. ASSUME NEW i \in 1..Len(reqq), reqq[i].type = "Request" PROVE reqq[i].req \in Request
  <2>1. reqq[i] \in WrappedRequest
    BY SMT DEF TypeOK, WsTypeOK
  <2> QED BY <1>1, <2>1, SMT DEF WrappedRequest, Connect, Disconnect
<1>2. ASSUME NEW i \in 1..Len(msgq), msgq[i].type = "Response" PROVE msgq[i].reply \in Reply
  <2>1. msgq[i] \in WrappedResponse
    BY SMT DEF TypeOK, WsTypeOK
  <2> QED BY <1>2, <2>1, SMT DEF WrappedResponse, Connected, Disconnected
<1>3. Requests(reqq) \subseteq Request
  BY <1>1 DEF Requests
<1>4. Replies(msgq) \subseteq Reply
  BY <1>2 DEF Replies
<1>5. Items(respq) \subseteq Reply
  BY SMT DEF TypeOK, WsTypeOK, Items
<1>6. toServer \subseteq Request /\ fromServer \subseteq Reply
  BY DEF TypeOK, WsTypeOK
<1> QED BY <1>3, <1>4, <1>5, <1>6 DEF Asked, Told

(* Queues that were read from or written to by one message.                *)
LEMMA AskedMoves ==
    ASSUME TypeOK, toServer' \subseteq toServer,
           \/ reqq' = reqq
           \/ reqq' = <<>>
           \/ reqq /= <<>> /\ reqq' = Tail(reqq)
           \/ reqq' = Append(reqq, Connect)
           \/ reqq' = Append(reqq, Disconnect)
    PROVE  Asked' \subseteq Asked
<1>1. reqq \in Seq(WrappedRequest)
  BY DEF TypeOK, WsTypeOK
<1>2. Requests(<<>>) = {}
  BY SMT DEF Requests
<1>3. Connect.type /= "Request" /\ Disconnect.type /= "Request"
  BY DEF Connect, Disconnect
<1>4. Requests(Append(reqq, Connect)) \subseteq Requests(reqq)
  BY <1>1, <1>3, MsgTypes, AppendCarries
<1>5. Requests(Append(reqq, Disconnect)) \subseteq Requests(reqq)
  BY <1>1, <1>3, MsgTypes, AppendCarries
<1>6. reqq /= <<>> => Requests(Tail(reqq)) \subseteq Requests(reqq)
  BY <1>1, TailCarries
<1>7. Requests(reqq') \subseteq Requests(reqq)
  BY <1>2, <1>4, <1>5, <1>6
<1> QED BY <1>7 DEF Asked

LEMMA ToldMoves ==
    ASSUME TypeOK, fromServer' \subseteq fromServer,
           \/ respq' = respq
           \/ respq' = <<>>
           \/ respq /= <<>> /\ respq' = Tail(respq),
           \/ msgq' = msgq
           \/ msgq' = <<>>
           \/ msgq /= <<>> /\ msgq' = Tail(msgq)
           \/ msgq' = Append(msgq, Connected)
           \/ msgq' = Append(msgq, Disconnected)
    PROVE  Told' \subseteq Told
<1>1. respq \in Seq(Reply) /\ msgq \in Seq(WrappedResponse)
  BY DEF TypeOK, WsTypeOK
<1>2. Items(<<>>) = {} /\ Replies(<<>>) = {}
  BY SMT DEF Items, Replies
<1>3. Connected.type /= "Response" /\ Disconnected.type /= "Response"
  BY DEF Connected, Disconnected
<1>4. Replies(Append(msgq, Connected)) \subseteq Replies(msgq)
  BY <1>1, <1>3, MsgTypes, AppendCarries
<1>5. Replies(Append(msgq, Disconnected)) \subseteq Replies(msgq)
  BY <1>1, <1>3, MsgTypes, AppendCarries
<1>6. msgq /= <<>> => Replies(Tail(msgq)) \subseteq Replies(msgq)
  BY <1>1, TailCarries
<1>7. respq /= <<>> => Items(Tail(respq)) \subseteq Items(respq)
  BY <1>1, TailCarries
<1>8. Items(respq') \subseteq Items(respq)
  BY <1>2, <1>7
<1>9. Replies(msgq') \subseteq Replies(msgq)
  BY <1>2, <1>4, <1>5, <1>6
<1> QED BY <1>8, <1>9 DEF Told

-----------------------------------------------------------------------------
(* Steps that keep the invariant *)

(* A step that sends nothing new, and leaves the server alone but for the  *)
(* keys it may forget.                                                     *)
LEMMA KeyStep ==
    ASSUME KeyInv, Asked' \subseteq Asked, Told' \subseteq Told,
           asyncReqs' \subseteq asyncReqs,
           nextId' = nextId, nextKey' = nextKey, srvAddrs' = srvAddrs,
           devices' \subseteq devices,
           settings'.device_key \in {settings.device_key, NoKey},
           \/ call' \notin {"VerifyDevice", "RegisterDevice"}
           \/ /\ call' = call /\ callId' = callId
              /\ settings'.device_key = settings.device_key,
           \A cb \in asyncReqs' : AddressesInv(cb)',
           CountersInv'
    PROVE  KeyInv'
<1>1. FreshInv'
  BY DEF KeyInv, FreshInv
<1>2. DeviceInv'
  BY DEF KeyInv, DeviceInv
<1>3. ASSUME NEW cb \in asyncReqs' PROVE CallbackInv(cb)'
  <2>1. CallbackInv(cb)
    BY DEF KeyInv
  <2> QED BY <2>1 DEF CallbackInv, Known, MessageOf, Send
<1> QED BY <1>1, <1>2, <1>3 DEF KeyInv

(* ... in particular one that leaves the settings alone.                   *)
LEMMA KeyQuietStep ==
    ASSUME KeyInv, Asked' \subseteq Asked, Told' \subseteq Told,
           asyncReqs' \subseteq asyncReqs,
           nextId' = nextId, nextKey' = nextKey, srvAddrs' = srvAddrs,
           devices' \subseteq devices, settings' = settings,
           \/ call' \notin {"VerifyDevice", "RegisterDevice"}
           \/ call' = call /\ callId' = callId
    PROVE  KeyInv'
<1>1. ASSUME NEW cb \in asyncReqs' PROVE AddressesInv(cb)'
  <2>1. AddressesInv(cb)
    BY DEF KeyInv
  <2> QED BY <2>1 DEF AddressesInv, Known
<1>2. CountersInv'
  BY DEF KeyInv, CountersInv, Known
<1>3. settings'.device_key \in {settings.device_key, NoKey}
  OBVIOUS
<1> QED BY <1>1, <1>2, <1>3, KeyStep

(* The web-socket thread only moves what is on its way, or loses it.       *)
LEMMA WsKeepsKeyInv ==
    ASSUME TypeOK, KeyInv, WsThread
    PROVE  KeyInv'
<1>0. /\ reqq \in Seq(WrappedRequest) /\ msgq \in Seq(WrappedResponse)
      /\ respq \in Seq(Reply) /\ fromServer \subseteq Reply
  BY DEF TypeOK, WsTypeOK
<1>1. /\ asyncReqs' = asyncReqs /\ nextId' = nextId /\ nextKey' = nextKey
      /\ srvAddrs' = srvAddrs /\ devices' = devices /\ settings' = settings
      /\ call' = call /\ callId' = callId
  BY DEF WsThread, workerVars, serverVars
<1>2. Asked' \subseteq Asked /\ Told' \subseteq Told => KeyInv'
  BY <1>1, KeyQuietStep
<1>3. CASE WsAwaitConnect
  BY <1>2, <1>3, AskedMoves, ToldMoves DEF WsAwaitConnect
<1>4. CASE WsConnected
  BY <1>2, <1>4, AskedMoves, ToldMoves DEF WsConnected
<1>5. CASE WsServeRequest
  <2>1. reqq /= <<>> /\ reqq' = Tail(reqq) /\ respq' = respq
    BY <1>5 DEF WsServeRequest
  <2>2. CASE Head(reqq).type = "Request" /\ toServer' = toServer \cup {Head(reqq).req}
             /\ UNCHANGED <<ws, msgq, fromServer>>
    <3>1. Requests(reqq') \subseteq Requests(reqq) /\ Head(reqq).req \in Requests(reqq)
      BY <1>0, <2>1, <2>2, TailCarries
    <3>2. Asked' \subseteq Asked
      BY <2>2, <3>1 DEF Asked
    <3>3. Told' \subseteq Told
      BY <2>1, <2>2, ToldMoves
    <3> QED BY <1>2, <3>2, <3>3
  <2>3. CASE Head(reqq) = Connect /\ UNCHANGED <<ws, msgq, toServer, fromServer>>
    BY <1>2, <2>1, <2>3, AskedMoves, ToldMoves
  <2>4. CASE Close
    BY <1>2, <2>1, <2>4, AskedMoves, ToldMoves DEF Close
  <2> QED BY <1>5, <2>2, <2>3, <2>4 DEF WsServeRequest
<1>6. ASSUME NEW r \in fromServer, WsDeliver(r) PROVE KeyInv'
  <2>1. /\ reqq' = reqq /\ toServer' = toServer /\ fromServer' \subseteq fromServer
        /\ \/ respq' = Append(respq, r) /\ msgq' = msgq
           \/ respq' = respq /\ msgq' = Append(msgq, Response(r))
    BY <1>6 DEF WsDeliver, Forward
  <2>2. r \in Reply /\ Response(r) \in WrappedResponse /\ Response(r).reply = r
    BY <1>0 DEF Response, WrappedResponse
  <2>3. Items(Append(respq, r)) \subseteq Items(respq) \cup {r}
    BY <1>0, <2>2, AppendCarries
  <2>4. Replies(Append(msgq, Response(r))) \subseteq Replies(msgq) \cup {r}
    <3>1. PICK m \in WrappedResponse : m = Response(r)
      BY <2>2
    <3>2. \A e \in Replies(Append(msgq, m)) : e \in Replies(msgq) \/ e = m.reply
      BY <1>0, AppendCarries, SMT
    <3> QED BY <2>2, <3>1, <3>2
  <2>5. Told' \subseteq Told
    BY <2>1, <2>3, <2>4 DEF Told
  <2>6. Asked' \subseteq Asked
    BY <2>1 DEF Asked
  <2> QED BY <1>2, <2>5, <2>6
<1> QED BY <1>3, <1>4, <1>5, <1>6 DEF WsThread

-----------------------------------------------------------------------------
(* The server *)

(* The message of a callback is the request of its fields.                 *)
LEMMA MessageFields ==
    ASSUME NEW cb \in AsyncRequest, NEW q \in Request, Send(q) = MessageOf(cb)
    PROVE  /\ q.id = cb.id /\ q.op = cb.op /\ q.key = cb.key
           /\ cb.op = "RegisterAddresses" =>
                 q.addrs = {cb.wallet} \X {cb.chain} \X (cb.first .. cb.last - 1)
<1>1. Send(q).req = q
  BY DEF Send
<1>2. /\ MessageOf(cb).req.id = cb.id /\ MessageOf(cb).req.op = cb.op
      /\ MessageOf(cb).req.key = cb.key
      /\ cb.op = "RegisterAddresses" =>
            MessageOf(cb).req.addrs = {cb.wallet} \X {cb.chain} \X (cb.first .. cb.last - 1)
  BY DEF MessageOf, Send
<1> QED BY <1>1, <1>2

(* What the server knows of the addresses only grows, but for whole keys.  *)
LEMMA KnownGrows ==
    ASSUME srvAddrs \subseteq srvAddrs', NEW key, NEW wallet, NEW chain,
           NEW first, NEW last, Known(key, wallet, chain, first, last)
    PROVE  Known(key, wallet, chain, first, last)'
BY DEF Known

(* The server answers a request: it says that a key is unknown only when   *)
(* it is, and that addresses are registered only when they are.            *)
LEMMA AnswerKeepsKeyInv ==
    ASSUME TypeOK, KeyInv, NEW q, NEW res \in Results, NEW key \in Nat \cup {NoKey},
           Answer(q, res, key),
           nextKey' \in {nextKey, nextKey + 1},
           devices' \subseteq devices \cup {nextKey},
           srvAddrs \subseteq srvAddrs',
           key /= NoKey => key < nextKey',
           res = "unregistered" => q.key \notin devices',
           q.op = "RegisterAddresses" /\ res = "ok" => {q.key} \X q.addrs \subseteq srvAddrs'
    PROVE  KeyInv'
<1> DEFINE a == [id |-> q.id, op |-> q.op, res |-> res, key |-> key]
<1>0. /\ settings' = settings /\ asyncReqs' = asyncReqs /\ nextId' = nextId
      /\ call' = call /\ callId' = callId /\ reqq' = reqq
  BY DEF Answer, workerVars
<1>1. q \in Request /\ q \in Asked /\ Asked' \subseteq Asked
  <2>1. q \in toServer /\ toServer' \subseteq toServer
    BY DEF Answer
  <2>2. q \in Asked /\ Asked' \subseteq Asked
    BY <1>0, <2>1 DEF Asked
  <2> QED BY <2>2, CarriedTypes
<1>2. Told' \subseteq Told \cup {a}
  BY DEF Answer, Told
<1>3. a.id = q.id /\ a.op = q.op /\ a.res = res /\ a.key = key
  OBVIOUS
<1> HIDE DEF a
<1>4. FreshInv'
  <2>1. nextKey \in Nat /\ settings.device_key \in Nat \cup {NoKey} /\ Told \subseteq Reply
    BY CarriedTypes DEF TypeOK, WorkerTypeOK, ServerTypeOK
  <2>2. \A k \in Nat : k < nextKey => k < nextKey'
    BY <2>1, SMT
  <2>3. \A r \in Told : r.key \in Nat \cup {NoKey}
    BY <2>1 DEF Reply
  <2>4. settings'.device_key /= NoKey => settings'.device_key < nextKey'
    BY <1>0, <2>1, <2>2 DEF KeyInv, FreshInv
  <2>5. \A r \in Told' : r.id < nextId' /\ (r.key /= NoKey => r.key < nextKey')
    BY <1>0, <1>1, <1>2, <1>3, <2>2, <2>3 DEF KeyInv, FreshInv
  <2> QED BY <1>0, <1>1, <2>4, <2>5 DEF KeyInv, FreshInv
<1>5. DeviceInv'
  <2>1. settings.device_key \notin devices => settings.device_key \notin devices'
    <3>1. /\ nextKey \in Nat /\ settings.device_key \in Nat \cup {NoKey}
          /\ NoKey \notin Nat
      BY ConnAssumption DEF TypeOK, WorkerTypeOK, ServerTypeOK
    <3>2. settings.device_key /= nextKey
      BY <3>1, SMT DEF KeyInv, FreshInv
    <3> QED BY <3>2
  <2>2. ASSUME call = "VerifyDevice", NEW r \in Told', r.id = callId, r.res = "unregistered"
        PROVE  settings.device_key \notin devices'
    <3>1. CASE r \in Told
      BY <2>1, <2>2, <3>1 DEF KeyInv, DeviceInv
    <3>2. CASE r = a
      BY <1>1, <1>3, <2>2, <3>2 DEF KeyInv, DeviceInv
    <3> QED BY <1>2, <3>1, <3>2
  <2> QED BY <1>0, <1>1, <2>2 DEF KeyInv, DeviceInv
<1>6. ASSUME NEW cb \in asyncReqs' PROVE CallbackInv(cb)' /\ AddressesInv(cb)'
  <2>1. cb \in asyncReqs /\ cb \in AsyncRequest /\ CallbackInv(cb) /\ AddressesInv(cb)
    BY <1>0 DEF KeyInv, TypeOK, WorkerTypeOK
  <2>2. AddressesInv(cb)'
    BY <1>0, <2>1, KnownGrows DEF AddressesInv
  <2>3. ASSUME NEW r \in Told', r.id = cb.id
        PROVE  /\ r.op = cb.op
               /\ r.op = "RegisterAddresses" /\ r.res = "ok" =>
                     Known(cb.key, cb.wallet, cb.chain, cb.first, cb.last)'
    <3>1. CASE r \in Told
      BY <2>1, <2>3, <3>1, KnownGrows DEF CallbackInv
    <3>2. CASE r = a
      <4>1. /\ q.op = cb.op /\ q.key = cb.key
            /\ cb.op = "RegisterAddresses" =>
                  q.addrs = {cb.wallet} \X {cb.chain} \X (cb.first .. cb.last - 1)
        BY <1>1, <1>3, <2>1, <2>3, <3>2, MessageFields DEF CallbackInv
      <4>2. ASSUME q.op = "RegisterAddresses", res = "ok",
                   NEW n \in cb.first .. (cb.last - 1)
            PROVE  <<cb.key, <<cb.wallet, cb.chain, n>>>> \in srvAddrs'
        <5>1. <<cb.wallet, cb.chain, n>> \in q.addrs
          BY <4>1, <4>2
        <5>2. <<q.key, <<cb.wallet, cb.chain, n>>>> \in {q.key} \X q.addrs
          BY <5>1
        <5> QED BY <4>1, <4>2, <5>2
      <4> QED BY <1>3, <3>2, <4>1, <4>2 DEF Known
    <3> QED BY <1>2, <3>1, <3>2
  <2> QED BY <1>1, <2>1, <2>2, <2>3 DEF CallbackInv, MessageOf, Send
<1>7. CountersInv'
  BY <1>0, KnownGrows DEF KeyInv, CountersInv
<1> QED BY <1>4, <1>5, <1>6, <1>7 DEF KeyInv

LEMMA ServerKeepsKeyInv ==
    ASSUME TypeOK, KeyInv, NEW q \in toServer, Server(q)
    PROVE  KeyInv'
<1>0. nextKey \in Nat /\ nextKey < nextKey + 1 /\ NoKey \in Nat \cup {NoKey}
  BY SMT DEF TypeOK, ServerTypeOK
<1>1. {"ok", "err", "unregistered"} = Results
  BY DEF Results
<1>2. CASE ServerAccepts(q)
  <2>1. /\ Answer(q, "ok", NoKey) /\ q.op /= "RegisterAddresses"
        /\ nextKey' = nextKey /\ devices' = devices /\ srvAddrs' = srvAddrs
    BY <1>2 DEF ServerAccepts, serverVars
  <2> QED BY <1>0, <1>1, <2>1, AnswerKeepsKeyInv
<1>3. CASE ServerVerifyDevice(q)
  <2>1. PICK res \in Results : /\ Answer(q, res, NoKey) /\ q.op /= "RegisterAddresses"
                               /\ res = "unregistered" => q.key \notin devices
    BY <1>1, <1>3 DEF ServerVerifyDevice
  <2>2. nextKey' = nextKey /\ devices' = devices /\ srvAddrs' = srvAddrs
    BY <1>3 DEF ServerVerifyDevice, serverVars
  <2> QED BY <1>0, <2>1, <2>2, AnswerKeepsKeyInv
<1>4. CASE ServerRegisterDevice(q)
  <2>1. /\ Answer(q, "ok", nextKey) /\ q.op /= "RegisterAddresses"
        /\ nextKey' = nextKey + 1 /\ devices' = devices \cup {nextKey}
        /\ srvAddrs' = srvAddrs
    BY <1>4 DEF ServerRegisterDevice
  <2> QED BY <1>0, <1>1, <2>1, AnswerKeepsKeyInv
<1>5. CASE ServerRegisterAddresses(q)
  <2>1. nextKey' = nextKey /\ devices' = devices
    BY <1>5 DEF ServerRegisterAddresses
  <2>2. CASE /\ Answer(q, "ok", NoKey)
             /\ srvAddrs' = srvAddrs \cup ({q.key} \X q.addrs)
    BY <1>0, <1>1, <2>1, <2>2, AnswerKeepsKeyInv
  <2>3. CASE Answer(q, "err", NoKey) /\ srvAddrs' = srvAddrs
    BY <1>0, <1>1, <2>1, <2>3, AnswerKeepsKeyInv
  <2> QED BY <1>5, <2>2, <2>3 DEF ServerRegisterAddresses
<1> QED BY <1>2, <1>3, <1>4, <1>5 DEF Server

LEMMA FaultsKeepKeyInv ==
    ASSUME TypeOK, KeyInv, Faults
    PROVE  KeyInv'
<1>1. CASE ConnectionLost
  <2>1. Asked' \subseteq Asked /\ Told' \subseteq Told
    BY <1>1, AskedMoves, ToldMoves DEF ConnectionLost, WsLost, Close
  <2> QED BY <1>1, <2>1, KeyQuietStep DEF ConnectionLost, workerVars, serverVars
<1>2. ASSUME NEW q \in toServer, ServerRefuses(q) PROVE KeyInv'
  <2>1. /\ Answer(q, "err", NoKey) /\ "err" \in Results /\ NoKey \in Nat \cup {NoKey}
        /\ nextKey' = nextKey /\ devices' = devices /\ srvAddrs' = srvAddrs
    BY <1>2 DEF ServerRefuses, serverVars, Results
  <2> QED BY <2>1, AnswerKeepsKeyInv
<1>3. ASSUME NEW k \in devices, ServerForgetsDevice(k) PROVE KeyInv'
  <2>1. Asked' \subseteq Asked /\ Told' \subseteq Told
    BY <1>3, AskedMoves, ToldMoves DEF ServerForgetsDevice, wsVars
  <2> QED BY <1>3, <2>1, KeyQuietStep DEF ServerForgetsDevice, workerVars
<1>4. CASE Restart
  <2>1. /\ asyncReqs' = {} /\ call' = "none" /\ settings' = settings
        /\ nextKey' = nextKey /\ srvAddrs' = srvAddrs
    BY <1>4 DEF Restart, serverVars
  <2>2. Requests(<<>>) = {} /\ Replies(<<>>) = {} /\ Items(<<>>) = {}
    BY SMT DEF Requests, Replies, Items
  <2>3. Asked' = {} /\ Told' = {}
    BY <1>4, <2>2 DEF Restart, Asked, Told
  <2>4. CountersInv'
    BY <2>1, KnownGrows DEF KeyInv, CountersInv
  <2> QED BY <2>1, <2>3, <2>4 DEF KeyInv, FreshInv, DeviceInv
<1> QED BY <1>1, <1>2, <1>3, <1>4 DEF Faults

-----------------------------------------------------------------------------
(* Requests of the worker *)

(* A blocking request has a fresh id.  One about the device key carries    *)
(* the key of the settings, or finds none there.                           *)
LEMMA SendKeepsKeyInv ==
    ASSUME TypeOK, KeyInv, NEW op \in SyncOps, NEW key \in Nat \cup {NoKey},
           SendSync(op, key), toServer' = toServer, Told' \subseteq Told,
           asyncReqs' = asyncReqs, nextKey' = nextKey, devices' = devices,
           srvAddrs' = srvAddrs,
           op = "VerifyDevice" => key = settings'.device_key,
           op = "RegisterDevice" => settings'.device_key = NoKey,
           settings'.device_key /= NoKey => settings'.device_key < nextKey,
           \A cb \in asyncReqs : AddressesInv(cb)',
           CountersInv'
    PROVE  KeyInv'
<1>1. PICK q \in Request : /\ q.id = nextId /\ q.key = key
                           /\ reqq' = Append(reqq, Send(q))
  <2>1. nextId \in Nat
    BY DEF TypeOK, WorkerTypeOK
  <2> DEFINE m == [id |-> nextId, op |-> op, key |-> key, addrs |-> {}]
  <2>2. m \in Request /\ m.id = nextId /\ m.key = key
    BY <2>1 DEF Request
  <2>3. reqq' = Append(reqq, Send(m))
    BY DEF SendSync
  <2> HIDE DEF m
  <2> QED BY <2>2, <2>3
<1>2. Asked' \subseteq Asked \cup {q}
  <2>1. reqq \in Seq(WrappedRequest)
    BY DEF TypeOK, WsTypeOK
  <2>2. PICK x \in WrappedRequest : x = Send(q)
    BY SendType
  <2>3. x.req = q
    BY <2>2 DEF Send
  <2>4. \A e \in Requests(Append(reqq, x)) : e \in Requests(reqq) \/ e = x.req
    BY <2>1, AppendCarries
  <2> QED BY <1>1, <2>2, <2>3, <2>4 DEF Asked
<1>3. /\ \A e \in Asked : e.id \in Nat /\ e.id < nextId /\ e.id /= nextId
      /\ \A r \in Told : r.id \in Nat /\ r.id < nextId /\ r.id /= nextId
      /\ \A cb \in asyncReqs : cb.id \in Nat /\ cb.id < nextId /\ cb.id /= nextId
  <2>1. /\ \A e \in Asked : e.id \in Nat
        /\ \A r \in Told : r.id \in Nat
        /\ \A cb \in asyncReqs : cb.id \in Nat
    BY CarriedTypes DEF Request, Reply, AsyncRequest, TypeOK, WorkerTypeOK
  <2>2. \A n \in Nat : n < nextId => n /= nextId
    BY SMT DEF TypeOK, WorkerTypeOK
  <2> QED BY <2>1, <2>2 DEF KeyInv, FreshInv
<1>4. /\ nextId' = nextId + 1 /\ call' = op /\ callId' = nextId
      /\ \A n \in Nat : n < nextId => n < nextId'
      /\ nextId < nextId'
  <2>1. nextId \in Nat /\ nextId' = nextId + 1 /\ call' = op /\ callId' = nextId
    BY DEF SendSync, TypeOK, WorkerTypeOK
  <2>2. /\ \A n \in Nat : n < nextId => n < nextId + 1
        /\ nextId < nextId + 1
    BY <2>1, SMT
  <2> QED BY <2>1, <2>2
<1>5. FreshInv'
  <2>1. \A r \in Told : r.key /= NoKey => r.key < nextKey
    BY DEF KeyInv, FreshInv
  <2>2. \A e \in Asked' : e.id < nextId'
    BY <1>1, <1>2, <1>3, <1>4
  <2>3. \A r \in Told' : r.id < nextId' /\ (r.key /= NoKey => r.key < nextKey')
    BY <1>3, <1>4, <2>1
  <2>4. \A cb \in asyncReqs' : cb.id < nextId'
    BY <1>3, <1>4
  <2> QED BY <2>2, <2>3, <2>4 DEF FreshInv
<1>6. DeviceInv'
  <2>1. \A e \in Asked' : e.id = callId' => e = q
    BY <1>2, <1>3, <1>4
  <2>2. \A r \in Told' : r.id /= callId'
    BY <1>3, <1>4
  <2> QED BY <1>1, <1>4, <2>1, <2>2 DEF DeviceInv
<1>7. ASSUME NEW cb \in asyncReqs' PROVE CallbackInv(cb)'
  <2>1. CallbackInv(cb)
    BY DEF KeyInv
  <2>2. cb.id /= q.id
    BY <1>1, <1>3
  <2>3. \A e \in Asked' : e.id = cb.id => Send(e) = MessageOf(cb)
    BY <1>2, <2>1, <2>2 DEF CallbackInv
  <2>4. \A r \in Told' : r.id = cb.id =>
           /\ r.op = cb.op
           /\ r.op = "RegisterAddresses" /\ r.res = "ok" =>
                Known(cb.key, cb.wallet, cb.chain, cb.first, cb.last)
    BY <2>1 DEF CallbackInv
  <2>5. Known(cb.key, cb.wallet, cb.chain, cb.first, cb.last) =>
           Known(cb.key, cb.wallet, cb.chain, cb.first, cb.last)'
    BY KnownGrows
  <2> QED BY <2>3, <2>4, <2>5 DEF CallbackInv, MessageOf, Send
<1> QED BY <1>5, <1>6, <1>7 DEF KeyInv

LEMMA SameSettings ==
    ASSUME KeyInv, settings' = settings, srvAddrs' = srvAddrs
    PROVE  CountersInv' /\ \A cb \in asyncReqs : AddressesInv(cb)'
<1>1. CountersInv'
  BY KnownGrows DEF KeyInv, CountersInv
<1>2. ASSUME NEW cb \in asyncReqs PROVE AddressesInv(cb)'
  <2>1. AddressesInv(cb)
    BY DEF KeyInv
  <2> QED BY <2>1, KnownGrows DEF AddressesInv
<1> QED BY <1>1, <1>2

(* The callbacks of a handler have consecutive ids, and those that         *)
(* register addresses continue where the server's addresses end.           *)
Numbered(cbs, n) ==
    \A i \in 1..Len(cbs) : cbs[i].id = n + i - 1 /\ AddressesInv(cbs[i])

LEMMA NumberedConcat ==
    ASSUME NEW S, NEW p \in Seq(S), NEW r \in Seq(S), NEW n \in Nat,
           Numbered(p, n), Numbered(r, n + Len(p))
    PROVE  Numbered(p \o r, n)
<1> DEFINE a == p \o r
<1>1. /\ Len(p) \in Nat /\ Len(r) \in Nat /\ Len(a) = Len(p) + Len(r)
      /\ \A i \in 1..Len(a) : a[i] = IF i <= Len(p) THEN p[i] ELSE r[i - Len(p)]
  BY SMT
<1> HIDE DEF a
<1> SUFFICES ASSUME NEW i \in 1..Len(a)
             PROVE  a[i].id = n + i - 1 /\ AddressesInv(a[i])
  BY DEF Numbered, a
<1>2. CASE i <= Len(p)
  <2>1. i \in 1..Len(p) /\ a[i] = p[i]
    BY <1>1, <1>2, SMT
  <2> QED BY <2>1 DEF Numbered
<1>3. CASE ~(i <= Len(p))
  <2>1. PICK j \in 1..Len(r) : a[i] = r[j] /\ i = Len(p) + j
    <3>1. i - Len(p) \in 1..Len(r) /\ a[i] = r[i - Len(p)] /\ i = Len(p) + (i - Len(p))
      BY <1>1, <1>3, SMT
    <3> QED BY <3>1
  <2>2. r[j].id = (n + Len(p)) + j - 1 /\ AddressesInv(r[j])
    BY DEF Numbered
  <2>3. (n + Len(p)) + j - 1 = n + i - 1
    BY <1>1, <2>1, SMT
  <2> QED BY <2>1, <2>2, <2>3
<1> QED BY <1>2, <1>3

LEMMA PushTokenNumbered ==
    ASSUME NEW n \in Nat
    PROVE  Numbered(update_push_token(n), n)
<1>1. PushTokenCallback(n).id = n /\ PushTokenCallback(n).op = "UpdatePushToken"
  BY DEF PushTokenCallback
<1>2. AddressesInv(PushTokenCallback(n))
  BY <1>1 DEF AddressesInv
<1>3. PICK cb : cb = PushTokenCallback(n)
  OBVIOUS
<1>4. /\ Len(<<cb>>) = 1 /\ <<cb>>[1] = cb /\ Len(<<>>) = 0 /\ n + 1 - 1 = n
      /\ 1..1 = {1} /\ 1..0 = {}
  BY SMT
<1>5. Numbered(<<>>, n)
  BY <1>4 DEF Numbered
<1>6. Numbered(<<cb>>, n)
  BY <1>1, <1>2, <1>3, <1>4 DEF Numbered
<1> QED BY <1>3, <1>5, <1>6 DEF update_push_token

LEMMA ChainNumbered ==
    ASSUME TypeOK, ConnInv, KeyInv, NEW n \in Nat, NEW account, NEW chains \in Seq(Chains)
    PROVE  Numbered(ChainCallbacks(n, account, chains), n)
<1>1. CASE settings.device_key /= NoKey /\ account \in wallets
  <2>1. settings.reg_info /= NoWallet
    BY <1>1 DEF ConnInv
  <2>2. ASSUME NEW k, NEW c \in Chains
        PROVE  AddressesInv(AddressesCallback(k, c, used')) /\ AddressesCallback(k, c, used').id = k
    <3>1. Known(settings.device_key, settings.reg_info, c, 0, settings.registered[c])
      BY <1>1 DEF KeyInv, CountersInv
    <3>2. PICK cb : cb = AddressesCallback(k, c, used')
      OBVIOUS
    <3>3. /\ cb.id = k /\ cb.key = settings.device_key /\ cb.wallet = settings.reg_info
          /\ cb.chain = c /\ cb.first = settings.registered[c]
      BY <3>2 DEF AddressesCallback
    <3>4. AddressesInv(cb)
      BY <2>1, <3>1, <3>3 DEF AddressesInv
    <3> QED BY <3>2, <3>3, <3>4
  <2>3. \A i \in 1..Len(chains) : chains[i] \in Chains
    BY SMT
  <2> DEFINE f == [i \in 1..Len(chains) |-> AddressesCallback(n + i - 1, chains[i], used')]
  <2>4. /\ Len(f) = Len(chains)
        /\ \A i \in 1..Len(chains) : f[i] = AddressesCallback(n + i - 1, chains[i], used')
    BY SMT
  <2> HIDE DEF f
  <2>5. Numbered(f, n)
    <3> SUFFICES ASSUME NEW i \in 1..Len(f)
                 PROVE  f[i].id = n + i - 1 /\ AddressesInv(f[i])
      BY DEF Numbered
    <3>1. chains[i] \in Chains /\ f[i] = AddressesCallback(n + i - 1, chains[i], used')
      BY <2>3, <2>4
    <3> QED BY <2>2, <3>1
  <2>6. Numbered(<<>>, n)
    BY SMT DEF Numbered
  <2> QED BY <2>5, <2>6 DEF ChainCallbacks, f
<1>2. CASE ~(settings.device_key /= NoKey /\ account \in wallets)
  <2>1. Numbered(<<>>, n)
    BY SMT DEF Numbered
  <2> QED BY <1>2, <2>1 DEF ChainCallbacks
<1> QED BY <1>1, <1>2

LEMMA RegistrationsNumbered ==
    ASSUME TypeOK, ConnInv, KeyInv, used' \in [Chains -> Nat], NEW n \in Nat
    PROVE  Numbered(update_address_registrations(n), n)
<1>0. WorkerTypeOK
  BY DEF TypeOK
<1>1. PICK p \in Seq(AsyncRequest) : p = ChainCallbacks(n, "REG", RegChains)
  BY <1>0, ChainType, ChainCallbacksType
<1>2. n + Len(p) \in Nat
  BY SMT
<1>3. PICK r \in Seq(AsyncRequest) : r = ChainCallbacks(n + Len(p), "AMP", AmpChains)
  BY <1>0, <1>2, ChainType, ChainCallbacksType
<1>4. Numbered(p, n)
  BY <1>1, ChainType, ChainNumbered
<1>5. Numbered(r, n + Len(p))
  BY <1>2, <1>3, ChainType, ChainNumbered
<1>6. Numbered(p \o r, n)
  BY <1>4, <1>5, NumberedConcat
<1> QED BY <1>1, <1>3, <1>6 DEF update_address_registrations

(* The requests made with make_async_request have fresh ids, too.          *)
LEMMA AsyncKeepsKeyInv ==
    ASSUME TypeOK, KeyInv, NEW cbs \in Seq(AsyncRequest), make_async_requests(cbs),
           Numbered(cbs, nextId), toServer' = toServer, Told' \subseteq Told,
           nextKey' = nextKey, devices' = devices, srvAddrs' = srvAddrs,
           settings' = settings, call' = "none"
    PROVE  KeyInv'
<1>1. /\ Len(cbs) \in Nat /\ nextId \in Nat /\ nextId' = nextId + Len(cbs)
      /\ \A i \in 1..Len(cbs) : cbs[i] \in AsyncRequest
  BY SMT DEF make_async_requests, TypeOK, WorkerTypeOK
<1>2. \A i \in 1..Len(cbs) : cbs[i].id = nextId + i - 1
  BY DEF Numbered
<1>3. \A i \in 1..Len(cbs) : /\ cbs[i].id < nextId'
                             /\ \A n \in Nat : n < nextId => n /= cbs[i].id
  <2>1. \A i \in 1..Len(cbs) :
           /\ nextId + i - 1 < nextId + Len(cbs)
           /\ \A n \in Nat : n < nextId => n /= nextId + i - 1
    BY <1>1, SMT
  <2> QED BY <1>1, <1>2, <2>1
<1>4. \A i, j \in 1..Len(cbs) : cbs[i].id = cbs[j].id => i = j
  <2>1. \A i, j \in 1..Len(cbs) : nextId + i - 1 = nextId + j - 1 => i = j
    BY <1>1, SMT
  <2> QED BY <1>2, <2>1
<1>5. ASSUME NEW cb \in AsyncRequest
      PROVE  MessageOf(cb).req.id = cb.id /\ Send(MessageOf(cb).req) = MessageOf(cb)
  BY DEF MessageOf, Send
<1>a. \A i \in 1..Len(cbs) : /\ MessageOf(cbs[i]).req.id = cbs[i].id
                             /\ Send(MessageOf(cbs[i]).req) = MessageOf(cbs[i])
  BY <1>1, <1>5
<1>6. \A q \in Asked' : \/ q \in Asked
                        \/ \E i \in 1..Len(cbs) : q = MessageOf(cbs[i]).req
  <2> DEFINE p == [i \in 1..Len(cbs) |-> MessageOf(cbs[i])]
  <2>1. \A i \in 1..Len(cbs) : MessageOf(cbs[i]) \in WrappedRequest
    BY <1>1, MessageType
  <2>2. /\ p \in Seq(WrappedRequest) /\ Len(p) = Len(cbs)
        /\ \A i \in 1..Len(cbs) : p[i] = MessageOf(cbs[i])
    BY <1>1, <2>1, SMT
  <2>3. reqq \in Seq(WrappedRequest) /\ reqq' = reqq \o p
    BY DEF TypeOK, WsTypeOK, make_async_requests
  <2> HIDE DEF p
  <2>4. Requests(reqq') \subseteq Requests(reqq) \cup Requests(p)
    BY <2>2, <2>3, ConcatCarries
  <2>5. \A q \in Requests(p) : \E i \in 1..Len(cbs) : q = MessageOf(cbs[i]).req
    BY <2>2 DEF Requests
  <2> QED BY <2>4, <2>5 DEF Asked
<1>7. \A cb \in asyncReqs' : cb \in asyncReqs \/ \E i \in 1..Len(cbs) : cb = cbs[i]
  BY DEF make_async_requests
<1>8. /\ \A q \in Asked : q.id \in Nat /\ q.id < nextId
      /\ \A r \in Told : r.id \in Nat /\ r.id < nextId
      /\ \A cb \in asyncReqs : cb.id \in Nat /\ cb.id < nextId
  <2>1. /\ \A e \in Asked : e.id \in Nat
        /\ \A r \in Told : r.id \in Nat
        /\ \A cb \in asyncReqs : cb.id \in Nat
    BY CarriedTypes DEF Request, Reply, AsyncRequest, TypeOK, WorkerTypeOK
  <2> QED BY <2>1 DEF KeyInv, FreshInv
<1>9. FreshInv'
  <2>1. \A n \in Nat : n < nextId => n < nextId'
    BY <1>1, SMT
  <2>2. \A q \in Asked' : q.id < nextId'
    <3> SUFFICES ASSUME NEW q \in Asked' PROVE q.id < nextId'
      OBVIOUS
    <3>1. CASE q \in Asked
      BY <1>8, <2>1, <3>1
    <3>2. ASSUME NEW i \in 1..Len(cbs), q = MessageOf(cbs[i]).req PROVE q.id < nextId'
      BY <1>3, <1>a, <3>2
    <3> QED BY <1>6, <3>1, <3>2
  <2>3. \A r \in Told' : r.id < nextId' /\ (r.key /= NoKey => r.key < nextKey')
    BY <1>8, <2>1 DEF KeyInv, FreshInv
  <2>4. \A cb \in asyncReqs' : cb.id < nextId'
    BY <1>3, <1>7, <1>8, <2>1
  <2> QED BY <2>2, <2>3, <2>4 DEF KeyInv, FreshInv
<1>10. DeviceInv'
  BY DEF DeviceInv
<1>11. ASSUME NEW cb \in asyncReqs' PROVE CallbackInv(cb)'
  <2>1. CASE cb \in asyncReqs
    <3>1. CallbackInv(cb)
      BY <2>1 DEF KeyInv
    <3>2. \A q \in Asked' : q.id = cb.id => Send(q) = MessageOf(cb)
      <4> SUFFICES ASSUME NEW q \in Asked', q.id = cb.id PROVE Send(q) = MessageOf(cb)
        OBVIOUS
      <4>1. ASSUME NEW i \in 1..Len(cbs), q = MessageOf(cbs[i]).req PROVE FALSE
        BY <1>3, <1>8, <1>a, <2>1, <4>1
      <4> QED BY <1>6, <3>1, <4>1 DEF CallbackInv
    <3>3. Known(cb.key, cb.wallet, cb.chain, cb.first, cb.last) =>
             Known(cb.key, cb.wallet, cb.chain, cb.first, cb.last)'
      BY KnownGrows
    <3> QED BY <3>1, <3>2, <3>3 DEF CallbackInv, MessageOf, Send
  <2>2. CASE \E i \in 1..Len(cbs) : cb = cbs[i]
    <3>1. PICK i \in 1..Len(cbs) : cb = cbs[i]
      BY <2>2
    <3>2. \A q \in Asked' : q.id = cb.id => Send(q) = MessageOf(cb)
      <4> SUFFICES ASSUME NEW q \in Asked', q.id = cb.id PROVE Send(q) = MessageOf(cb)
        OBVIOUS
      <4>1. CASE q \in Asked
        BY <1>3, <1>8, <3>1, <4>1
      <4>2. ASSUME NEW j \in 1..Len(cbs), q = MessageOf(cbs[j]).req
            PROVE  Send(q) = MessageOf(cb)
        BY <1>4, <1>a, <3>1, <4>2
      <4> QED BY <1>6, <4>1, <4>2
    <3>3. \A r \in Told' : r.id /= cb.id
      BY <1>3, <1>8, <3>1
    <3> QED BY <3>2, <3>3 DEF CallbackInv, MessageOf, Send
  <2> QED BY <1>7, <2>1, <2>2
<1>12. ASSUME NEW cb \in asyncReqs' PROVE AddressesInv(cb)'
  <2>1. AddressesInv(cb)
    BY <1>7 DEF Numbered, KeyInv
  <2> QED BY <2>1, KnownGrows DEF AddressesInv
<1> QED BY <1>9, <1>10, <1>11, <1>12, SameSettings DEF KeyInv

-----------------------------------------------------------------------------
(* The worker *)

(* A good reply moves a counter to where the server's addresses end.       *)
LEMMA AsyncRespKeepsKeyInv ==
    ASSUME TypeOK, KeyInv, process_async_resp
    PROVE  KeyInv'
<1>0. /\ msgq \in Seq(WrappedResponse) /\ msgq /= <<>> /\ Head(msgq).type = "Response"
      /\ msgq' = Tail(msgq) /\ asyncReqs' \subseteq asyncReqs
  BY DEF TypeOK, WsTypeOK, process_async_resp
<1>1. /\ nextId' = nextId /\ nextKey' = nextKey /\ srvAddrs' = srvAddrs /\ devices' = devices
      /\ call' = call /\ callId' = callId
  BY DEF process_async_resp, serverVars
<1>2. Asked' \subseteq Asked /\ Told' \subseteq Told
  BY <1>0, AskedMoves, ToldMoves DEF process_async_resp
<1>3. CASE settings' = settings
  BY <1>0, <1>1, <1>2, <1>3, KeyQuietStep
<1>4. ASSUME NEW cb \in asyncReqs, cb.id = Head(msgq).reply.id,
             Head(msgq).reply.res = "ok", Head(msgq).reply.op = "RegisterAddresses",
             settings' = [settings EXCEPT !.registered[cb.chain] = cb.last]
      PROVE  KeyInv'
  <2>1. Head(msgq).reply \in Told
    BY <1>0, TailCarries DEF Told
  <2>2. CallbackInv(cb) /\ AddressesInv(cb) /\ cb \in AsyncRequest
    BY DEF KeyInv, TypeOK, WorkerTypeOK
  <2>3. /\ cb.op = "RegisterAddresses"
        /\ Known(cb.key, cb.wallet, cb.chain, cb.first, cb.last)
        /\ Known(cb.key, cb.wallet, cb.chain, 0, cb.first)
    BY <1>4, <2>1, <2>2 DEF CallbackInv, AddressesInv
  <2>4. Known(cb.key, cb.wallet, cb.chain, 0, cb.last)
    <3>1. cb.first \in Nat /\ cb.last \in Nat
      BY <2>2, SMT DEF AsyncRequest
    <3>2. \A n \in 0..(cb.last - 1) :
             n \in 0..(cb.first - 1) \/ n \in cb.first..(cb.last - 1)
      BY <3>1, SMT
    <3> QED BY <2>3, <3>2 DEF Known
  <2>5. /\ settings'.device_key = settings.device_key
        /\ settings'.reg_info = settings.reg_info
        /\ \A c \in Chains : settings'.registered[c] =
                IF c = cb.chain THEN cb.last ELSE settings.registered[c]
    BY <1>4 DEF TypeOK, WorkerTypeOK
  <2>6. CountersInv'
    <3> SUFFICES ASSUME settings.device_key /= NoKey
                 PROVE  /\ \A c \in Chains : Known(settings.device_key, settings.reg_info, c,
                                                   0, settings'.registered[c])
                        /\ settings.reg_info /= NoWallet
      BY <1>1, <2>5 DEF CountersInv, Known
    <3>1. cb.key = settings.device_key /\ cb.wallet = settings.reg_info /\ cb.wallet /= NoWallet
      BY <2>2, <2>3 DEF AddressesInv
    <3>2. ASSUME NEW c \in Chains
          PROVE  Known(settings.device_key, settings.reg_info, c, 0, settings'.registered[c])
      BY <2>4, <2>5, <3>1 DEF KeyInv, CountersInv
    <3> QED BY <3>1, <3>2
  <2>7. ASSUME NEW x \in asyncReqs' PROVE AddressesInv(x)'
    <3>1. AddressesInv(x)
      BY <1>0 DEF KeyInv
    <3> QED BY <1>1, <2>5, <3>1 DEF AddressesInv, Known
  <2> QED BY <1>0, <1>1, <1>2, <2>5, <2>6, <2>7, KeyStep
<1> QED BY <1>3, <1>4 DEF process_async_resp

(* The handshake: a key the server does not know is given up, a new key    *)
(* starts with no addresses.                                               *)
LEMMA HandshakeSettingsAre ==
    ASSUME TypeOK, NEW r, call \in HandshakeOps
    PROVE  LET s == HandshakeSettings(r) IN
           \/ /\ s = settings
              /\ ~(call = "VerifyDevice" /\ r.res = "unregistered")
              /\ ~(call = "ServerStatus" /\ DisableDeviceKey)
           \/ /\ s.device_key = NoKey /\ s.reg_info = settings.reg_info
              /\ DisableDeviceKey \/ (call = "VerifyDevice" /\ r.res = "unregistered")
           \/ /\ call = "RegisterDevice" /\ s.device_key = r.key
              /\ s.reg_info = settings.reg_info /\ s.registered = NoRegistrations
<1> DEFINE s == HandshakeSettings(r)
<1>1. /\ NoDeviceKey.device_key = NoKey /\ NoDeviceKey.reg_info = settings.reg_info
      /\ NewDeviceKey(r.key).device_key = r.key
      /\ NewDeviceKey(r.key).reg_info = settings.reg_info
      /\ NewDeviceKey(r.key).registered = NoRegistrations
  BY DEF NoDeviceKey, NewDeviceKey, TypeOK, WorkerTypeOK
<1>2. CASE call = "ServerStatus" /\ DisableDeviceKey
  <2>1. s = NoDeviceKey
    BY <1>2 DEF HandshakeSettings
  <2> QED BY <1>1, <1>2, <2>1
<1>3. CASE call = "VerifyDevice" /\ r.res = "unregistered"
  <2>1. s = NoDeviceKey
    BY <1>3 DEF HandshakeSettings
  <2> QED BY <1>1, <1>3, <2>1
<1>4. CASE call = "RegisterDevice"
  <2>1. s = NewDeviceKey(r.key)
    BY <1>4 DEF HandshakeSettings
  <2> QED BY <1>1, <1>4, <2>1
<1>5. CASE /\ ~(call = "ServerStatus" /\ DisableDeviceKey)
           /\ ~(call = "VerifyDevice" /\ r.res = "unregistered")
           /\ call /= "RegisterDevice"
  <2>1. s = settings
    BY <1>5 DEF HandshakeSettings
  <2> QED BY <1>5, <2>1
<1> QED BY <1>2, <1>3, <1>4, <1>5

LEMMA NextOpIs ==
    ASSUME NEW r, call \in HandshakeOps \ {"Login"}
    PROVE  /\ NextHandshakeOp(r) \in SyncOps
           /\ NextHandshakeOp(r) = "RegisterDevice" =>
                 \/ call = "ServerStatus" /\ ~DisableDeviceKey /\ settings.device_key = NoKey
                 \/ call = "VerifyDevice" /\ r.res = "unregistered"
<1>1. CASE call \in {"LoginClient", "Assets", "AmpAssets", "RegisterDevice"}
  BY <1>1 DEF NextHandshakeOp, SyncOps, HandshakeOps
<1>2. CASE call = "ServerStatus"
  <2>1. NextHandshakeOp(r) = FirstDeviceOp
    BY <1>2 DEF NextHandshakeOp
  <2> QED BY <1>2, <2>1 DEF FirstDeviceOp, SyncOps, HandshakeOps
<1>3. CASE call = "VerifyDevice"
  BY <1>3 DEF NextHandshakeOp, SyncOps, HandshakeOps
<1> QED BY <1>1, <1>2, <1>3 DEF HandshakeOps

LEMMA NothingRegistered ==
    ASSUME NEW key, NEW wallet, NEW c \in Chains
    PROVE  Known(key, wallet, c, 0, NoRegistrations[c])'
<1>1. NoRegistrations[c] = 0
  BY DEF NoRegistrations
<1>2. \A n \in 0..(0 - 1) : FALSE
  BY SMT
<1> QED BY <1>1, <1>2 DEF Known

LEMMA HandshakeKeepsKeyInv ==
    ASSUME TypeOK, ConnInv, KeyInv, HandshakeContinues, TypeOK'
    PROVE  KeyInv'
<1>0. call \in HandshakeOps /\ asyncReqs = {}
  BY DEF HandshakeContinues, ConnInv, HandshakeStartsClean
<1>1. PICK r \in Reply : /\ r = Head(respq) /\ r \in Told
                         /\ r.id = callId /\ call \in HandshakeOps \ {"Login"}
                         /\ settings' = HandshakeSettings(r)
                         /\ SendSync(NextHandshakeOp(r), settings'.device_key)
  <2>1. respq \in Seq(Reply) /\ respq /= <<>>
    BY DEF HandshakeContinues, Replied, TypeOK, WsTypeOK
  <2>2. Head(respq) \in Told
    BY <2>1, TailCarries DEF Told
  <2>3. Head(respq) \in Reply
    BY <2>2, CarriedTypes
  <2> QED BY <2>2, <2>3 DEF HandshakeContinues, Answered
<1>2. /\ toServer' = toServer /\ asyncReqs' = asyncReqs /\ nextKey' = nextKey
      /\ devices' = devices /\ srvAddrs' = srvAddrs
  BY DEF HandshakeContinues, Replied, serverVars
<1>3. Told' \subseteq Told
  BY ToldMoves DEF HandshakeContinues, Replied
<1>4. settings'.device_key \in Nat \cup {NoKey}
  BY DEF TypeOK, WorkerTypeOK
<1>5. CASE /\ settings' = settings
           /\ ~(call = "VerifyDevice" /\ r.res = "unregistered")
           /\ ~(call = "ServerStatus" /\ DisableDeviceKey)
  <2>1. settings'.device_key /= NoKey => settings'.device_key < nextKey
    BY <1>5 DEF KeyInv, FreshInv
  <2>2. CountersInv'
    BY <1>2, <1>5, SameSettings
  <2> QED BY <1>0, <1>1, <1>2, <1>3, <1>4, <1>5, <2>1, <2>2, NextOpIs, SendKeepsKeyInv
<1>6. CASE settings'.device_key = NoKey
  <2>1. CountersInv'
    BY <1>6 DEF CountersInv
  <2> QED BY <1>0, <1>1, <1>2, <1>3, <1>4, <1>6, <2>1, NextOpIs, SendKeepsKeyInv
<1>7. CASE /\ call = "RegisterDevice" /\ settings'.device_key = r.key
           /\ settings'.registered = NoRegistrations
  <2>1. settings'.device_key /= NoKey => settings'.device_key < nextKey
    BY <1>1, <1>7 DEF KeyInv, FreshInv
  <2>2. CountersInv'
    BY <1>7, NothingRegistered DEF CountersInv
  <2>3. NextHandshakeOp(r) /= "RegisterDevice"
    BY <1>1, <1>7, NextOpIs
  <2> QED BY <1>0, <1>1, <1>2, <1>3, <1>4, <2>1, <2>2, <2>3, NextOpIs, SendKeepsKeyInv
<1>8. \/ /\ settings' = settings
         /\ ~(call = "VerifyDevice" /\ r.res = "unregistered")
         /\ ~(call = "ServerStatus" /\ DisableDeviceKey)
      \/ settings'.device_key = NoKey
      \/ /\ call = "RegisterDevice" /\ settings'.device_key = r.key
         /\ settings'.registered = NoRegistrations
  BY <1>0, <1>1, HandshakeSettingsAre
<1> QED BY <1>5, <1>6, <1>7, <1>8

LEMMA WorkerKeepsKeyInv ==
    ASSUME TypeOK, ConnInv, KeyInv, Worker, TypeOK'
    PROVE  KeyInv'
<1>1. CASE process_ws_connected
  <2>1. /\ SendSync("LoginClient", NoKey) /\ "LoginClient" \in SyncOps
        /\ NoKey \in Nat \cup {NoKey} /\ toServer' = toServer /\ asyncReqs' = asyncReqs
        /\ nextKey' = nextKey /\ devices' = devices /\ srvAddrs' = srvAddrs
        /\ settings' = settings
    BY <1>1 DEF process_ws_connected, serverVars, SyncOps, HandshakeOps
  <2>2. Told' \subseteq Told
    BY <1>1, ToldMoves DEF process_ws_connected
  <2>3. settings.device_key /= NoKey => settings.device_key < nextKey
    BY DEF KeyInv, FreshInv
  <2> QED BY <2>1, <2>2, <2>3, SameSettings, SendKeepsKeyInv
<1>2. CASE process_ws_disconnected
  <2>1. Asked' \subseteq Asked /\ Told' \subseteq Told
    BY <1>2, AskedMoves, ToldMoves DEF process_ws_disconnected, send_ws_connect
  <2> QED BY <1>2, <2>1, KeyQuietStep
          DEF process_ws_disconnected, fail_async_requests, serverVars
<1>3. CASE HandshakeSucceeds
  <2>1. /\ WorkerTypeOK /\ nextId \in Nat /\ used' = used /\ used' \in [Chains -> Nat]
    BY <1>3 DEF HandshakeSucceeds, Replied, TypeOK, WorkerTypeOK
  <2>2. PICK p \in Seq(AsyncRequest) : p = update_push_token(nextId)
    BY <2>1, PushTokenType
  <2>3. nextId + Len(p) \in Nat
    BY <2>1, SMT
  <2>4. PICK u \in Seq(AsyncRequest) : u = update_address_registrations(nextId + Len(p))
    BY <2>1, <2>3, RegistrationsType
  <2>5. Numbered(p, nextId) /\ Numbered(u, nextId + Len(p))
    BY <2>1, <2>2, <2>3, <2>4, PushTokenNumbered, RegistrationsNumbered
  <2>6. PICK cbs \in Seq(AsyncRequest) : cbs = p \o u
    <3>1. p \o u \in Seq(AsyncRequest)
      BY SMT
    <3> QED BY <3>1
  <2>7. Numbered(cbs, nextId)
    BY <2>1, <2>5, <2>6, NumberedConcat
  <2>8. make_async_requests(cbs)
    BY <1>3, <2>2, <2>4, <2>6 DEF HandshakeSucceeds
  <2>9. /\ toServer' = toServer /\ nextKey' = nextKey /\ devices' = devices
        /\ srvAddrs' = srvAddrs /\ settings' = settings /\ call' = "none"
    BY <1>3 DEF HandshakeSucceeds, Replied, serverVars
  <2>10. Told' \subseteq Told
    BY <1>3, ToldMoves DEF HandshakeSucceeds, Replied
  <2> QED BY <2>7, <2>8, <2>9, <2>10, AsyncKeepsKeyInv
<1>4. CASE DiscardOldResponse \/ PingSucceeds \/ CallRefused
  <2>1. Asked' \subseteq Asked /\ Told' \subseteq Told
    BY <1>4, AskedMoves, ToldMoves
       DEF DiscardOldResponse, PingSucceeds, CallRefused, CallFails, restart_websocket, Replied
  <2> QED BY <1>4, <2>1, KeyQuietStep
          DEF DiscardOldResponse, PingSucceeds, CallRefused, CallFails, Replied, serverVars
<1>5. CASE CallTimeout
  <2>1. Asked' \subseteq Asked /\ Told' \subseteq Told
    BY <1>5, AskedMoves, ToldMoves DEF CallTimeout, CallFails, restart_websocket
  <2> QED BY <1>5, <2>1, KeyQuietStep DEF CallTimeout, CallFails, serverVars
<1> QED BY <1>1, <1>2, <1>3, <1>4, <1>5, AsyncRespKeepsKeyInv, HandshakeKeepsKeyInv DEF Worker

-----------------------------------------------------------------------------
(* The user *)

(* A login keeps the wallet, or gives the first one to counters that are   *)
(* zero.                                                                   *)
LEMMA LoginSettings ==
    ASSUME TypeOK, KeyInv, NEW w, LoginAs(w), srvAddrs' = srvAddrs
    PROVE  /\ settings'.device_key = settings.device_key
           /\ CountersInv'
           /\ \A cb \in asyncReqs : AddressesInv(cb)'
<1>1. /\ settings'.device_key = settings.device_key /\ settings'.reg_info = w
      /\ settings'.registered = settings.registered
      /\ settings.reg_info \in {NoWallet, w} /\ w /= NoWallet
  BY ConnAssumption DEF LoginAs, TypeOK, WorkerTypeOK
<1>2. CASE settings.reg_info = w
  <2>1. CountersInv'
    BY <1>1, <1>2 DEF KeyInv, CountersInv, Known
  <2>2. ASSUME NEW cb \in asyncReqs PROVE AddressesInv(cb)'
    <3>1. AddressesInv(cb)
      BY DEF KeyInv
    <3> QED BY <1>1, <1>2, <3>1 DEF AddressesInv, Known
  <2> QED BY <1>1, <2>1, <2>2
<1>3. CASE settings.reg_info = NoWallet
  <2>1. CountersInv'
    <3> SUFFICES ASSUME settings.device_key /= NoKey, NEW c \in Chains
                 PROVE  \A n \in 0..(settings'.registered[c] - 1) :
                           <<settings.device_key, <<w, c, n>>>> \in srvAddrs'
      BY <1>1 DEF CountersInv, Known
    <3>1. settings'.registered = NoRegistrations
      BY <1>1, <1>3 DEF KeyInv, CountersInv
    <3>2. settings'.registered[c] = 0
      BY <3>1 DEF NoRegistrations
    <3>3. \A n \in 0..(0 - 1) : FALSE
      BY SMT
    <3> QED BY <3>2, <3>3
  <2>2. ASSUME NEW cb \in asyncReqs PROVE AddressesInv(cb)'
    <3>1. AddressesInv(cb)
      BY DEF KeyInv
    <3> QED BY <1>1, <1>3, <3>1 DEF AddressesInv, Known
  <2> QED BY <1>1, <2>1, <2>2
<1> QED BY <1>1, <1>2, <1>3

LEMMA UiKeepsKeyInv ==
    ASSUME TypeOK, ConnInv, KeyInv, Ui, TypeOK'
    PROVE  KeyInv'
<1>0. ASSUME UiStep
      PROVE  /\ call = "none" /\ toServer' = toServer /\ Told' \subseteq Told
             /\ nextKey' = nextKey /\ devices' = devices /\ srvAddrs' = srvAddrs
  <2>1. Told' \subseteq Told
    BY <1>0, ToldMoves DEF UiStep
  <2> QED BY <1>0, <2>1 DEF UiStep, Free, serverVars
<1>1. ASSUME NEW w \in Wallets, process_login_request(w) PROVE KeyInv'
  <2>1. UiStep /\ LoginAs(w)
    BY <1>1 DEF process_login_request
  <2>2. Asked' \subseteq Asked
    BY <1>0, <1>1, <2>1, AskedMoves DEF process_login_request, send_ws_connect
  <2>3. call' = "none" /\ asyncReqs' = asyncReqs /\ nextId' = nextId
    BY <1>0, <1>1, <2>1 DEF process_login_request
  <2> QED BY <1>0, <2>1, <2>2, <2>3, LoginSettings, KeyStep
<1>2. ASSUME NEW w \in Wallets, LoginFails(w) PROVE KeyInv'
  <2>1. UiStep /\ (LoginAs(w) \/ settings' = settings)
    BY <1>2 DEF LoginFails
  <2>2. Asked' \subseteq Asked
    BY <1>0, <1>2, <2>1, AskedMoves DEF LoginFails
  <2>3. call' = "none" /\ asyncReqs' = asyncReqs /\ nextId' = nextId
    BY <1>0, <1>2, <2>1 DEF LoginFails
  <2>4. CASE LoginAs(w)
    BY <1>0, <2>1, <2>2, <2>3, <2>4, LoginSettings, KeyStep
  <2>5. CASE settings' = settings
    BY <1>0, <2>1, <2>2, <2>3, <2>5, KeyQuietStep
  <2> QED BY <2>1, <2>4, <2>5
<1>3. CASE process_logout_request
  <2>1. /\ UiStep /\ settings'.device_key = NoKey /\ asyncReqs' = asyncReqs
        /\ nextId' = nextId /\ call' = call
    BY <1>3 DEF process_logout_request, DefaultSettings
  <2>2. Asked' \subseteq Asked
    BY <1>0, <1>3, <2>1, AskedMoves DEF process_logout_request, restart_websocket
  <2>3. CountersInv'
    BY <2>1 DEF CountersInv
  <2>4. ASSUME NEW cb \in asyncReqs PROVE AddressesInv(cb)'
    <3>1. AddressesInv(cb)
      BY DEF KeyInv
    <3> QED BY <1>0, <2>1, <3>1 DEF AddressesInv, Known
  <2> QED BY <1>0, <2>1, <2>2, <2>3, <2>4, KeyStep
<1>4. CASE process_change_network
  <2>1. /\ UiStep /\ settings' = settings /\ asyncReqs' = asyncReqs /\ nextId' = nextId
        /\ call' = call /\ callId' = callId
    BY <1>4 DEF process_change_network
  <2>2. Asked' \subseteq Asked
    BY <1>0, <1>4, <2>1, AskedMoves DEF process_change_network
  <2> QED BY <1>0, <2>1, <2>2, KeyQuietStep
<1>5. CASE process_update_push_token
  <2>1. WorkerTypeOK /\ nextId \in Nat
    BY DEF TypeOK, WorkerTypeOK
  <2>2. PICK cbs \in Seq(AsyncRequest) : cbs = update_push_token(nextId)
    BY <2>1, PushTokenType
  <2>3. Numbered(cbs, nextId)
    BY <2>1, <2>2, PushTokenNumbered
  <2>4. UiStep /\ make_async_requests(cbs) /\ settings' = settings /\ call' = call
    BY <1>5, <2>2 DEF process_update_push_token
  <2> QED BY <1>0, <2>3, <2>4, AsyncKeepsKeyInv
<1>6. CASE check_ws_connection
  <2>1. /\ UiStep /\ SendSync("Ping", NoKey) /\ "Ping" \in SyncOps
        /\ NoKey \in Nat \cup {NoKey} /\ asyncReqs' = asyncReqs /\ settings' = settings
    BY <1>6 DEF check_ws_connection, SyncOps
  <2>2. settings.device_key /= NoKey => settings.device_key < nextKey
    BY DEF KeyInv, FreshInv
  <2> QED BY <1>0, <2>1, <2>2, SameSettings, SendKeepsKeyInv
<1>7. ASSUME NEW account \in Accounts, update_used_addresses(account) PROVE KeyInv'
  <2>1. WorkerTypeOK /\ nextId \in Nat /\ used' \in [Chains -> Nat]
    BY DEF TypeOK, WorkerTypeOK
  <2>2. PICK cbs \in Seq(AsyncRequest) : cbs = update_address_registrations(nextId)
    BY <2>1, RegistrationsType
  <2>3. Numbered(cbs, nextId)
    BY <2>1, <2>2, RegistrationsNumbered
  <2>4. UiStep /\ make_async_requests(cbs) /\ settings' = settings /\ call' = call
    BY <1>7, <2>2 DEF update_used_addresses
  <2> QED BY <1>0, <2>3, <2>4, AsyncKeepsKeyInv
<1> QED BY <1>1, <1>2, <1>3, <1>4, <1>5, <1>6, <1>7 DEF Ui

-----------------------------------------------------------------------------
(* The theorems *)

LEMMA StartKeyInv == ASSUME Init PROVE KeyInv
<1>1. Requests(<<>>) = {} /\ Replies(<<>>) = {} /\ Items(<<>>) = {}
  BY SMT DEF Requests, Replies, Items
<1>2. Asked = {} /\ Told = {}
  BY <1>1 DEF Init, WsInit, Asked, Told
<1>3. asyncReqs = {} /\ call = "none" /\ settings.device_key = NoKey
  BY DEF Init, DefaultSettings
<1> QED BY <1>2, <1>3 DEF KeyInv, FreshInv, DeviceInv, CountersInv

LEMMA StepKeyInv ==
    ASSUME TypeOK, ConnInv, KeyInv, [Next]_vars
    PROVE  KeyInv'
<1>1. CASE UNCHANGED vars
  <2>1. Asked' \subseteq Asked /\ Told' \subseteq Told
    BY <1>1 DEF vars, wsVars, Asked, Told
  <2> QED BY <1>1, <2>1, KeyQuietStep DEF vars, workerVars, serverVars
<1>2. CASE Worker
  BY <1>2, WorkerType, WorkerKeepsKeyInv
<1>3. CASE Ui
  BY <1>3, UiType, UiKeepsKeyInv
<1> QED BY <1>1, <1>2, <1>3, WsKeepsKeyInv, ServerKeepsKeyInv, FaultsKeepKeyInv DEF Next

(* KeyInv holds in every reachable state: ids and keys are fresh, an open  *)
(* callback is answered by the reply to its own request, and the counters  *)
(* of the settings are backed by what the server has, over losses,         *)
(* restarts, logouts and keys the server forgets.                          *)
THEOREM KeyCorrect == Spec => []KeyInv
<1>1. Init => KeyInv
  BY StartKeyInv
<1>2. TypeOK /\ ConnInv /\ KeyInv /\ [Next]_vars => KeyInv'
  BY StepKeyInv
<1> QED BY <1>1, <1>2, TypeCorrect, ConnCorrect, PTL DEF Spec

(* An address counted as registered in the settings is known to the server *)
(* under the present key and wallet: update_address_registrations may      *)
(* start at the counter without leaving a gap.                             *)
THEOREM AlwaysRegisteredKnown == Spec => []RegisteredAreKnown
<1>1. TypeOK /\ KeyInv => RegisteredAreKnown
  <2>1. TypeOK /\ settings.device_key \in devices => settings.device_key /= NoKey
    BY ConnAssumption DEF TypeOK, ServerTypeOK
  <2> QED BY <2>1 DEF KeyInv, CountersInv, Known, RegisteredAreKnown
<1> QED BY <1>1, TypeCorrect, KeyCorrect, PTL

(* The worker gives up a device key the server still knows only at a       *)
(* logout, or where device keys are disabled: an answer to VerifyDevice    *)
(* that came late, or for another key, never makes it register again.      *)
LEMMA KeyKeptStep ==
    ASSUME TypeOK, ConnInv, KeyInv, [Next]_vars,
           settings.device_key \in devices,
           settings'.device_key /= settings.device_key
    PROVE  settings'.reg_info = NoWallet \/ DisableDeviceKey
<1>0. settings.device_key /= NoKey /\ settings' /= settings
  BY ConnAssumption DEF TypeOK, ServerTypeOK
<1>1. CASE process_logout_request
  BY <1>1 DEF process_logout_request, DefaultSettings
<1>2. CASE HandshakeContinues
  <2>1. respq \in Seq(Reply) /\ respq /= <<>> /\ call \in HandshakeOps
    BY <1>2 DEF HandshakeContinues, Replied, TypeOK, WsTypeOK
  <2>2. PICK r : /\ r = Head(respq) /\ r \in Told /\ r.id = callId
                 /\ settings' = HandshakeSettings(r)
    <3>1. Head(respq) \in Told
      BY <2>1, TailCarries DEF Told
    <3> QED BY <1>2, <3>1 DEF HandshakeContinues, Answered
  <2>3. call /= "RegisterDevice"
    BY <1>0 DEF KeyInv, DeviceInv
  <2>4. ~(call = "VerifyDevice" /\ r.res = "unregistered")
    BY <2>2 DEF KeyInv, DeviceInv
  <2> QED BY <1>0, <2>1, <2>2, <2>3, <2>4, HandshakeSettingsAre
<1>3. ASSUME NEW w, LoginAs(w) PROVE FALSE
  BY <1>3 DEF LoginAs, TypeOK, WorkerTypeOK
<1>4. ASSUME process_async_resp PROVE FALSE
  BY <1>0, <1>4 DEF process_async_resp, TypeOK, WorkerTypeOK
<1>5. CASE Worker
  BY <1>0, <1>2, <1>4, <1>5
     DEF Worker, process_ws_connected, process_ws_disconnected, DiscardOldResponse,
         HandshakeSucceeds, PingSucceeds, CallRefused, CallTimeout, CallFails
<1>6. CASE Ui
  BY <1>0, <1>1, <1>3, <1>6
     DEF Ui, process_login_request, LoginFails, process_change_network,
         process_update_push_token, check_ws_connection, update_used_addresses
<1>7. CASE WsThread
  BY <1>0, <1>7 DEF WsThread, workerVars
<1>8. ASSUME NEW q \in toServer, Server(q) PROVE FALSE
  BY <1>0, <1>8 DEF Server, ServerAccepts, ServerVerifyDevice, ServerRegisterDevice,
                    ServerRegisterAddresses, Answer, workerVars
<1>9. CASE Faults
  BY <1>0, <1>9 DEF Faults, ConnectionLost, ServerRefuses, ServerForgetsDevice, Restart,
                    Answer, workerVars
<1> QED BY <1>0, <1>5, <1>6, <1>7, <1>8, <1>9 DEF Next, vars, workerVars

(* VerifyDevice and RegisterDevice replace the device key of the settings  *)
(* only when the server does not know it: a key it still knows is given up *)
(* by a logout alone (or where device keys are disabled), in every step.   *)
THEOREM KnownKeyAlwaysKept == Spec => KnownKeyIsKept
<1>1. TypeOK /\ ConnInv /\ KeyInv /\ [Next]_vars =>
        [settings.device_key \in devices /\ settings'.device_key /= settings.device_key
           => settings'.reg_info = NoWallet \/ DisableDeviceKey]_vars
  BY KeyKeptStep
<1> QED BY <1>1, TypeCorrect, ConnCorrect, KeyCorrect, PTL DEF Spec, KnownKeyIsKept
=============================================================================
