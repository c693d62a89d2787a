------------------------------ MODULE WsManual ------------------------------
(***************************************************************************)
(* The "manual" web-socket thread of sideswap_common (ws/manual.rs) with   *)
(* the two channels that join it to its owner and the wire to the server.  *)
(*                                                                         *)
(* The thread has three control points: it waits for a Connect request     *)
(* ("idle"), it tries to open a connection ("connecting"), or it serves    *)
(* an open one ("connected").  It never reconnects by itself: after a loss *)
(* it reports Disconnected and waits for the next Connect.                 *)
(*                                                                         *)
(* Every operator below states what the thread does to its own state; the  *)
(* module that composes it with an owner says what happens to the rest.    *)
(***************************************************************************)
EXTENDS Naturals, Sequences

CONSTANTS
    Request,    \* the requests the owner may send
    Reply,      \* the replies of the server
    IsSync(_)   \* does a reply answer a blocking request of the owner?

VARIABLES
    ws,          \* control point of the thread
    reqq,        \* requests of the owner, not yet read by the thread
    msgq,        \* the owner's message queue
    respq,       \* replies to blocking requests (resp_receiver)
    toServer,    \* requests written to the open connection
    fromServer   \* replies of the server not yet read by the thread

Connect == [type |-> "Connect"]
Disconnect == [type |-> "Disconnect"]
Send(r) == [type |-> "Request", req |-> r]

Connected == [type |-> "Connected"]
Disconnected == [type |-> "Disconnected"]
Response(r) == [type |-> "Response", reply |-> r]

WrappedRequest == {Connect, Disconnect} \cup [type : {"Request"}, req : Request]
WrappedResponse ==
    {Connected, Disconnected} \cup [type : {"Response"}, reply : Reply]

WsTypeOK ==
    /\ ws \in {"idle", "connecting", "connected"}
    /\ reqq \in Seq(WrappedRequest)
    /\ msgq \in Seq(WrappedResponse)
    /\ respq \in Seq(Reply)
    /\ toServer \subseteq Request
    /\ fromServer \subseteq Reply

WsInit ==
    /\ ws = "idle"
    /\ reqq = <<>>
    /\ msgq = <<>>
    /\ respq = <<>>
    /\ toServer = {}
    /\ fromServer = {}
-----------------------------------------------------------------------------
(* Requests read while no connection is wanted: anything but Connect is    *)
(* dropped.                                                                *)
WsAwaitConnect ==
    /\ ws = "idle"
    /\ reqq /= <<>>
    /\ ws' = IF Head(reqq) = Connect THEN "connecting" ELSE "idle"
    /\ reqq' = Tail(reqq)
    /\ UNCHANGED <<msgq, respq, toServer, fromServer>>

(* The connection attempt succeeds; requests keep waiting until then.      *)
WsConnected ==
    /\ ws = "connecting"
    /\ ws' = "connected"
    /\ msgq' = Append(msgq, Connected)
    /\ UNCHANGED <<reqq, respq, toServer, fromServer>>

(* Bug: a loss of the connection is not reported. *)
Bug_CloseSilently ==
    /\ ws' = "idle"
    /\ toServer' = {}
    /\ fromServer' = {}
    /\ UNCHANGED msgq

(* The connection is closed: what is on the wire is lost.                  *)
Close ==
    /\ ws' = "idle"
    /\ msgq' = Append(msgq, Disconnected)
    /\ toServer' = {}
    /\ fromServer' = {}

(* A request read while connected.                                         *)
WsServeRequest ==
    /\ ws = "connected"
    /\ reqq /= <<>>
    /\ reqq' = Tail(reqq)
    /\ UNCHANGED respq
    /\ \/ /\ Head(reqq).type = "Request"
          /\ toServer' = toServer \cup {Head(reqq).req}
          /\ UNCHANGED <<ws, msgq, fromServer>>
       \/ /\ Head(reqq) = Connect
          /\ UNCHANGED <<ws, msgq, toServer, fromServer>>
       \/ /\ Head(reqq) = Disconnect
          /\ Close

(* The connection breaks, or no byte came for PONG_TIMEOUT.  A stream that *)
(* ends without an error is a panic, which aborts the process: a restart   *)
(* of the owner.                                                           *)
WsLost ==
    /\ ws = "connected"
    /\ Close
    /\ UNCHANGED <<reqq, respq>>

(* The owner's forwarding thread: replies to blocking requests go to a     *)
(* channel of their own, everything else to the message queue.             *)
Forward(r) ==
    \/ IsSync(r) /\ respq' = Append(respq, r) /\ UNCHANGED msgq
    \/ ~IsSync(r) /\ msgq' = Append(msgq, Response(r)) /\ UNCHANGED respq

(* A reply is read from the connection.                                    *)
WsDeliver(r) ==
    /\ ws = "connected"
    /\ r \in fromServer
    /\ fromServer' = fromServer \ {r}
    /\ Forward(r)
    /\ UNCHANGED <<ws, reqq, toServer>>
=============================================================================
