------------------------------- MODULE WsAuto -------------------------------
(***************************************************************************)
(* The "auto" web-socket thread of sideswap_common (ws/auto.rs) with the   *)
(* channels that join it to its owner and the connection to the server.    *)
(*                                                                         *)
(* Unlike the manual thread it reconnects by itself, for ever.  Requests   *)
(* made while it is connecting wait in the channel and are written to the  *)
(* next connection; what was written to a connection dies with it.         *)
(***************************************************************************)
EXTENDS Sequences

CONSTANT IsReply(_)   \* ResponseMessage::Response (else a Notification)

VARIABLE net
(* net.ws      "connecting" or "open"                                      *)
(* net.reqs    requests of the owner, not yet written                      *)
(* net.sock    requests written, not yet read by the server                *)
(* net.stream  what the server sent and the thread has not read            *)
(* net.msgs    the owner's message queue                                   *)
(* net.resps   the owner's reply channel                                   *)

NetInit == [ws |-> "connecting", reqs |-> <<>>, sock |-> <<>>, stream |-> <<>>,
            msgs |-> <<>>, resps |-> <<>>]

(* An attempt succeeds; those that fail are repeated after a delay.        *)
AutoConnected ==
    /\ net.ws = "connecting"
    /\ net' = [net EXCEPT !.ws = "open", !.msgs = Append(@, [t |-> "Connected"])]

(* A request is taken from the channel and written.                        *)
AutoSend ==
    /\ net.ws = "open" /\ net.reqs /= <<>>
    /\ net' = [net EXCEPT !.reqs = Tail(@), !.sock = Append(@, Head(net.reqs))]

(* A message is read; the owner's forwarding thread sends replies to the   *)
(* reply channel and notifications to the message queue.                   *)
AutoDeliver ==
    /\ net.ws = "open" /\ net.stream /= <<>>
    /\ LET m == Head(net.stream)
           read == [net EXCEPT !.stream = Tail(@)]
       IN  net' = IF IsReply(m) THEN [read EXCEPT !.resps = Append(@, m)]
                  ELSE [read EXCEPT !.msgs = Append(@, m)]

(* A read error, or no byte within PONG_TIMEOUT.  A stream that ends       *)
(* without an error is a panic instead: of the process, where the owner    *)
(* has a panic hook, or of this thread alone, which is not modelled.       *)
AutoLost ==
    /\ net.ws = "open"
    /\ net' = [net EXCEPT !.ws = "connecting", !.sock = <<>>, !.stream = <<>>,
                          !.msgs = Append(@, [t |-> "Disconnected"])]
=============================================================================
