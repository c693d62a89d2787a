-------------------------------- MODULE Jade --------------------------------
(***************************************************************************)
(* The Jade hardware wallet as the client uses it: an operation of the     *)
(* client (gdk_ses_impl.rs: unlock_hw and the actions of the auth handler; *)
(* jade_mng.rs: ports), the managed handle it goes through (jade_mng.rs),  *)
(* the worker thread of an open handle (sideswap_jade/lib.rs), the thread  *)
(* of its serial port (serial.rs, reader.rs), and the device.              *)
(*                                                                         *)
(* The client sends requests and takes whatever comes next out of the      *)
(* response channel for the answer, by its kind alone; every wait has a    *)
(* timeout, so an answer may come when the operation it belongs to is      *)
(* over.  The worker matches replies of the device by request numbers,     *)
(* which start anew with every handle.                                     *)
(***************************************************************************)
EXTENDS Integers, Sequences, FiniteSets, SequencesExt

CONSTANTS
    Ops,         \* operations the client may start: a subset of DOMAIN Body
    Items,       \* number of scripts, paths or inputs of an operation
    MaxOps,      \* bound: operations
    MaxHandles,  \* bound: handles opened
    MaxFaults    \* bound: refusals, garbled messages, failed HTTP requests, unplugging

VARIABLES
    c,       \* the client thread: its operation and what is left of it
    mng,     \* the managed handles: of the session, of a first login, of a port scan
    jades,   \* the handles opened so far: worker, pending requests, serial thread
    dev,     \* the device
    known,   \* JadeMng.known_ports has the device
    status,  \* the Jade status shown to the user
    faults

vars == <<c, mng, jades, dev, known, status, faults>>

Managed == {"session", "login", "scan"}
Closed == [open |-> FALSE, h |-> 0, q |-> <<>>]
Opened == [Closed EXCEPT !.open = TRUE]
NoOp == [op |-> "none", n |-> 0, m |-> "session", script |-> <<>>, sent |-> <<>>, got |-> <<>>,
         own |-> TRUE]

(* A wallet that was logged in to with its saved registration.             *)
Init ==
    /\ c = NoOp
    /\ mng = [m \in Managed |-> IF m = "session" THEN Opened ELSE Closed]
    /\ jades = <<>>
    /\ dev = [plugged |-> TRUE, locked |-> TRUE, queue |-> <<>>, flow |-> <<>>,
              failed |-> {}]
    /\ known = FALSE
    /\ status = "Idle"
    /\ faults = 0

Fault == faults < MaxFaults /\ faults' = faults + 1
-----------------------------------------------------------------------------
(* What an operation does with the device once it is unlocked.             *)
Clear == [i |-> "clear"]
Send(k) == [i |-> "send", k |-> k]
Recv(k) == [i |-> "recv", k |-> k]
Each(steps) == FlattenSeq([j \in 1..Items |-> steps])

GetXpubs == Each(<<Clear, Send("ResolveXpub"), Recv("ResolveXpub")>>)
GetBlindingPublicKeys ==
    <<Clear>> \o Each(<<Send("GetBlindingKey")>>) \o Each(<<Recv("GetBlindingKey")>>)
GetBlindingNonces ==
    <<Clear>> \o Each(<<Send("GetSharedNonce"), Send("GetBlindingKey")>>)
              \o Each(<<Recv("GetSharedNonce"), Recv("GetBlindingKey")>>)
TxInputs == Each(<<Send("TxInput"), Recv("TxInput")>>)
Signatures == Each(<<Send("GetSignature"), Recv("GetSignature")>>)
SignTx == <<[i |-> "prepare"], Clear, Send("SignTx"), Recv("SignTx")>> \o TxInputs \o Signatures
SignMessage ==
    <<Clear, Send("SignMessage"), Recv("SignMessage"), Send("GetSignature"), Recv("GetSignature")>>
ResolveXpubs == Each(<<Send("ResolveXpub"), Recv("ResolveXpub")>>)
GetMasterBlindingKey ==
    <<Send("GetMasterBlindingKey"), Recv("GetMasterBlindingKey")>> \o ResolveXpubs

(* run_auth_handler_impl: the action the wallet library asks for; the      *)
(* blinding key is asked for by the first login of a wallet.               *)
Body ==
    [GetXpubs |-> GetXpubs, GetBlindingPublicKeys |-> GetBlindingPublicKeys,
     GetBlindingNonces |-> GetBlindingNonces, SignTx |-> SignTx, SignMessage |-> SignMessage,
     GetMasterBlindingKey |-> GetMasterBlindingKey]

(* unlock_hw; the first wait for the status may fail once.                 *)
Unlock == <<Clear, Send("ReadStatus"), [i |-> "status"]>>

Begin(op) ==
    /\ c.script = <<>> /\ c.n < MaxOps
    /\ op /= "GetMasterBlindingKey" /\ mng["session"].open
    /\ c' = [NoOp EXCEPT !.op = op, !.n = c.n + 1, !.script = Unlock \o Body[op]]
    /\ UNCHANGED <<mng, jades, dev, known, status, faults>>

Post(g, msg) == [jades EXCEPT ![g].inbox = Append(@, msg)]
Dropped(g) == IF g = 0 THEN jades ELSE Post(g, [t |-> "Quit"])

(* A managed handle is dropped with its channel: callbacks that hold the   *)
(* other end of it send to nobody.                                         *)
DroppedWithChannel(m) ==
    [g \in DOMAIN jades |->
        [Dropped(mng[m].h)[g] EXCEPT !.m = IF @ = m THEN "none" ELSE @]]

(* try_register, after a logout that dropped the session, goes through a   *)
(* handle of its own.  The actions of the wallet library in between, which *)
(* are those of a session, are left out.                                   *)
FirstLogin ==
    /\ c.script = <<>> /\ c.n < MaxOps /\ "GetMasterBlindingKey" \in Ops
    /\ c' = [NoOp EXCEPT !.op = "GetMasterBlindingKey", !.n = c.n + 1, !.m = "login",
                         !.script = Unlock \o GetMasterBlindingKey]
    /\ jades' = DroppedWithChannel("session")
    /\ mng' = [mng EXCEPT !["session"] = Closed, !["login"] = Opened]
    /\ UNCHANGED <<dev, known, status, faults>>

(* JadeMng::ports, for the one device there is: erased when it is gone,    *)
(* opened when it is new.                                                  *)
Rescan ==
    /\ c.script = <<>> /\ c.n < MaxOps
    /\ c' = IF dev.plugged /\ ~known
            THEN [NoOp EXCEPT !.op = "ports", !.n = c.n + 1, !.m = "scan",
                              !.script = <<Send("ReadStatus"), Recv("ReadStatus")>>]
            ELSE c
    /\ mng' = [mng EXCEPT !["scan"] = IF dev.plugged /\ ~known THEN Opened ELSE Closed]
    /\ known' = (known /\ dev.plugged)
    /\ UNCHANGED <<jades, dev, status, faults>>

(* The script of an operation, and its end.                                *)
Next_instr == Head(c.script)
Does(i) == c.script /= <<>> /\ Next_instr.i = i
Left == [c EXCEPT !.script = Tail(@)]
Ended == [c EXCEPT !.script = <<>>, !.sent = <<>>, !.got = <<>>, !.op = "none", !.own = TRUE]

(* Bug: the status is reset only when the operation succeeds. *)
Bug_keeps_status == c' = Ended /\ UNCHANGED status

Ends == c' = Ended /\ status' = "Idle"

(* SignTx shows its status first; what it makes of the transaction may not *)
(* be fit for the device.                                                  *)
Prepare ==
    /\ Does("prepare")
    /\ \/ c' = Left /\ status' = "SignTx" /\ UNCHANGED faults
       \/ Fault /\ Ends
    /\ UNCHANGED <<mng, jades, dev, known>>
-----------------------------------------------------------------------------
(* The managed handle.                                                     *)
Q == mng[c.m].q
H == mng[c.m].h
IsOk(r) == r.t = "ok"

(* The queue is read up to its first error, which is read too; a fatal one *)
(* drops the handle.                                                       *)
clear_queue ==
    /\ Does("clear")
    /\ LET errs == {i \in DOMAIN Q : ~IsOk(Q[i])}
           last == IF H = 0 THEN 0
                   ELSE IF errs = {} THEN Len(Q)
                   ELSE CHOOSE i \in errs : \A j \in errs : i <= j
           fatal == last > 0 /\ Q[last].t = "fatal"
       IN  /\ mng' = [mng EXCEPT ![c.m].q = SubSeq(@, last + 1, Len(@)),
                                 ![c.m].h = IF fatal THEN 0 ELSE @]
           /\ jades' = IF fatal THEN Dropped(H) ELSE jades
    /\ c' = Left
    /\ UNCHANGED <<dev, known, status, faults>>

(* try_send: a handle is opened when there is none; that fails, and is     *)
(* only logged, without a device or while the port is open elsewhere (the  *)
(* serial port library opens ports exclusively).  A request is known by    *)
(* its kind, its operation and its place among those of the operation.     *)
Req(k) == [k |-> k, n |-> c.n, i |-> Len(c.sent) + 1]
InUse == \E g \in DOMAIN jades : jades[g].serial
CanOpen == dev.plugged /\ ~InUse /\ Len(jades) < MaxHandles
NoHttp == [v |-> "none"]
NewJade == [m |-> c.m, inbox |-> <<>>, pending |-> {}, last |-> 0, serial |-> TRUE, alive |-> TRUE,
             http |-> NoHttp]

try_send ==
    /\ Does("send")
    /\ LET r == Req(Next_instr.k)
           msg == [t |-> "Req", req |-> r]
       IN  /\ \/ H /= 0 /\ jades' = Post(H, msg) /\ UNCHANGED mng
              \/ /\ H = 0 /\ CanOpen
                 /\ jades' = Append(jades, [NewJade EXCEPT !.inbox = <<msg>>])
                 /\ mng' = [mng EXCEPT ![c.m].h = Len(jades) + 1]
              \/ H = 0 /\ ~CanOpen /\ UNCHANGED <<jades, mng>>
           /\ c' = [Left EXCEPT !.sent = Append(@, r)]
           /\ status' = IF r.k \in {"AuthUser", "GetMasterBlindingKey"} THEN r.k
                        ELSE status
    /\ UNCHANGED <<dev, known, faults>>

(* try_recv: the outcome of a wait is an error, without a handle or after  *)
(* the timeout, or the next entry of the channel.                          *)
NoReply == [t |-> "none"]

(* Bug: recv in place of recv_timeout. *)
Bug_no_timeout == H = 0 \/ Q /= <<>>

Waited == TRUE
Outcome == IF H = 0 \/ Q = <<>> THEN NoReply ELSE Head(Q)
Consumed ==
    /\ mng' = [mng EXCEPT ![c.m].q = IF H = 0 \/ @ = <<>> THEN @ ELSE Tail(@),
                          ![c.m].h = IF Outcome.t = "fatal" THEN 0 ELSE @]
    /\ jades' = IF Outcome.t = "fatal" THEN Dropped(H) ELSE jades

(* A first login and a port scan drop their handles at the end; a wallet   *)
(* that was registered is logged in to.                                    *)
Drops(registered) ==
    /\ jades' = DroppedWithChannel(c.m)
    /\ mng' = [mng EXCEPT ![c.m] = Closed, !["session"] = IF registered THEN Opened ELSE @]

(* The wait for the status is repeated once when it fails.  A locked       *)
(* device asks for the PIN first; one that is not set up is refused.       *)
OnStatus ==
    /\ Does("status") \/ Does("status2")
    /\ Waited
    /\ LET r == Outcome
           rest == Tail(c.script)
           read == IsOk(r) /\ r.k = "ReadStatus" /\ r.v \in {"Ready", "Locked"}
       IN  \/ /\ ~IsOk(r) /\ Does("status")
              /\ c' = [c EXCEPT !.script = <<[i |-> "status2"]>> \o rest]
              /\ status' = "ReadStatus"
              /\ Consumed
           \/ /\ (~IsOk(r) /\ Does("status2")) \/ (IsOk(r) /\ ~read)
              /\ Ends
              /\ IF c.m = "session" THEN Consumed ELSE Drops(FALSE)
           \/ /\ read
              /\ c' = [c EXCEPT !.script = IF r.v = "Locked"
                                           THEN <<Send("AuthUser"), Recv("AuthUser")>> \o rest
                                           ELSE rest,
                             !.own = (r.req.n = c.n)]
              /\ status' = "Idle"
              /\ Consumed
    /\ UNCHANGED <<dev, known, faults>>

(* Any other answer: of the kind that is expected, and not negative.       *)
OnReply ==
    /\ Does("recv") /\ Waited
    /\ LET r == Outcome
           k == Next_instr.k
           good == IsOk(r) /\ r.k = k /\ r.v /= "false"
           more == good /\ Len(c.script) > 1
       IN  /\ IF more
              THEN /\ c' = [Left EXCEPT !.got = Append(@, r)]
                   /\ status' = IF k \in {"AuthUser", "GetMasterBlindingKey"} THEN "Idle" ELSE status
              ELSE Ends
           /\ known' = (known \/ (good /\ c.op = "ports"))
           /\ IF more \/ c.m = "session" THEN Consumed
              ELSE Drops(good /\ c.m = "login")
    /\ UNCHANGED <<dev, faults>>
-----------------------------------------------------------------------------
(* The worker thread of a handle.  Numbers of requests start at 1 here.    *)
Inbox(g) == jades[g].inbox
Msg(g) == Head(Inbox(g))
Gets(g, t) == jades[g].alive /\ jades[g].http = NoHttp /\ Inbox(g) /= <<>> /\ Msg(g).t = t
Read(g) == [jades[g] EXCEPT !.inbox = Tail(@)]

(* The callback, unless the channel is gone.                               *)
Callback(g, r) ==
    mng' = IF jades[g].m = "none" THEN mng ELSE [mng EXCEPT ![jades[g].m].q = Append(@, r)]

(* A request is written to the serial port and pending, unless the port's  *)
(* thread has ended.                                                       *)
HandleSend(g, state, k, r) ==
    IF state.serial
    THEN LET id == state.last + 1
         IN  /\ jades' = [jades EXCEPT ![g] = [state EXCEPT !.last = id, !.pending = @ \cup {[id |-> id, k |-> k]}]]
             /\ dev' = [dev EXCEPT !.queue = Append(@, [id |-> id, g |-> g, k |-> k, req |-> r])]
             /\ UNCHANGED mng
    ELSE /\ jades' = [jades EXCEPT ![g] = [state EXCEPT !.last = @ + 1]]
         /\ Callback(g, [t |-> "fatal"])
         /\ UNCHANGED dev

(* Bug: the status is asked for whatever is pending. *)
Bug_status_any_time(g) ==
    /\ Gets(g, "Req") /\ Msg(g).req.k = "ReadStatus"
    /\ HandleSend(g, Read(g), "ReadStatus", Msg(g).req)
    /\ UNCHANGED <<c, known, status, faults>>

(* Old status requests are forgotten; a new one is sent only when nothing  *)
(* else is pending ("because unlock would fail").                          *)
OnReadStatus(g) ==
    /\ Gets(g, "Req") /\ Msg(g).req.k = "ReadStatus"
    /\ LET others == {p \in jades[g].pending : p.k /= "ReadStatus"}
           state == [Read(g) EXCEPT !.pending = others]
       IN  IF others = {} THEN HandleSend(g, state, "ReadStatus", Msg(g).req)
           ELSE jades' = [jades EXCEPT ![g] = state] /\ UNCHANGED <<dev, mng>>
    /\ UNCHANGED <<c, known, status, faults>>

OnRequest(g) ==
    /\ Gets(g, "Req") /\ Msg(g).req.k /= "ReadStatus"
    /\ HandleSend(g, Read(g), Msg(g).req.k, Msg(g).req)
    /\ UNCHANGED <<c, known, status, faults>>

(* Replies that can be parsed for one another.                             *)
Format(k) ==
    CASE k = "ReadStatus" -> "version" [] k = "AuthUser" -> "http" [] k = "ResolveXpub" -> "text"
      [] k \in {"AuthComplete", "SignTx"} -> "bool" [] OTHER -> "bytes"

(* handle_port_msg: what is no response at all, or does not parse, is a    *)
(* fatal error; a number that is not pending is ignored; the first reply   *)
(* to AuthUser asks for an HTTP request whose result the device gets.      *)
OnPortData(g) ==
    /\ Gets(g, "Data")
    /\ LET d == Msg(g)
           hit == {p \in jades[g].pending : p.id = d.id}
           state == [Read(g) EXCEPT !.pending = @ \ hit]
           p == CHOOSE p \in hit : TRUE
           answer(r) == Callback(g, r) /\ jades' = [jades EXCEPT ![g] = state] /\ UNCHANGED dev
       IN  \/ d.k = "garbled" /\ answer([t |-> "fatal"])
           \/ /\ d.k /= "garbled" /\ hit = {}
              /\ jades' = [jades EXCEPT ![g] = state] /\ UNCHANGED <<mng, dev>>
           \/ /\ d.k /= "garbled" /\ hit /= {} /\ d.v = "error"
              /\ answer([t |-> "err"])
           \/ /\ d.k /= "garbled" /\ hit /= {} /\ d.v /= "error" /\ Format(d.k) /= Format(p.k)
              /\ answer([t |-> "fatal"])
           \/ /\ d.k /= "garbled" /\ hit /= {} /\ d.v /= "error" /\ Format(d.k) = Format(p.k)
              /\ IF p.k = "AuthUser"
                 THEN /\ jades' = [jades EXCEPT ![g] = [state EXCEPT !.http = [v |-> d.v, req |-> d.req]]]
                      /\ UNCHANGED <<mng, dev>>
                 ELSE answer([t |-> "ok", k |-> IF p.k = "AuthComplete" THEN "AuthUser" ELSE p.k,
                              v |-> d.v, req |-> d.req])
    /\ UNCHANGED <<c, known, status, faults>>

(* The HTTP request blocks the worker.  When it fails the device is left   *)
(* in its dialog.                                                          *)
HttpDone(g) ==
    /\ jades[g].http /= NoHttp
    /\ LET h == jades[g].http
           state == [jades[g] EXCEPT !.http = NoHttp]
       IN  \/ /\ HandleSend(g, state, IF h.v = "handshake_complete" THEN "AuthComplete"
                                      ELSE "AuthUser", h.req)
              /\ UNCHANGED faults
           \/ /\ Callback(g, [t |-> "err"])
              /\ jades' = [jades EXCEPT ![g] = state]
              /\ dev' = [dev EXCEPT !.failed = @ \cup {"http"}] /\ Fault
    /\ UNCHANGED <<c, known, status>>

OnPortFatal(g) ==
    /\ Gets(g, "Fatal")
    /\ jades' = [jades EXCEPT ![g] = Read(g)]
    /\ Callback(g, [t |-> "fatal"])
    /\ UNCHANGED <<c, dev, known, status, faults>>

(* Quit ends the worker, and with it the thread of the serial port.        *)
Quit(g) ==
    /\ Gets(g, "Quit")
    /\ jades' = [jades EXCEPT ![g] = [@ EXCEPT !.alive = FALSE, !.serial = FALSE, !.inbox = <<>>, !.pending = {}]]
    /\ UNCHANGED <<c, mng, dev, known, status, faults>>

Worker(g) == OnReadStatus(g) \/ OnRequest(g) \/ OnPortData(g) \/ HttpDone(g) \/ OnPortFatal(g) \/ Quit(g)
-----------------------------------------------------------------------------
(* The device (external): it handles one request at a time, for as long as *)
(* its user takes, and answers with the number of the request.  A dialog   *)
(* is ended by a request that is not the next one of it.                   *)
Dialog(k) ==
    CASE k = "AuthUser" -> <<"AuthUser", "AuthComplete">>
      [] k = "SignTx" -> Each(<<"TxInput">>) \o Each(<<"GetSignature">>)
      [] k = "SignMessage" -> <<"GetSignature">>
      [] OTHER -> <<>>

Value(k) ==
    CASE k = "ReadStatus" -> IF dev.locked THEN "Locked" ELSE "Ready"
      [] k = "AuthUser" -> IF dev.flow = <<>> THEN "handshake_init" ELSE "handshake_complete"
      [] OTHER -> "true"

(* The reply reaches the thread that reads the port; one that just opened  *)
(* it drops what was asked for through an earlier handle.                  *)
Reply(d, q) ==
    \/ \E g \in DOMAIN jades : jades[g].serial /\ jades' = Post(g, d)
    \/ (\A g \in DOMAIN jades : jades[g].serial => g > q.g) /\ UNCHANGED jades

(* The worker of a dropped handle has nothing to wait for: it has ended    *)
(* when the device, at the end of a slow serial line, answers the next.    *)
Settled == \A g \in DOMAIN jades : jades[g].alive => \E m \in Managed : mng[m].h = g

DeviceReplies ==
    /\ dev.queue /= <<>> /\ Settled
    /\ LET q == Head(dev.queue)
           next == dev.flow /= <<>> /\ q.k = Head(dev.flow)
           first == dev.flow = <<>> /\ q.k \notin {"AuthComplete", "TxInput", "GetSignature"}
           accepted == (next \/ first) /\ (dev.locked => q.k \in {"ReadStatus", "AuthUser", "AuthComplete"})
           reply(v) == [t |-> "Data", id |-> q.id, k |-> q.k, v |-> v, req |-> q.req]
           waits == [dev EXCEPT !.queue = Tail(@)]
       IN  \/ /\ accepted
              /\ dev' = [waits EXCEPT !.flow = IF next THEN Tail(@) ELSE Dialog(q.k),
                                      !.locked = @ /\ q.k /= "AuthComplete"]
              /\ Reply(reply(Value(q.k)), q)
              /\ UNCHANGED faults
           \/ /\ ~accepted
              /\ dev' = [waits EXCEPT !.flow = <<>>]
              /\ Reply(reply("error"), q)
              /\ UNCHANGED faults
           \/ /\ accepted /\ Fault
              /\ dev' = [waits EXCEPT !.flow = <<>>]
              /\ \E v \in CASE Format(q.k) = "bool" -> {"false", "error"}
                            [] q.k = "ReadStatus" -> {"Uninit", "error"}
                            [] OTHER -> {"error"} :
                    Reply(reply(v), q)
    /\ UNCHANGED <<c, mng, known, status>>

(* Something that is no response is read from the port.                    *)
Garbled ==
    /\ Fault
    /\ \E g \in DOMAIN jades :
          jades[g].serial /\ jades' = Post(g, [t |-> "Data", id |-> 0, k |-> "garbled"])
    /\ dev' = [dev EXCEPT !.failed = @ \cup {"garbled"}]
    /\ UNCHANGED <<c, mng, known, status>>

Unplugged ==
    /\ dev.plugged /\ Fault
    /\ dev' = [dev EXCEPT !.plugged = FALSE, !.locked = TRUE, !.queue = <<>>, !.flow = <<>>]
    /\ jades' = [g \in DOMAIN jades |->
                    IF jades[g].serial
                    THEN [jades[g] EXCEPT !.serial = FALSE, !.inbox = Append(@, [t |-> "Fatal"])]
                    ELSE jades[g]]
    /\ UNCHANGED <<c, mng, known, status>>

Plugged ==
    /\ ~dev.plugged
    /\ dev' = [dev EXCEPT !.plugged = TRUE]
    /\ UNCHANGED <<c, mng, jades, known, status, faults>>
-----------------------------------------------------------------------------
Operation == Prepare \/ clear_queue \/ try_send \/ OnStatus \/ OnReply
Client == (\E op \in Ops : Begin(op)) \/ FirstLogin \/ Rescan \/ Operation
Workers == \E g \in DOMAIN jades : Worker(g)
Next == Client \/ Workers \/ DeviceReplies \/ Garbled \/ Unplugged \/ Plugged
Spec == Init /\ [][Next]_vars
LiveSpec == Spec /\ WF_vars(Operation) /\ WF_vars(Workers)
-----------------------------------------------------------------------------
(* The shape of the state.  A managed handle that is closed leaves nothing *)
(* behind, and between operations only the session's is open.              *)
TypeOK ==
    /\ c.op \in DOMAIN Body \cup {"none", "ports"} /\ c.m \in Managed
    /\ \A m \in Managed : mng[m].h \in 0..Len(jades)
    /\ \A g \in DOMAIN jades : jades[g].last \in Nat
    /\ \A m \in Managed :
          IF mng[m].open THEN m = "session" \/ (m = c.m /\ c.script /= <<>>) ELSE mng[m] = Closed
    /\ status \in {"Idle", "ReadStatus", "AuthUser", "GetMasterBlindingKey", "SignTx"}

(* The answers an operation has taken are those to its own requests, in    *)
(* the order in which it made them: an answer that came too late for an    *)
(* earlier operation is never taken for one of this operation, although    *)
(* only its kind is looked at.  This is what the status request at the     *)
(* start of every operation is good for, which is held back while anything *)
(* else is pending; so it does not hold for an operation that has taken a  *)
(* late status for its own.  Nor after a message that is no response: the  *)
(* handle is dropped and opened again while the device goes on, and the    *)
(* numbers of the new handle's requests are those of the old one.          *)
AnswersAreOwn ==
    c.own /\ "garbled" \notin dev.failed =>
    LET mine == SelectSeq(c.sent, LAMBDA r : r.k /= "ReadStatus")
    IN  \A i \in DOMAIN c.got :
           c.got[i].req = [mine[i] EXCEPT !.k = c.got[i].req.k] /\ c.got[i].k = mine[i].k

(* "Do not send status requests while unlocking wallet (because unlock     *)
(* would fail)": a dialog of the device with its user is not ended by a    *)
(* status request of the handle it is for.  Not after a failed HTTP        *)
(* request, which leaves the device in its dialog ("TODO: Cancel auth      *)
(* prompt on the device").                                                 *)
UnlockNotDisturbed ==
    dev.failed = {} =>
    \A i \in DOMAIN dev.queue :
       LET q == dev.queue[i]
       IN  q.k = "ReadStatus" /\ dev.flow /= <<>>
              => {p \in jades[q.g].pending : p.k \in {"AuthUser", "AuthComplete"}} = {}

(* The user is not asked to look at the device when no operation runs:     *)
(* the status callback is called with Idle on every way out.               *)
StatusIsReset == c.script = <<>> => status = "Idle"

(* Every operation ends, whatever the device and its user do.              *)
OperationsEnd == c.script /= <<>> ~> c.script = <<>>
=============================================================================
