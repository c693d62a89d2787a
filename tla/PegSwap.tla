------------------------------ MODULE PegSwap ------------------------------
(***************************************************************************)
(* Pegs and instant swaps of the client worker                             *)
(* (sideswap_client/src/worker.rs), composed with the server, the wallet,  *)
(* the settings file and the user interface, through lost connections,     *)
(* requests that time out and crashes.                                     *)
(*                                                                         *)
(* A request to the server blocks the worker.  It is one step whose        *)
(* outcomes are an answer, a refusal, and a time-out with or without       *)
(* effect at the server.  Notifications come in order on the connection.   *)
(***************************************************************************)
EXTENDS Integers, Sequences

CONSTANTS
    Setups,      \* [ops, budget, faults]: what the user does, how many times at most,
                 \*   and how many time-outs, losses, refusals and crashes there are
    Amounts,     \* amounts the user enters for a peg-out
    Balance,     \* what the wallet holds at first
    NetFee,      \* the network fee of a payment
    MinPegOut    \* ServerStatus::min_peg_out_amount

VARIABLES
    w,       \* the worker's fields
    file,    \* Settings::pegs as saved
    ui,      \* what the user waits for, and the swaps of the user
    wal,     \* the wallet: its balance, the pegs it has paid, those before the last logout
    srv,     \* the server: swaps, pegs, pegs watched by the connection, notifications
    n        \* the bounds: setup, operations, faults

vars == <<w, file, ui, wal, srv, n>>

None == 0
Fresh ==
    [connected |-> FALSE, pegs |-> {}, active_swap |-> None, succeed_swap |-> None,
     active_extern_peg |-> None, peg_out_server_amounts |-> None, paying |-> None]

Init ==
    /\ w = Fresh
    /\ file = {}
    /\ ui = [waits |-> "none", order |-> None, quote |-> None, known |-> {}]
    /\ wal = [balance |-> Balance, paid |-> {}, left |-> {}]
    /\ srv = [up |-> FALSE, swaps |-> <<>>, pegs |-> <<>>, watched |-> {}, stream |-> <<>>]
    /\ \E s \in Setups : n = [setup |-> s, ops |-> 0, faults |-> 0]

Does(op) == op \in n.setup.ops /\ n.ops < n.setup.budget
Counts == n' = [n EXCEPT !.ops = @ + 1]
CanFail == n.faults < n.setup.faults
CountsFault == n' = [n EXCEPT !.faults = @ + 1]
CountsBoth == n' = [n EXCEPT !.ops = @ + 1, !.faults = @ + 1]

Idle == w.paying = None
Fails == ui' = [ui EXCEPT !.waits = "none", !.order = None]
-----------------------------------------------------------------------------
(* start_peg_monitoring: the server is asked for the status of a peg and   *)
(* then reports its changes on this connection.                            *)
start_peg_monitoring(s, pegs) == IF s.up THEN [s EXCEPT !.watched = @ \cup pegs] ELSE s

(* Bug: nothing is asked for. *)
Bug_resume_peg_monitoring(s) == s

resume_peg_monitoring(s) == start_peg_monitoring(s, w.pegs)

(* process_ws_connected and process_ws_disconnected, as far as pegs go.    *)
process_ws_connected ==
    /\ Idle /\ ~w.connected /\ ~srv.up /\ srv.stream = <<>>
    /\ w' = [w EXCEPT !.connected = TRUE]
    /\ srv' = resume_peg_monitoring([srv EXCEPT !.up = TRUE])
    /\ UNCHANGED <<file, ui, wal, n>>

process_ws_disconnected ==
    /\ Idle /\ w.connected /\ ~srv.up /\ srv.stream = <<>>
    /\ w' = [w EXCEPT !.connected = FALSE]
    /\ UNCHANGED <<file, ui, wal, srv, n>>

(* The connection breaks, or is closed after a logout: what was not        *)
(* delivered is lost, and the server gives up the swaps that were not      *)
(* signed.                                                                 *)
Broken ==
    [srv EXCEPT !.up = FALSE, !.watched = {}, !.stream = <<>>,
                !.swaps = [o \in DOMAIN @ |-> IF @[o] \in {"started", "blinded"} THEN "failed" ELSE @[o]]]

Lost ==
    /\ srv.up /\ srv' = Broken
    /\ \/ CanFail /\ CountsFault
       \/ ~w.connected /\ UNCHANGED n
    /\ UNCHANGED <<w, file, ui, wal>>

(* A user who logs out gives up what is not signed yet.                    *)
UserLeaves ==
    /\ ui' = [waits |-> "none", order |-> None, quote |-> None,
              known |-> {o \in ui.known : srv.swaps[o] \in {"signed", "done"}}]
    /\ wal' = [wal EXCEPT !.left = DOMAIN srv.pegs]

(* Bug: the active swap is kept. *)
Bug_process_logout_request ==
    /\ Idle /\ Does("logout") /\ Counts
    /\ w' = [Fresh EXCEPT !.active_swap = w.active_swap]
    /\ file' = {}
    /\ UserLeaves /\ UNCHANGED srv

(* A logout forgets the pegs, also in the file, and has the connection     *)
(* closed; what was on its way is still read.                              *)
process_logout_request ==
    /\ Idle /\ Does("logout") /\ Counts
    /\ w' = Fresh
    /\ file' = {}
    /\ UserLeaves /\ UNCHANGED srv

(* The program ends at any point and starts again with the saved settings. *)
Crash ==
    /\ CanFail /\ CountsFault
    /\ w' = [Fresh EXCEPT !.pegs = file]
    /\ ui' = [waits |-> "none", order |-> None, quote |-> None, known |-> ui.known]
    /\ srv' = Broken
    /\ UNCHANGED <<file, wal>>
-----------------------------------------------------------------------------
(* The fee of the payment of the whole balance.                            *)
get_tx_fee == NetFee

(* What is sent in return for the server's fees, or None below the minimum. *)
peg_out_amount(amount) == IF amount >= MinPegOut THEN amount ELSE None

(* The whole balance is quoted less the network fee.  That the balance     *)
(* covers the amount is only seen when it is paid.                         *)
process_pegout_amount ==
    /\ Idle /\ ui.waits = "none" /\ Does("peg_out") /\ Counts
    /\ \E amount \in Amounts :
          LET quoted == peg_out_amount(IF amount = wal.balance THEN amount - get_tx_fee ELSE amount)
          IN  IF w.connected /\ quoted /= None
              THEN /\ w' = [w EXCEPT !.peg_out_server_amounts = quoted]
                   /\ ui' = [ui EXCEPT !.quote = amount]
              ELSE UNCHANGED <<w, ui>>
    /\ UNCHANGED <<file, wal, srv>>

NewPeg(s, amount) == [s EXCEPT !.pegs = Append(@, [amount |-> amount, seen |-> FALSE])]

(* Bug: the peg is paid first and saved when it is active. *)
Bug_add_peg_monitoring(peg) == [pegs |-> w.pegs \cup {peg}, file |-> file]

add_peg_monitoring(peg) == [pegs |-> w.pegs \cup {peg}, file |-> w.pegs \cup {peg}]

(* A peg-out up to its payment: the quote is used up, the server makes an  *)
(* order, which is saved and watched.                                      *)
process_pegout_request ==
    /\ Idle /\ ui.waits = "none" /\ ui.quote /= None /\ Does("peg_out")
    /\ LET amount == w.peg_out_server_amounts
           peg == Len(srv.pegs) + 1
           taken == [w EXCEPT !.peg_out_server_amounts = None]
           failed == [ui EXCEPT !.quote = None]
       IN  IF ~w.connected THEN Counts /\ ui' = failed /\ UNCHANGED <<w, file, srv>>
           ELSE IF amount = None \/ ui.quote < MinPegOut
           THEN Counts /\ ui' = failed /\ UNCHANGED <<w, file, srv>>
           ELSE \/ /\ srv.up /\ Counts
                   /\ LET added == add_peg_monitoring(peg)
                      IN  /\ w' = [taken EXCEPT !.pegs = added.pegs, !.paying = peg]
                          /\ file' = added.file
                   /\ srv' = start_peg_monitoring(NewPeg(srv, amount), {peg})
                   /\ UNCHANGED ui
                \/ /\ CanFail /\ CountsBoth
                   /\ w' = taken /\ ui' = failed /\ UNCHANGED file
                   /\ \/ srv' = srv
                      \/ srv.up /\ srv' = NewPeg(srv, amount)
    /\ UNCHANGED wal

(* Bug: the amount is not compared with the quote. *)
Bug_make_pegout_payment(send_amount, exact) ==
    send_amount = wal.balance \/ send_amount + NetFee <= wal.balance

(* make_pegout_payment: the balance covers the payment and its fee, and    *)
(* what would arrive is what was quoted.                                   *)
make_pegout_payment(send_amount, exact) ==
    /\ send_amount = wal.balance \/ send_amount + NetFee <= wal.balance
    /\ exact = IF send_amount = wal.balance THEN send_amount - NetFee ELSE send_amount

(* The payment of the peg-out, and the end of its request.  The call may   *)
(* fail, also after the payment was sent.                                  *)
PegOutPays ==
    /\ w.paying /= None
    /\ LET peg == w.paying
           sent == IF ui.quote = wal.balance THEN ui.quote - NetFee ELSE ui.quote
           paid == [wal EXCEPT !.balance = @ - sent - NetFee,
                               !.paid = @ \cup {[peg |-> peg, amount |-> sent]}]
           allowed == make_pegout_payment(ui.quote, srv.pegs[peg].amount)
       IN  \/ /\ allowed
              /\ wal' = paid
              /\ w' = [w EXCEPT !.paying = None, !.active_extern_peg = peg]
              /\ ui' = [ui EXCEPT !.quote = None, !.waits = "peg", !.order = peg]
              /\ UNCHANGED n
           \/ /\ w' = [w EXCEPT !.paying = None] /\ ui' = [ui EXCEPT !.quote = None]
              /\ \/ ~allowed /\ UNCHANGED <<wal, n>>
                 \/ allowed /\ CanFail /\ CountsFault /\ wal' \in {wal, paid}
    /\ UNCHANGED <<file, srv>>

(* A peg-in: the user pays to the address that is shown.                   *)
process_pegin_request ==
    /\ Idle /\ ui.waits = "none" /\ Does("peg_in")
    /\ LET peg == Len(srv.pegs) + 1
           added == add_peg_monitoring(peg)
       IN  IF ~w.connected THEN Counts /\ UNCHANGED <<w, file, ui, srv>>
           ELSE \/ /\ srv.up /\ Counts
                   /\ w' = [w EXCEPT !.pegs = added.pegs, !.active_extern_peg = peg] /\ file' = added.file
                   /\ srv' = start_peg_monitoring(NewPeg(srv, 0), {peg})
                   /\ ui' = [ui EXCEPT !.waits = "peg", !.order = peg]
                \/ /\ CanFail /\ CountsBoth
                   /\ \/ srv' = srv
                      \/ srv.up /\ srv' = NewPeg(srv, 0)
                   /\ UNCHANGED <<w, file, ui>>
    /\ UNCHANGED wal

(* Coins arrive or go, by another device.                                  *)
BalanceChanges ==
    /\ Does("coins") /\ Counts
    /\ wal' = [wal EXCEPT !.balance = @ + 1]
    /\ UNCHANGED <<w, file, ui, srv>>
-----------------------------------------------------------------------------
(* An instant swap is asked for: its terms are kept with the order.        *)
NewSwap(s) == [s EXCEPT !.swaps = Append(@, "started")]

process_swap_request ==
    /\ Idle /\ ui.waits = "none" /\ Does("swap")
    /\ LET o == Len(srv.swaps) + 1
       IN  IF ~w.connected THEN Counts /\ UNCHANGED <<w, ui, srv>>
           ELSE \/ /\ srv.up /\ Counts
                   /\ srv' = NewSwap(srv)
                   /\ w' = [w EXCEPT !.active_swap = o]
                   /\ ui' = [ui EXCEPT !.waits = "swap", !.order = o, !.known = @ \cup {o}]
                \/ /\ CanFail /\ CountsBoth
                   /\ \/ srv' = srv
                      \/ srv.up /\ srv' = NewSwap(srv)
                   /\ UNCHANGED <<w, ui>>
    /\ UNCHANGED <<file, wal>>

Notif(t) == Idle /\ srv.stream /= <<>> /\ Head(srv.stream).t = t
Read == [srv EXCEPT !.stream = Tail(@)]

(* Bug: any transaction is signed while a swap is active. *)
Bug_accepts(o) == w.active_swap /= None

(* Only the transaction of the active swap is signed, with its terms.      *)
Accepts(o) == w.active_swap = o

process_blinded_swap_client ==
    /\ Notif("blinded")
    /\ LET o == Head(srv.stream).order
           signed == IF Read.up /\ Read.swaps[o] = "blinded" THEN [Read EXCEPT !.swaps[o] = "signed"] ELSE Read
       IN  IF ~Accepts(o) THEN Fails /\ srv' = Read /\ UNCHANGED n
           ELSE \/ srv' = signed /\ UNCHANGED <<ui, n>>
                \/ Fails /\ CanFail /\ CountsFault /\ srv' \in {Read, signed}
    /\ UNCHANGED <<w, file, wal>>

(* Bug: a swap that failed stays active. *)
Bug_process_swap_done ==
    /\ Notif("done")
    /\ LET m == Head(srv.stream)
       IN  IF w.active_swap /= m.order \/ ~m.txid THEN UNCHANGED <<w, ui>>
           ELSE /\ w' = [w EXCEPT !.active_swap = None, !.succeed_swap = m.order]
                /\ ui' = [ui EXCEPT !.waits = "none", !.order = None]
    /\ srv' = Read
    /\ UNCHANGED <<file, wal, n>>

(* The end of the active swap; a success is reported to the user when its  *)
(* transaction is in the list.                                             *)
process_swap_done ==
    /\ Notif("done")
    /\ LET m == Head(srv.stream)
       IN  IF w.active_swap /= m.order THEN UNCHANGED <<w, ui>>
           ELSE /\ w' = [w EXCEPT !.active_swap = None, !.succeed_swap = IF m.txid THEN m.order ELSE @]
                /\ IF m.txid THEN ui' = [ui EXCEPT !.waits = "none", !.order = None] ELSE Fails
    /\ srv' = Read
    /\ UNCHANGED <<file, wal, n>>

process_peg_status ==
    /\ Notif("peg")
    /\ IF w.active_extern_peg = Head(srv.stream).order
       THEN w' = [w EXCEPT !.active_extern_peg = None] /\ ui' = [ui EXCEPT !.waits = "none", !.order = None]
       ELSE UNCHANGED <<w, ui>>
    /\ srv' = Read
    /\ UNCHANGED <<file, wal, n>>
-----------------------------------------------------------------------------
(* The server (external).                                                  *)
Tells(s, m) == [s EXCEPT !.stream = IF s.up THEN Append(@, m) ELSE @]

SendsBlinded ==
    /\ \E o \in DOMAIN srv.swaps :
          /\ srv.swaps[o] = "started" /\ srv.up
          /\ srv' = Tells([srv EXCEPT !.swaps[o] = "blinded"], [t |-> "blinded", order |-> o])
    /\ UNCHANGED <<w, file, ui, wal, n>>

EndsSwap ==
    /\ \E o \in DOMAIN srv.swaps, ok \in BOOLEAN :
          /\ srv.swaps[o] = IF ok THEN "signed" ELSE "blinded"
          /\ srv' = Tells([srv EXCEPT !.swaps[o] = IF ok THEN "done" ELSE "failed"],
                          [t |-> "done", order |-> o, txid |-> ok])
    /\ UNCHANGED <<w, file, ui, wal, n>>

SeesPeg ==
    /\ \E p \in DOMAIN srv.pegs :
          /\ ~srv.pegs[p].seen /\ p \in srv.watched
          /\ srv.pegs[p].amount = 0 \/ \E x \in wal.paid : x.peg = p
          /\ srv' = Tells([srv EXCEPT !.pegs[p].seen = TRUE], [t |-> "peg", order |-> p])
    /\ UNCHANGED <<w, file, ui, wal, n>>
-----------------------------------------------------------------------------
Handlers ==
    \/ process_ws_connected \/ process_ws_disconnected \/ process_blinded_swap_client
    \/ process_swap_done \/ process_peg_status \/ PegOutPays
User ==
    \/ process_pegout_amount \/ process_pegout_request \/ process_pegin_request
    \/ process_swap_request \/ process_logout_request
Server == SendsBlinded \/ EndsSwap \/ SeesPeg
Next == Handlers \/ User \/ Server \/ BalanceChanges \/ Lost \/ Crash

Spec == Init /\ [][Next]_vars
LiveSpec == Spec /\ WF_vars(Handlers) /\ WF_vars(Server)
-----------------------------------------------------------------------------
(* The shape of the state.                                                 *)
TypeOK ==
    /\ w.pegs \subseteq DOMAIN srv.pegs /\ file = w.pegs
    /\ w.active_swap \in {None} \cup DOMAIN srv.swaps
    /\ ui.waits \in {"none", "swap", "peg"}

(* A peg that was paid is in the saved settings, whenever the program      *)
(* ends, and can be followed after a restart; until the user logs out,     *)
(* which gives up the pegs of the wallet.                                  *)
PaidPegsSaved == \A x \in wal.paid : x.peg \in file \cup wal.left

(* A peg is paid once and with the amount that the server was told, also   *)
(* when the balance changes between the quote and the payment.             *)
PegPaysQuote ==
    /\ \A x \in wal.paid : srv.pegs[x.peg].amount = x.amount
    /\ \A x, y \in wal.paid : x.peg = y.peg => x = y

(* While there is a connection, every saved peg is watched on it.          *)
PegsWatched == Idle /\ w.connected /\ srv.up => file \subseteq srv.watched

(* A swap that was given up, by a time-out after which the server still    *)
(* went on with it or by a logout, is never signed, whatever swap is       *)
(* active then.                                                            *)
GivenUpNotSigned ==
    \A o \in DOMAIN srv.swaps : srv.swaps[o] \in {"signed", "done"} => o \in ui.known

(* The user is told how a swap or a peg ended, unless a connection was     *)
(* lost in between.                                                        *)
WaitEnded == ui.waits = "none" \/ n.faults > 0
WaitsEnd == []<>WaitEnded
=============================================================================
