------------------------------- MODULE AmpConn -------------------------------
(***************************************************************************)
(* The session of the AMP account, and the requests that wait for it in    *)
(* the client's worker (worker.rs).  The wallet library keeps a link to    *)
(* its own server, up or down as it was last told (connect, disconnect);   *)
(* it reports changes of the link, and the worker logs in when it reads of *)
(* one.  Orders to sign, to submit and to open are queued until the        *)
(* SideSwap server is connected and, if they may need it, the AMP session. *)
(*                                                                         *)
(* Orders are regular or AMP orders; `known' are those in submit_data,     *)
(* which are lost in a restart.  `wallet' says that there is an AMP        *)
(* session.                                                                *)
(***************************************************************************)
EXTENDS Naturals, Sequences

CONSTANTS MaxInputs,   \* bound: pushes, notifications, submits, logouts, ...
          MaxFaults    \* bound: lost links and connections, failed calls

VARIABLES a,     \* the worker
          gdk,   \* the session: the link, what it was told, logged in, reports
          k      \* inputs and faults left; was the login refused; is amp_connected an earlier session's

vars == <<a, gdk, k>>
Kind == [amp : BOOLEAN, known : BOOLEAN]
NewSession == [up |-> FALSE, wanted |-> TRUE, logged |-> FALSE, notes |-> <<>>]

Init ==
    /\ a = [app_active |-> TRUE, amp_active |-> TRUE, amp_connected |-> FALSE, login |-> TRUE, wallet |-> TRUE,
            connected |-> FALSE, pending_signs |-> {}, pending_sign_requests |-> {}, pending |-> FALSE]
    /\ gdk = NewSession
    /\ k = [inputs |-> MaxInputs, faults |-> MaxFaults, refused |-> FALSE, stale |-> FALSE]

(* As it is in the code, true whenever no push message waits (`all').      *)
pending_amp_sign_requests(st) ==
    \/ \E r \in st.pending_sign_requests : r.amp
    \/ \A s \in st.pending_signs : s.known /\ s.amp

Update(st, g, amp_active) ==
    /\ a' = [st EXCEPT !.amp_active = amp_active]
    /\ gdk' = IF st.wallet /\ amp_active /= st.amp_active THEN [g EXCEPT !.wanted = amp_active] ELSE g

(* Bug: the session is only kept for the application. *)
Bug_update_amp_connection(st, g) == Update(st, g, st.app_active)

(* The session is kept while the application is on the screen, or for      *)
(* requests that need it.                                                  *)
update_amp_connection(st, g) == Update(st, g, st.app_active \/ pending_amp_sign_requests(st))

(* process_pending_requests: all that is queued is carried out.  What is   *)
(* downloaded for a push message joins pending_sign_requests and leaves it *)
(* in the last loop, whether or not its own call of this function waits.   *)
process_pending_requests(st, g) ==
    IF ~st.connected THEN a' = st /\ gdk' = g
    ELSE IF ~st.amp_connected /\ pending_amp_sign_requests(st) /\ st.wallet THEN update_amp_connection(st, g)
    ELSE update_amp_connection([st EXCEPT !.pending_signs = {}, !.pending_sign_requests = {}, !.pending = FALSE], g)

(* check_amp_connection: when a call of the session fails, it is closed    *)
(* and opened again.  The outcomes there can be.                           *)
check_amp_connection ==
    LET same == [st |-> a, g |-> gdk]
        closed == [st |-> [a EXCEPT !.amp_connected = FALSE],
                   g |-> [gdk EXCEPT !.up = FALSE, !.logged = FALSE, !.wanted = TRUE,
                                     !.notes = IF gdk.up THEN Append(@, "Disconnected") ELSE @]]
    IN  IF ~(a.amp_connected /\ a.wallet) THEN {same}
        ELSE IF gdk.logged THEN {same, closed}
        ELSE {closed}

Input == k.inputs > 0 /\ k' = [k EXCEPT !.inputs = @ - 1]
-----------------------------------------------------------------------------
process_app_state(active) ==
    /\ Input
    /\ IF active
       THEN \E c \in check_amp_connection : update_amp_connection([c.st EXCEPT !.app_active = TRUE], c.g)
       ELSE update_amp_connection([a EXCEPT !.app_active = FALSE], gdk)

process_push_message(s) ==
    /\ Input
    /\ \E c \in check_amp_connection :
          process_pending_requests([c.st EXCEPT !.pending_signs = @ \cup {s}], c.g)

(* A sign request of the server's own accord to a maker; a taker's is      *)
(* carried out at once.                                                    *)
process_sign(r) ==
    Input /\ a.connected /\ process_pending_requests([a EXCEPT !.pending_sign_requests = @ \cup {r}], gdk)

process_submit_order == Input /\ process_pending_requests([a EXCEPT !.pending = TRUE], gdk)

(* Once a minute.  A session that works is not found to fail here: that    *)
(* would be a fault without end.                                           *)
process_idle_timer ==
    /\ ~gdk.logged /\ UNCHANGED k
    /\ \E c \in check_amp_connection : a' = c.st /\ gdk' = c.g

(* The reports of the session; they name an account, not a session.        *)
DropNote == [gdk EXCEPT !.notes = Tail(@)]

LoginSucceeds ==
    /\ gdk.up /\ k' = [k EXCEPT !.stale = FALSE]
    /\ process_pending_requests([a EXCEPT !.amp_connected = TRUE], [DropNote EXCEPT !.logged = TRUE])

(* Bug: the session is taken to be there. *)
Bug_LoginFails ==
    /\ ~gdk.up /\ UNCHANGED k
    /\ process_pending_requests([a EXCEPT !.amp_connected = TRUE], DropNote)

(* A message is shown, and nothing tries again until the next report.      *)
LoginFails ==
    /\ \/ ~gdk.up /\ UNCHANGED k
       \/ gdk.up /\ k.faults > 0 /\ k' = [k EXCEPT !.faults = @ - 1, !.refused = TRUE]
    /\ gdk' = DropNote /\ UNCHANGED a

process_wallet_notif ==
    /\ gdk.notes /= <<>>
    /\ \/ ~a.wallet /\ gdk' = DropNote /\ UNCHANGED <<a, k>>
       \/ a.wallet /\ Head(gdk.notes) = "Connected" /\ (LoginSucceeds \/ LoginFails)
       \/ /\ a.wallet /\ Head(gdk.notes) = "Disconnected"
          /\ a' = [a EXCEPT !.amp_connected = FALSE] /\ gdk' = DropNote /\ UNCHANGED k

(* The connection to the SideSwap server.                                  *)
process_ws_connected ==
    /\ ~a.connected /\ a.login
    /\ process_pending_requests([a EXCEPT !.connected = TRUE], gdk) /\ UNCHANGED k

process_ws_disconnected ==
    /\ a.connected /\ k.faults > 0
    /\ a' = [a EXCEPT !.connected = FALSE] /\ k' = [k EXCEPT !.faults = @ - 1] /\ UNCHANGED gdk

(* amp_connected, amp_active and the queues stay as they are.              *)
process_logout_request ==
    /\ k.inputs > 0 /\ a.login
    /\ k' = [k EXCEPT !.inputs = @ - 1, !.stale = a.amp_connected]
    /\ a' = [a EXCEPT !.login = FALSE, !.wallet = FALSE, !.connected = FALSE] /\ UNCHANGED gdk

(* The user is logged in even if there is no AMP session.                  *)
process_login_request ==
    /\ ~a.login
    /\ gdk' = [NewSession EXCEPT !.notes = gdk.notes]
    /\ \/ a' = [a EXCEPT !.login = TRUE, !.wallet = TRUE] /\ UNCHANGED k
       \/ a' = [a EXCEPT !.login = TRUE] /\ k.faults > 0 /\ k' = [k EXCEPT !.faults = @ - 1]

(* The library.                                                            *)
LinkUp ==
    /\ a.wallet /\ gdk.wanted /\ ~gdk.up
    /\ gdk' = [gdk EXCEPT !.up = TRUE, !.notes = Append(@, "Connected")]
    /\ k' = [k EXCEPT !.refused = FALSE] /\ UNCHANGED a

LinkDown ==
    /\ a.wallet /\ gdk.up
    /\ \/ ~gdk.wanted /\ UNCHANGED k
       \/ gdk.wanted /\ k.faults > 0 /\ k' = [k EXCEPT !.faults = @ - 1]
    /\ gdk' = [gdk EXCEPT !.up = FALSE, !.logged = FALSE, !.notes = Append(@, "Disconnected")]
    /\ UNCHANGED a

Worker == process_wallet_notif \/ process_ws_connected \/ process_idle_timer
Library == LinkUp \/ (~gdk.wanted /\ LinkDown)
Next ==
    \/ \E active \in BOOLEAN : process_app_state(active)
    \/ \E s \in Kind : process_push_message(s) \/ process_sign(s)
    \/ process_submit_order \/ process_logout_request \/ process_login_request
    \/ process_ws_disconnected \/ LinkDown
    \/ Worker \/ Library
-----------------------------------------------------------------------------
Idle == a.pending_signs = {} /\ a.pending_sign_requests = {} /\ ~a.pending

(* What is queued is carried out, if the session is not refused while its  *)
(* link is up.                                                             *)
Served == Idle \/ ~a.login \/ k.refused

(* amp_connected is backed by a session that is logged in, or by a report  *)
(* of its loss that is still to be read; a logout leaves it as it was.     *)
FlagIsHonest ==
    a.wallet /\ a.amp_connected /\ ~k.stale =>
       gdk.logged \/ \E i \in DOMAIN gdk.notes : gdk.notes[i] = "Disconnected"
=============================================================================
