-------------------------------- MODULE Coins --------------------------------
(***************************************************************************)
(* The coins of an order of the client (sideswap_client/src/worker.rs:     *)
(* try_process_submit_order and the decision on the order): an amount is entered, the      *)
(* whole balance stands for what it can pay for with the fee, coins are    *)
(* looked for among those no other order has, and select_utxo              *)
(* (sideswap_common/src/types.rs) chooses.  The dealers choose their coins *)
(* with select_utxo as well.                                               *)
(***************************************************************************)
EXTENDS Amounts, Sequences, FiniteSetsExt

CONSTANT Wallets   \* [bitcoin, coins, reserved, entered]: what is sent, the values of the
                   \*   coins, the coins of other orders, the amounts there may be in the order

VARIABLE o         \* the order: the wallet, the amount to send, how far it is

Sum(coins) == MapThenSumSet(LAMBDA c : o.wallet.coins[c], coins)
All == DOMAIN o.wallet.coins
Free == All \ o.wallet.reserved

Init ==
    \E w \in Wallets :
       o = [at |-> "submit", wallet |-> w, amount |-> 0, whole |-> FALSE, only_unused |-> FALSE,
            base |-> {}, left |-> {}, remain |-> 0, chosen |-> {}]

(* try_process_submit_order: an amount that is the whole balance stands    *)
(* for the largest the balance pays for with the fee.  The server sends    *)
(* the order back, with its fee, and the user decides on it.               *)
try_process_submit_order ==
    /\ o.at = "submit"
    /\ \E v \in o.wallet.entered, only_unused \in BOOLEAN :
          IF o.wallet.bitcoin /\ v = Sum(All)
          THEN /\ EnoughBalance(v)
               /\ LET a == get_max_bitcoin_amount(v)
                  IN  o' = [o EXCEPT !.at = "decide", !.whole = TRUE, !.only_unused = only_unused,
                            !.amount = a + get_server_fee(a)]
          ELSE o' = [o EXCEPT !.at = "decide", !.only_unused = only_unused, !.amount = v]

(* Bug: the total is not looked at. *)
Bug_asset_utxos == {IF Sum(Free) >= o.amount THEN Free ELSE All}

(* The coins to choose from: those of no other order, if they are enough   *)
(* or no others are allowed.  Empty when the order is refused.             *)
asset_utxos ==
    IF Sum(Free) >= o.amount THEN {Free}
    ELSE IF o.only_unused \/ Sum(All) < o.amount THEN {}
    ELSE {All}

try_process_submit_decision ==
    /\ o.at = "decide"
    /\ \/ \E b \in asset_utxos : o' = [o EXCEPT !.at = "select", !.base = b, !.left = b, !.remain = o.amount]
       \/ asset_utxos = {} /\ o' = [o EXCEPT !.at = "refused"]

(* select_utxo, the first loop: the coin closest to what remains, any of   *)
(* several (their order is that of earlier sorts).                         *)
Distance(c) == LET d == o.wallet.coins[c] - o.remain IN IF d < 0 THEN -d ELSE d

SelectNext ==
    /\ o.at = "select" /\ o.remain > 0
    /\ \E c \in o.left :
          /\ \A e \in o.left : Distance(c) <= Distance(e)
          /\ o' = [o EXCEPT !.left = @ \ {c}, !.chosen = @ \cup {c}, !.remain = @ - o.wallet.coins[c]]

(* Bug: the coins are kept as they were chosen. *)
Bug_Spare(c) == FALSE

(* The second loop: the smallest is dropped while the rest is more than    *)
(* enough.                                                                 *)
Spare(c) ==
    /\ \A e \in o.chosen : o.wallet.coins[c] <= o.wallet.coins[e]
    /\ Sum(o.chosen \ {c}) > o.amount

Trim ==
    /\ o.at = "select" /\ o.remain <= 0
    /\ \/ \E c \in o.chosen : Spare(c) /\ o' = [o EXCEPT !.chosen = @ \ {c}]
       \/ (\A c \in o.chosen : ~Spare(c)) /\ o' = [o EXCEPT !.at = "funded"]

Next == try_process_submit_order \/ try_process_submit_decision \/ SelectNext \/ Trim
-----------------------------------------------------------------------------
(* select_utxo returns coins for the amount, and none of them could be     *)
(* left out, although the coins are taken greedily and the second loop     *)
(* drops one only when the rest is more than enough, not when it is just   *)
(* enough.                                                                 *)
EnoughNoMore ==
    o.at = "funded" => /\ Sum(o.chosen) >= o.amount
                       /\ \A c \in o.chosen : Sum(o.chosen \ {c}) < o.amount

(* "not enough available inputs": the first loop never runs out of coins.  *)
NeverShort == o.at = "select" => o.remain <= Sum(o.left)

(* An order for the whole balance leaves at most a satoshi of it, and is   *)
(* refused only for the sake of the coins of other orders.                 *)
WholeBalanceFunded ==
    o.whole => /\ Sum(All) - o.amount \in {0, 1}
               /\ o.at = "refused" => o.only_unused /\ o.wallet.reserved /= {}
=============================================================================
