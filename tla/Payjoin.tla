------------------------------- MODULE Payjoin -------------------------------
(***************************************************************************)
(* A payjoin (sideswap_payjoin/src/lib.rs): the client pays in an asset,   *)
(* and the server adds coins for the network fee, which it is paid for in  *)
(* the asset.  create_payjoin asks the server for coins and a price, makes *)
(* the transaction and has the server sign its inputs; later, when the     *)
(* user agrees, final_tx joins the client's signatures with the server's   *)
(* (sideswap_client/src/gdk_ses_impl.rs: try_create_payjoin and            *)
(* try_send_payjoin).                                                      *)
(***************************************************************************)
EXTENDS Amounts, Sequences, SequencesExt

CONSTANTS
    ClientCoins,   \* the coins of the asset, lists of values
    ServerCoins,   \* the coins the server may offer, lists of values
    Prices,        \* prices of a satoshi of the network fee, in 1/64
    FixedFees

VARIABLE j         \* the payjoin: the request, the offer, the inputs, the outputs

Total(coins) == FoldSeq(LAMBDA x, y : x + y, 0, coins)
MaxOutputs == 4    \* payment, change, fee, server's change

(* try_create_payjoin: all the coins of the asset; the whole balance is    *)
(* sent less the fee.                                                      *)
Init ==
    \E coins \in ClientCoins : \E amount \in 1..Total(coins) :
       j = [at |-> "start", coins |-> coins, amount |-> amount,
            subtract_fee_from_amount |-> amount = Total(coins), fee |-> 0, in |-> <<>>, out |-> <<>>]

(* The coins up to the first with which there are enough, or all.          *)
Prefix(coins, amount) ==
    LET enough == {k \in DOMAIN coins : Total(SubSeq(coins, 1, k)) >= amount}
    IN  IF enough = {} THEN coins
        ELSE SubSeq(coins, 1, CHOOSE k \in enough : \A i \in enough : k <= i)

(* Bug: the change of the server is not counted. *)
Bug_max_network_fee(server_coins) == expected_network_fee(Len(j.coins) + Len(server_coins), MaxOutputs - 1)

max_network_fee(server_coins) == expected_network_fee(Len(j.coins) + Len(server_coins), MaxOutputs)

(* Bug: the fee is not taken off the change. *)
Bug_construct_pset(asset_in, lbtc_in, send_amount, fixed_fee, price) ==
    LET network_fee == expected_network_fee(Len(asset_in) + Len(lbtc_in), MaxOutputs)
        fee == asset_fee(fixed_fee, price, network_fee)
    IN  [payment |-> send_amount, fee |-> fee, change |-> Total(asset_in) - send_amount,
         server_change |-> Total(lbtc_in) - network_fee, network_fee |-> network_fee]

(* The outputs of the transaction; its fees are those of the inputs it     *)
(* has, not of all that were offered.                                      *)
construct_pset(asset_in, lbtc_in, send_amount, fixed_fee, price) ==
    LET network_fee == expected_network_fee(Len(asset_in) + Len(lbtc_in), MaxOutputs)
        fee == asset_fee(fixed_fee, price, network_fee)
    IN  [payment |-> send_amount, fee |-> fee, change |-> Total(asset_in) - send_amount - fee,
         server_change |-> Total(lbtc_in) - network_fee, network_fee |-> network_fee]

Failed == j' = [j EXCEPT !.at = "failed"]

(* The server's offer, and the transaction made of it, unless the coins    *)
(* of one of the two do not suffice.  An output of nothing is an error.    *)
create_payjoin ==
    /\ j.at = "start"
    /\ \/ Failed
       \/ \E server_coins \in ServerCoins, price \in Prices, fixed_fee \in FixedFees :
             LET max_fee == max_network_fee(server_coins)
                 max_asset_fee == asset_fee(fixed_fee, price, max_fee)
                 send_amount == IF j.subtract_fee_from_amount THEN j.amount - max_asset_fee ELSE j.amount
                 asset_in == Prefix(j.coins, send_amount + max_asset_fee)
                 lbtc_in == Prefix(server_coins, max_fee)
                 out == construct_pset(asset_in, lbtc_in, send_amount, fixed_fee, price)
                 ok == /\ send_amount > 0
                       /\ Total(asset_in) >= send_amount + max_asset_fee
                       /\ Total(lbtc_in) >= max_fee
                       /\ out.fee > 0
             IN  IF ok
                 THEN j' = [j EXCEPT !.at = "sign", !.fee = max_asset_fee, !.out = out,
                            !.in = [i \in 1..(Len(asset_in) + Len(lbtc_in)) |->
                                      IF i <= Len(asset_in)
                                      THEN [own |-> TRUE, value |-> asset_in[i], signed |-> FALSE]
                                      ELSE [own |-> FALSE, value |-> lbtc_in[i - Len(asset_in)], signed |-> FALSE]]]
                 ELSE Failed

(* copy_signatures: the inputs that are signed in src are taken from it.   *)
copy_signatures(dst, src) == [i \in DOMAIN dst |-> IF src[i].signed THEN src[i] ELSE dst[i]]

Sign(own) == [i \in DOMAIN j.in |-> IF j.in[i].own = own THEN [j.in[i] EXCEPT !.signed = TRUE] ELSE j.in[i]]

(* The second request: the server signs its inputs.                        *)
ServerSigns ==
    /\ j.at = "sign"
    /\ \/ Failed
       \/ j' = [j EXCEPT !.at = "created", !.in = copy_signatures(j.in, Sign(FALSE))]

(* Bug: what the wallet signed is sent. *)
Bug_final_tx(pset_client, pset_server) == pset_client

final_tx(pset_client, pset_server) == copy_signatures(pset_client, pset_server)

(* The wallet signs its own inputs (it may drop signatures it does not     *)
(* know of), and the transaction with all signatures is broadcast.         *)
try_send_payjoin ==
    /\ j.at = "created"
    /\ \/ Failed
       \/ \E keeps \in BOOLEAN :
             LET pset_client == [i \in DOMAIN j.in |-> [j.in[i] EXCEPT !.signed = j.in[i].own \/ (keeps /\ @)]]
             IN  j' = [j EXCEPT !.at = "sent", !.in = final_tx(pset_client, j.in)]

Next == create_payjoin \/ ServerSigns \/ try_send_payjoin
-----------------------------------------------------------------------------
Value(own) == MapThenSumSet(LAMBDA i : IF j.in[i].own = own THEN j.in[i].value ELSE 0, DOMAIN j.in)

(* What goes in comes out, in the asset and in bitcoin, and no difference  *)
(* is negative (the amounts are unsigned).                                 *)
Balanced ==
    j.at \in {"sign", "created", "sent"} =>
       /\ Value(TRUE) = j.out.payment + j.out.fee + j.out.change
       /\ Value(FALSE) = j.out.server_change + j.out.network_fee
       /\ j.out.change >= 0 /\ j.out.server_change >= 0

(* The user pays no more than the amount entered and the fee shown; for    *)
(* the whole balance, the fee is taken off the payment.                    *)
FeeAsShown ==
    j.at \in {"sign", "created", "sent"} =>
       /\ j.out.fee <= j.fee
       /\ j.out.payment + (IF j.subtract_fee_from_amount THEN j.fee ELSE 0) = j.amount

(* A transaction that is broadcast has every input signed, those of the    *)
(* server as well, whatever the wallet keeps of its signatures.            *)
AllSigned == j.at = "sent" => \A i \in DOMAIN j.in : j.in[i].signed
=============================================================================
