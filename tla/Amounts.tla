------------------------------- MODULE Amounts -------------------------------
(***************************************************************************)
(* Amounts and fees in satoshi: the server's fee on a swap and the largest *)
(* amount a balance can pay for (sideswap_common/src/types.rs), the        *)
(* network fee and the asset fee of a payjoin (sideswap_payjoin/src).      *)
(*                                                                         *)
(* The code computes in 64-bit floating point and rounds to satoshi.  That *)
(* is the exact rounding for every amount below a million bitcoin, but for *)
(* a fee halfway between two integers: the rate 0.001 has no finite binary *)
(* form, so that some of these products fall just below the half (507500   *)
(* pays 507, 500500 pays 501).                                             *)
(***************************************************************************)
EXTENDS Integers

CONSTANT TiesDown   \* the amounts whose fee falls just below the half

MIN_BITCOIN_AMOUNT == 2000
MIN_SERVER_FEE == 500

(* x / d to the nearest integer, halves up.                                *)
Rounded(x, d) == (2 * x + d) \div (2 * d)
AtLeast(x, min) == IF x < min THEN min ELSE x

(* SERVER_FEE_RATE is 1/1000.                                              *)
get_server_fee(bitcoin_amount) ==
    AtLeast(IF bitcoin_amount % 1000 = 500 /\ bitcoin_amount \in TiesDown
            THEN bitcoin_amount \div 1000 ELSE Rounded(bitcoin_amount, 1000),
            MIN_SERVER_FEE)

(* Bug: the estimate is not corrected. *)
Bug_get_max_bitcoin_amount(bitcoin_balance) ==
    bitcoin_balance - AtLeast(Rounded(bitcoin_balance, 1001), MIN_SERVER_FEE)

(* The fee is computed of the balance first, where it is 1/1001 of it, and *)
(* corrected by one when rounding took too little.                         *)
get_max_bitcoin_amount(bitcoin_balance) ==
    LET bitcoin_amount == bitcoin_balance - AtLeast(Rounded(bitcoin_balance, 1001), MIN_SERVER_FEE)
    IN  IF bitcoin_balance < bitcoin_amount + get_server_fee(bitcoin_amount)
        THEN bitcoin_amount - 1 ELSE bitcoin_amount

(* The balances it is defined for.                                         *)
EnoughBalance(bitcoin_balance) == bitcoin_balance >= MIN_BITCOIN_AMOUNT + MIN_SERVER_FEE

(* A swap of the amount and its fee can be paid from the balance.          *)
Pays(bitcoin_balance, bitcoin_amount) ==
    bitcoin_amount + get_server_fee(bitcoin_amount) <= bitcoin_balance
-----------------------------------------------------------------------------
(* The network fee of a transaction with that many inputs and blinded      *)
(* outputs, at 0.1 satoshi per byte, rounded up.                           *)
expected_network_fee(single_sig_inputs, blinded_outputs) ==
    LET weight == 44 + 367 * single_sig_inputs + 4810 * blinded_outputs + 178
        vsize == (weight + 3) \div 4
    IN  (vsize + 9) \div 10

(* The network fee in the asset, at price/64 (a price the floating-point   *)
(* product is exact for), and the server's own fee.                        *)
asset_fee(fixed_fee, price, network_fee) == fixed_fee + Rounded(price * network_fee, 64)
=============================================================================
