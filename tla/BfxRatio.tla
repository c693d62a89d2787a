------------------------------ MODULE BfxRatio ------------------------------
(***************************************************************************)
(* When and how much the Bitfinex dealer moves between its own wallet and  *)
(* the exchange (get_balancing in balancing.rs), and the states the four   *)
(* balances go through when every suggested transfer is carried out.       *)
(*                                                                         *)
(* All amounts are values in one currency, bitcoins times the price, in    *)
(* units of the smallest amount that can be transferred.                   *)
(***************************************************************************)
EXTENDS Integers

CONSTANTS
    MinAmount,    \* MIN_BALANCING_AMOUNT_USDT
    MaxValue      \* bound: largest balance a dealer starts with

ASSUME RatioAssumption ==
    /\ MinAmount \in Nat \ {0}
    /\ MaxValue \in Nat \ {0}

Nothing == [dir |-> "None", amount |-> 0]
Recv(amount) == [dir |-> "Recv", amount |-> amount]
SendOut(amount) == [dir |-> "Send", amount |-> amount]

Abs(x) == IF x < 0 THEN -x ELSE x

(* Amount::from_bitcoin rounds to the nearest unit. *)
RoundedHalf(x) == (x + 1) \div 2

(* RATIO_BTC and RATIO_USDT: at least 1/4 and at most 3/4 of the total in  *)
(* the wallet, back to 1/2 otherwise.                                      *)
Bug_smaller_swapped(wallet, exchange) ==
    IF wallet = 0 \/ exchange = 0 THEN Nothing
    ELSE IF 4 * wallet < wallet + exchange THEN SendOut(RoundedHalf(Abs(exchange - wallet)))
    ELSE IF 4 * wallet > 3 * (wallet + exchange) THEN Recv(RoundedHalf(Abs(exchange - wallet)))
    ELSE Nothing

get_balancing_smaller(wallet, exchange) ==
    IF wallet = 0 \/ exchange = 0 THEN Nothing
    ELSE IF 4 * wallet < wallet + exchange THEN Recv(RoundedHalf(Abs(exchange - wallet)))
    ELSE IF 4 * wallet > 3 * (wallet + exchange) THEN SendOut(RoundedHalf(Abs(exchange - wallet)))
    ELSE Nothing

(* Bug: the wallets are compared, instead of each asset's wallet with the  *)
(* other asset's side of the exchange.                                     *)
Bug_bigger_same_side(asset_wallet, asset_exchange, other_wallet, other_exchange) ==
    IF other_wallet - asset_wallet > 0 THEN Recv(other_wallet - asset_wallet)
    ELSE IF other_exchange - asset_exchange > 0
         THEN SendOut(other_exchange - asset_exchange)
    ELSE Nothing

get_balancing_bigger(asset_wallet, asset_exchange, other_wallet, other_exchange) ==
    IF other_exchange - asset_wallet > 0 THEN Recv(other_exchange - asset_wallet)
    ELSE IF other_wallet - asset_exchange > 0 THEN SendOut(other_wallet - asset_exchange)
    ELSE Nothing

Of(asset, b) == [asset |-> asset, dir |-> b.dir, amount |-> b.amount]
NoBalancing == Of("None", Nothing)

get_balancing(wallet_btc, exchange_btc, wallet_usdt, exchange_usdt) ==
    LET bitcoin_smaller == wallet_btc + exchange_btc < wallet_usdt + exchange_usdt
        smaller == IF bitcoin_smaller
                   THEN Of("btc", get_balancing_smaller(wallet_btc, exchange_btc))
                   ELSE Of("usdt", get_balancing_smaller(wallet_usdt, exchange_usdt))
        bigger == IF bitcoin_smaller
                  THEN Of("usdt", get_balancing_bigger(wallet_usdt, exchange_usdt,
                                                       wallet_btc, exchange_btc))
                  ELSE Of("btc", get_balancing_bigger(wallet_btc, exchange_btc,
                                                      wallet_usdt, exchange_usdt))
        balancing == IF smaller.dir /= "None" THEN smaller ELSE bigger
    IN  IF \/ wallet_btc = 0 \/ exchange_btc = 0
           \/ wallet_usdt = 0 \/ exchange_usdt = 0
           \/ balancing.amount < MinAmount
        THEN NoBalancing ELSE balancing
-----------------------------------------------------------------------------
VARIABLES
    wallet_btc, exchange_btc, wallet_usdt, exchange_usdt,
    moved         \* the assets moved so far

balances == <<wallet_btc, exchange_btc, wallet_usdt, exchange_usdt>>

Suggested == get_balancing(wallet_btc, exchange_btc, wallet_usdt, exchange_usdt)

Init ==
    /\ wallet_btc \in 0..MaxValue
    /\ exchange_btc \in 0..MaxValue
    /\ wallet_usdt \in 0..MaxValue
    /\ exchange_usdt \in 0..MaxValue
    /\ moved = {}

(* The timer of the dealer starts the suggested transfer and waits until   *)
(* it is complete (BfxBalancing); the value of the assets stays the same.  *)
Transfer(b) ==
    LET received == IF b.dir = "Recv" THEN b.amount ELSE -b.amount
    IN  IF b.asset = "btc"
        THEN /\ wallet_btc' = wallet_btc + received
             /\ exchange_btc' = exchange_btc - received
             /\ UNCHANGED <<wallet_usdt, exchange_usdt>>
        ELSE /\ wallet_usdt' = wallet_usdt + received
             /\ exchange_usdt' = exchange_usdt - received
             /\ UNCHANGED <<wallet_btc, exchange_btc>>

Rebalance ==
    /\ Suggested /= NoBalancing
    /\ Transfer(Suggested)
    /\ moved' = moved \cup {Suggested.asset}

Next == Rebalance

Spec == Init /\ [][Next]_<<balances, moved>>
-----------------------------------------------------------------------------
(* Every suggested transfer can be paid for: it leaves something on both   *)
(* sides of the asset it moves.                                            *)
Affordable ==
    Suggested.dir /= "None" =>
        LET source == CASE Suggested.asset = "btc" /\ Suggested.dir = "Send" -> wallet_btc
                        [] Suggested.asset = "btc" /\ Suggested.dir = "Recv" -> exchange_btc
                        [] Suggested.asset = "usdt" /\ Suggested.dir = "Send" -> wallet_usdt
                        [] Suggested.asset = "usdt" /\ Suggested.dir = "Recv" -> exchange_usdt
        IN  MinAmount <= Suggested.amount /\ Suggested.amount <= source

(* Balancing comes to rest: no asset is moved twice, so after at most one  *)
(* transfer of each nothing is left to do until the market moves.          *)
NoPingPong == Suggested.asset \notin moved

(* At rest each asset's wallet covers what the other asset can buy on the  *)
(* exchange, up to the smallest transfer worth making, unless a balance is *)
(* zero or the smaller asset is out of its range by less than that.        *)
RestIsBalanced ==
    Suggested = NoBalancing =>
        LET btc_smaller == wallet_btc + exchange_btc < wallet_usdt + exchange_usdt
            w == IF btc_smaller THEN wallet_btc ELSE wallet_usdt
            e == IF btc_smaller THEN exchange_btc ELSE exchange_usdt
            W == IF btc_smaller THEN wallet_usdt ELSE wallet_btc
            E == IF btc_smaller THEN exchange_usdt ELSE exchange_btc
        IN  \/ w = 0 \/ e = 0 \/ W = 0 \/ E = 0
            \/ get_balancing_smaller(w, e) /= Nothing
            \/ e < W + MinAmount /\ w < E + MinAmount

(* The smaller and the bigger asset, and what is suggested for each.       *)
BitcoinSmaller == wallet_btc + exchange_btc < wallet_usdt + exchange_usdt
Smaller == IF BitcoinSmaller THEN "btc" ELSE "usdt"
Bigger == IF BitcoinSmaller THEN "usdt" ELSE "btc"
SuggestedSmaller ==
    IF BitcoinSmaller THEN get_balancing_smaller(wallet_btc, exchange_btc)
    ELSE get_balancing_smaller(wallet_usdt, exchange_usdt)
SuggestedBigger ==
    IF BitcoinSmaller
    THEN get_balancing_bigger(wallet_usdt, exchange_usdt, wallet_btc, exchange_btc)
    ELSE get_balancing_bigger(wallet_btc, exchange_btc, wallet_usdt, exchange_usdt)

(* The inductive invariant: an asset that was moved needs no further move, *)
(* and the bigger one is moved only when the smaller one is in its range.  *)
RatioInv ==
    /\ wallet_btc \in Nat /\ exchange_btc \in Nat
    /\ wallet_usdt \in Nat /\ exchange_usdt \in Nat
    /\ moved \subseteq {"btc", "usdt"}
    /\ moved /= {} => SuggestedSmaller = Nothing
    /\ Bigger \in moved => SuggestedBigger = Nothing
=============================================================================
