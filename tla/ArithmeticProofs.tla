-------------------------- MODULE ArithmeticProofs --------------------------
(***************************************************************************)
(* The arithmetic of the money: what the fees of Amounts promise, for      *)
(* every balance, and what the rebalancing of BfxRatio does, for all       *)
(* balances and every smallest amount.                                     *)
(***************************************************************************)
EXTENDS Amounts, BfxRatio, TLAPS

(* get_server_fee: the fee of a larger amount is not smaller, and grows by *)
(* at most one when the amount does.                                       *)
LEMMA ServerFeeGrows ==
    \A a \in Nat : /\ get_server_fee(a) \in Nat
                   /\ get_server_fee(a) <= get_server_fee(a + 1)
                   /\ get_server_fee(a + 1) <= get_server_fee(a) + 1
BY DEF get_server_fee, Rounded, AtLeast, MIN_SERVER_FEE

(* get_max_bitcoin_amount: the first estimate is off by one at most, so    *)
(* the single correction of the code is enough.                            *)
LEMMA EstimateIsClose ==
    ASSUME NEW b \in Nat, EnoughBalance(b),
           NEW a, a = b - AtLeast(Rounded(b, 1001), MIN_SERVER_FEE)
    PROVE  /\ a \in Nat \ {0}
           /\ a + get_server_fee(a) <= b + 1
           /\ a + 1 + get_server_fee(a + 1) > b
BY DEF EnoughBalance, get_server_fee, Rounded, AtLeast, MIN_SERVER_FEE, MIN_BITCOIN_AMOUNT

(* get_max_bitcoin_amount: whatever the balance, the amount and the fee    *)
(* the server takes of it can be paid ("more_count == 0" of the test).     *)
THEOREM MaxAmountAffordable ==
    \A b \in Nat : EnoughBalance(b) => Pays(b, get_max_bitcoin_amount(b))
<1> SUFFICES ASSUME NEW b \in Nat, EnoughBalance(b) PROVE Pays(b, get_max_bitcoin_amount(b))
  OBVIOUS
<1> DEFINE a == b - AtLeast(Rounded(b, 1001), MIN_SERVER_FEE)
<1>1. a \in Nat \ {0} /\ a + get_server_fee(a) <= b + 1
  BY EstimateIsClose
<1>2. a - 1 \in Nat /\ a - 1 + 1 = a
  BY <1>1
<1>3. get_server_fee(a - 1) \in Nat /\ get_server_fee(a) \in Nat /\ get_server_fee(a - 1) <= get_server_fee(a)
  BY <1>1, <1>2, ServerFeeGrows
<1>4. CASE b < a + get_server_fee(a)
  <2>1. get_max_bitcoin_amount(b) = a - 1
    BY <1>4 DEF get_max_bitcoin_amount
  <2> HIDE DEF a
  <2> QED BY <2>1, <1>1, <1>3 DEF Pays
<1>5. CASE ~(b < a + get_server_fee(a))
  <2>1. get_max_bitcoin_amount(b) = a
    BY <1>5 DEF get_max_bitcoin_amount
  <2> HIDE DEF a
  <2> QED BY <2>1, <1>5, <1>1, <1>3 DEF Pays
<1> QED BY <1>4, <1>5

(* get_max_bitcoin_amount: one satoshi more could not be paid.             *)
THEOREM MaxAmountIsMax ==
    \A b \in Nat : EnoughBalance(b) => ~Pays(b, get_max_bitcoin_amount(b) + 1)
<1> SUFFICES ASSUME NEW b \in Nat, EnoughBalance(b) PROVE ~Pays(b, get_max_bitcoin_amount(b) + 1)
  OBVIOUS
<1> DEFINE a == b - AtLeast(Rounded(b, 1001), MIN_SERVER_FEE)
<1>1. a \in Nat \ {0} /\ a + 1 + get_server_fee(a + 1) > b
  BY EstimateIsClose
<1>2. get_server_fee(a) \in Nat /\ get_server_fee(a + 1) \in Nat
  BY <1>1, ServerFeeGrows
<1>3. CASE b < a + get_server_fee(a)
  <2>1. get_max_bitcoin_amount(b) = a - 1
    BY <1>3 DEF get_max_bitcoin_amount
  <2>2. a - 1 + 1 = a
    BY <1>1
  <2> HIDE DEF a
  <2> QED BY <2>1, <2>2, <1>1, <1>2, <1>3 DEF Pays
<1>4. CASE ~(b < a + get_server_fee(a))
  <2>1. get_max_bitcoin_amount(b) = a
    BY <1>4 DEF get_max_bitcoin_amount
  <2> HIDE DEF a
  <2> QED BY <2>1, <1>1, <1>2 DEF Pays
<1> QED BY <1>3, <1>4

(* expected_network_fee: fewer inputs do not cost more.                    *)
LEMMA NetworkFeeGrows ==
    ASSUME NEW n \in Nat, NEW m \in Nat, NEW o \in Nat, n <= m
    PROVE  /\ expected_network_fee(n, o) \in Nat
           /\ expected_network_fee(n, o) <= expected_network_fee(m, o)
BY DEF expected_network_fee

(* asset_fee: a smaller network fee is not dearer.                         *)
LEMMA AssetFeeGrows ==
    ASSUME NEW fixed \in Nat, NEW price \in Nat, NEW f \in Nat, NEW g \in Nat, f <= g
    PROVE  /\ asset_fee(fixed, price, f) \in Nat
           /\ asset_fee(fixed, price, f) <= asset_fee(fixed, price, g)
<1>1. /\ price * f \in Nat /\ price * g \in Nat
      /\ price * f <= price * g
  OBVIOUS
<1>2. \A x, y \in Nat : x <= y => Rounded(x, 64) \in Nat /\ Rounded(x, 64) <= Rounded(y, 64)
  BY DEF Rounded
<1>3. /\ Rounded(price * f, 64) \in Nat /\ Rounded(price * f, 64) <= Rounded(price * g, 64)
      /\ Rounded(price * g, 64) \in Nat
  BY <1>1, <1>2
<1> QED BY <1>3 DEF asset_fee

(* create_payjoin and construct_pset: the fee of the transaction that is   *)
(* made, with the inputs that were selected, is at most the one the inputs *)
(* were selected for and the user is shown, so that no subtraction of      *)
(* construct_pset can wrap around.                                         *)
THEOREM PayjoinFeeIsBounded ==
    \A selected, available, outputs, fixed, price \in Nat :
       selected <= available =>
          asset_fee(fixed, price, expected_network_fee(selected, outputs))
             <= asset_fee(fixed, price, expected_network_fee(available, outputs))
<1> SUFFICES ASSUME NEW s \in Nat, NEW t \in Nat, NEW o \in Nat, NEW fixed \in Nat, NEW price \in Nat, s <= t
             PROVE  asset_fee(fixed, price, expected_network_fee(s, o))
                       <= asset_fee(fixed, price, expected_network_fee(t, o))
  OBVIOUS
<1>1. /\ expected_network_fee(s, o) \in Nat /\ expected_network_fee(t, o) \in Nat
      /\ expected_network_fee(s, o) <= expected_network_fee(t, o)
  BY NetworkFeeGrows
<1> QED BY <1>1, AssetFeeGrows
-----------------------------------------------------------------------------
(* The fields of the two kinds of transfer that can be suggested.          *)
LEMMA RecvFields ==
    ASSUME NEW a
    PROVE  Recv(a).dir = "Recv" /\ Recv(a).amount = a
BY DEF Recv

LEMMA SendFields ==
    ASSUME NEW a
    PROVE  SendOut(a).dir = "Send" /\ SendOut(a).amount = a
BY DEF SendOut

(* get_balancing_smaller suggests nothing while the wallet holds between   *)
(* one and three quarters of the total.                                    *)
LEMMA InRangeIsNothing ==
    ASSUME NEW w, NEW e, ~(4 * w < w + e), ~(4 * w > 3 * (w + e))
    PROVE  get_balancing_smaller(w, e) = Nothing
BY DEF get_balancing_smaller

(* What is suggested for the smaller asset can be paid for, and brings its *)
(* two sides within one unit of each other, so nothing more is suggested.  *)
LEMMA SmallerFacts ==
    ASSUME NEW w \in Nat, NEW e \in Nat, get_balancing_smaller(w, e) /= Nothing
    PROVE  LET b == get_balancing_smaller(w, e)
           IN  /\ b.amount \in Nat
               /\ \/ b.dir = "Recv" /\ b.amount <= e
                     /\ get_balancing_smaller(w + b.amount, e - b.amount) = Nothing
                  \/ b.dir = "Send" /\ b.amount <= w
                     /\ get_balancing_smaller(w - b.amount, e + b.amount) = Nothing
<1>0. w /= 0 /\ e /= 0
  BY DEF get_balancing_smaller
<1>1. CASE 4 * w < w + e
  <2> DEFINE a == RoundedHalf(Abs(e - w))
  <2>1. get_balancing_smaller(w, e) = Recv(a)
    BY <1>0, <1>1 DEF get_balancing_smaller
  <2>2. a = (e - w + 1) \div 2
    BY <1>1 DEF RoundedHalf, Abs
  <2>3. a \in Nat /\ a <= e /\ e - a <= w + a /\ w + a <= e - a + 1
    BY <1>0, <1>1, <2>2
  <2> HIDE DEF a
  <2>4. ~(4 * (w + a) < w + a + (e - a)) /\ ~(4 * (w + a) > 3 * (w + a + (e - a)))
    BY <1>0, <2>3
  <2>5. get_balancing_smaller(w + a, e - a) = Nothing
    BY <2>4, InRangeIsNothing
  <2>6. Recv(a).dir = "Recv" /\ Recv(a).amount = a
    BY RecvFields
  <2> QED BY <2>1, <2>3, <2>5, <2>6
<1>2. CASE ~(4 * w < w + e)
  <2> DEFINE a == RoundedHalf(Abs(e - w))
  <2>0. 4 * w > 3 * (w + e)
    BY <1>0, <1>2 DEF get_balancing_smaller
  <2>1. get_balancing_smaller(w, e) = SendOut(a)
    BY <1>0, <1>2, <2>0 DEF get_balancing_smaller
  <2>2. a = (w - e + 1) \div 2
    BY <2>0 DEF RoundedHalf, Abs
  <2>3. a \in Nat /\ a <= w /\ w - a <= e + a /\ e + a <= w - a + 1
    BY <1>0, <2>0, <2>2
  <2> HIDE DEF a
  <2>4. ~(4 * (w - a) < w - a + (e + a)) /\ ~(4 * (w - a) > 3 * (w - a + (e + a)))
    BY <1>0, <2>3
  <2>5. get_balancing_smaller(w - a, e + a) = Nothing
    BY <2>4, InRangeIsNothing
  <2>6. SendOut(a).dir = "Send" /\ SendOut(a).amount = a
    BY SendFields
  <2> QED BY <2>1, <2>3, <2>5, <2>6
<1> QED BY <1>1, <1>2

(* get_balancing_bigger suggests nothing once each wallet covers what the  *)
(* exchange holds of the other asset.                                      *)
LEMMA CoveredIsNothing ==
    ASSUME NEW W, NEW E, NEW w, NEW e, ~(e - W > 0), ~(w - E > 0)
    PROVE  get_balancing_bigger(W, E, w, e) = Nothing
BY DEF get_balancing_bigger

(* What is suggested for the bigger asset can be paid for, and makes its   *)
(* two sides cover the other asset exactly.                                *)
LEMMA BiggerFacts ==
    ASSUME NEW W \in Nat, NEW E \in Nat, NEW w \in Nat, NEW e \in Nat, w + e <= W + E,
           get_balancing_bigger(W, E, w, e) /= Nothing
    PROVE  LET b == get_balancing_bigger(W, E, w, e)
           IN  /\ b.amount \in Nat
               /\ \/ b.dir = "Recv" /\ b.amount <= E
                     /\ get_balancing_bigger(W + b.amount, E - b.amount, w, e) = Nothing
                  \/ b.dir = "Send" /\ b.amount <= W
                     /\ get_balancing_bigger(W - b.amount, E + b.amount, w, e) = Nothing
<1>1. CASE e - W > 0
  <2> DEFINE a == e - W
  <2>1. get_balancing_bigger(W, E, w, e) = Recv(a)
    BY <1>1 DEF get_balancing_bigger
  <2>2. /\ a \in Nat /\ a <= E
        /\ ~(e - (W + a) > 0) /\ ~(w - (E - a) > 0)
    BY <1>1
  <2> HIDE DEF a
  <2>3. get_balancing_bigger(W + a, E - a, w, e) = Nothing
    BY <2>2, CoveredIsNothing
  <2>4. Recv(a).dir = "Recv" /\ Recv(a).amount = a
    BY RecvFields
  <2> QED BY <2>1, <2>2, <2>3, <2>4
<1>2. CASE ~(e - W > 0)
  <2> DEFINE a == w - E
  <2>0. w - E > 0
    BY <1>2, CoveredIsNothing
  <2>1. get_balancing_bigger(W, E, w, e) = SendOut(a)
    BY <1>2, <2>0 DEF get_balancing_bigger
  <2>2. /\ a \in Nat /\ a <= W
        /\ ~(e - (W - a) > 0) /\ ~(w - (E + a) > 0)
    BY <2>0
  <2> HIDE DEF a
  <2>3. get_balancing_bigger(W - a, E + a, w, e) = Nothing
    BY <2>2, CoveredIsNothing
  <2>4. SendOut(a).dir = "Send" /\ SendOut(a).amount = a
    BY SendFields
  <2> QED BY <2>1, <2>2, <2>3, <2>4
<1> QED BY <1>1, <1>2

(* The fields of the suggestion made for one of the assets.                *)
LEMMA OfFields ==
    ASSUME NEW asset, NEW b
    PROVE  /\ Of(asset, b).asset = asset
           /\ Of(asset, b).dir = b.dir
           /\ Of(asset, b).amount = b.amount
BY DEF Of

(* get_balancing prefers the suggestion for the smaller asset to the one   *)
(* for the bigger, and drops it when a balance is zero or it is too small. *)
LEMMA SuggestedChoice ==
    LET smaller == Of(Smaller, SuggestedSmaller)
        bigger == Of(Bigger, SuggestedBigger)
        balancing == IF smaller.dir /= "None" THEN smaller ELSE bigger
    IN  Suggested = IF \/ wallet_btc = 0 \/ exchange_btc = 0
                       \/ wallet_usdt = 0 \/ exchange_usdt = 0
                       \/ balancing.amount < MinAmount
                    THEN NoBalancing ELSE balancing
<1>1. CASE BitcoinSmaller
  <2>1. /\ Smaller = "btc" /\ Bigger = "usdt"
        /\ SuggestedSmaller = get_balancing_smaller(wallet_btc, exchange_btc)
        /\ SuggestedBigger = get_balancing_bigger(wallet_usdt, exchange_usdt,
                                                  wallet_btc, exchange_btc)
    BY <1>1 DEF Smaller, Bigger, SuggestedSmaller, SuggestedBigger
  <2> QED BY <1>1, <2>1 DEF Suggested, get_balancing, BitcoinSmaller
<1>2. CASE ~BitcoinSmaller
  <2>1. /\ Smaller = "usdt" /\ Bigger = "btc"
        /\ SuggestedSmaller = get_balancing_smaller(wallet_usdt, exchange_usdt)
        /\ SuggestedBigger = get_balancing_bigger(wallet_btc, exchange_btc,
                                                  wallet_usdt, exchange_usdt)
    BY <1>2 DEF Smaller, Bigger, SuggestedSmaller, SuggestedBigger
  <2> QED BY <1>2, <2>1 DEF Suggested, get_balancing, BitcoinSmaller
<1> QED BY <1>1, <1>2

(* A suggestion for the smaller asset that is not Nothing has a direction. *)
LEMMA SmallerDirection ==
    SuggestedSmaller = Nothing \/ SuggestedSmaller.dir /= "None"
<1>1. ASSUME NEW w, NEW e
      PROVE  get_balancing_smaller(w, e) = Nothing \/ get_balancing_smaller(w, e).dir /= "None"
  <2> DEFINE a == RoundedHalf(Abs(e - w))
  <2>1. \/ get_balancing_smaller(w, e) = Nothing
        \/ get_balancing_smaller(w, e) = Recv(a)
        \/ get_balancing_smaller(w, e) = SendOut(a)
    BY DEF get_balancing_smaller
  <2>2. Recv(a).dir = "Recv" /\ SendOut(a).dir = "Send"
    BY RecvFields, SendFields
  <2> QED BY <2>1, <2>2
<1> QED BY <1>1 DEF SuggestedSmaller

(* The suggestion is the one for the smaller asset, or else the one for    *)
(* the bigger asset, or nothing.                                           *)
LEMMA SuggestedFacts ==
    /\ Suggested = NoBalancing
       \/ (SuggestedSmaller /= Nothing /\ Suggested = Of(Smaller, SuggestedSmaller))
       \/ (SuggestedSmaller = Nothing /\ SuggestedBigger /= Nothing
           /\ Suggested = Of(Bigger, SuggestedBigger))
    /\ Suggested /= NoBalancing => ~(Suggested.amount < MinAmount)
<1> SUFFICES ASSUME Suggested /= NoBalancing
             PROVE  /\ \/ SuggestedSmaller /= Nothing /\ Suggested = Of(Smaller, SuggestedSmaller)
                       \/ SuggestedSmaller = Nothing /\ SuggestedBigger /= Nothing
                          /\ Suggested = Of(Bigger, SuggestedBigger)
                    /\ ~(Suggested.amount < MinAmount)
  OBVIOUS
<1> DEFINE smaller == Of(Smaller, SuggestedSmaller)
           bigger == Of(Bigger, SuggestedBigger)
<1>1. /\ Suggested = IF smaller.dir /= "None" THEN smaller ELSE bigger
      /\ ~(Suggested.amount < MinAmount)
  BY SuggestedChoice
<1>2. smaller.dir = SuggestedSmaller.dir /\ bigger.amount = SuggestedBigger.amount
  BY OfFields
<1>3. Nothing.dir = "None" /\ Nothing.amount = 0
  BY DEF Nothing
<1> HIDE DEF smaller, bigger
<1>4. CASE SuggestedSmaller /= Nothing
  BY <1>1, <1>2, <1>4, SmallerDirection DEF smaller
<1>5. CASE SuggestedSmaller = Nothing
  <2>1. Suggested = bigger
    BY <1>1, <1>2, <1>3, <1>5
  <2>2. ~(SuggestedBigger.amount < MinAmount)
    BY <1>1, <1>2, <2>1
  <2>3. 0 < MinAmount
    BY RatioAssumption
  <2>4. SuggestedBigger /= Nothing
    BY <1>3, <2>2, <2>3
  <2> QED BY <1>1, <1>5, <2>1, <2>4 DEF bigger
<1> QED BY <1>4, <1>5

(* One transfer started by the timer (Rebalance, main.rs) keeps the         *)
(* inductive invariant: the asset of the transfer comes to rest and the    *)
(* other one is left alone.                                                *)
LEMMA RebalanceKeepsInv ==
    ASSUME RatioInv, Rebalance
    PROVE  RatioInv'
<1> DEFINE b == Suggested
<1>0. /\ wallet_btc \in Nat /\ exchange_btc \in Nat
      /\ wallet_usdt \in Nat /\ exchange_usdt \in Nat
  BY DEF RatioInv
<1>1. b /= NoBalancing /\ Transfer(b) /\ moved' = moved \cup {b.asset}
  BY DEF Rebalance
<1>2. CASE BitcoinSmaller /\ SuggestedSmaller /= Nothing
  <2>1. b = Of("btc", SuggestedSmaller)
    BY <1>1, <1>2, SuggestedFacts DEF Smaller
  <2>2. SuggestedSmaller = get_balancing_smaller(wallet_btc, exchange_btc)
    BY <1>2 DEF SuggestedSmaller
  <2>3. b.amount \in Nat /\ b.asset = "btc"
        /\ wallet_usdt' = wallet_usdt /\ exchange_usdt' = exchange_usdt
        /\ \/ /\ b.amount <= exchange_btc
              /\ wallet_btc' = wallet_btc + b.amount /\ exchange_btc' = exchange_btc - b.amount
           \/ /\ b.amount <= wallet_btc
              /\ wallet_btc' = wallet_btc - b.amount /\ exchange_btc' = exchange_btc + b.amount
        /\ get_balancing_smaller(wallet_btc', exchange_btc') = Nothing
    <3> HIDE DEF b
    <3>1. b.asset = "btc" /\ b.dir = SuggestedSmaller.dir /\ b.amount = SuggestedSmaller.amount
      BY <2>1, OfFields
    <3> DEFINE c == SuggestedSmaller
    <3>2. get_balancing_smaller(wallet_btc, exchange_btc) /= Nothing
      BY <1>2, <2>2
    <3>3. /\ c.amount \in Nat
          /\ \/ c.dir = "Recv" /\ c.amount <= exchange_btc
                /\ get_balancing_smaller(wallet_btc + c.amount, exchange_btc - c.amount) = Nothing
             \/ c.dir = "Send" /\ c.amount <= wallet_btc
                /\ get_balancing_smaller(wallet_btc - c.amount, exchange_btc + c.amount) = Nothing
      BY <1>0, <2>2, <3>2, SmallerFacts
    <3> HIDE DEF c
    <3>4. CASE c.dir = "Recv"
      <4>1. wallet_btc' = wallet_btc + c.amount /\ exchange_btc' = exchange_btc - c.amount /\ UNCHANGED <<wallet_usdt, exchange_usdt>>
        BY <1>0, <1>1, <3>1, <3>3, <3>4 DEF c, Transfer
      <4> QED BY <3>1, <3>3, <3>4, <4>1 DEF c
    <3>5. CASE c.dir = "Send"
      <4>1. wallet_btc' = wallet_btc - c.amount /\ exchange_btc' = exchange_btc + c.amount /\ UNCHANGED <<wallet_usdt, exchange_usdt>>
        BY <1>0, <1>1, <3>1, <3>3, <3>5 DEF c, Transfer
      <4> QED BY <3>1, <3>3, <3>5, <4>1 DEF c
    <3> QED BY <3>3, <3>4, <3>5
  <2>4. BitcoinSmaller' /\ wallet_btc' \in Nat /\ exchange_btc' \in Nat
    BY <1>0, <1>2, <2>3 DEF BitcoinSmaller
  <2>5. moved = {}
    BY <1>2 DEF RatioInv
  <2>6. SuggestedSmaller' = Nothing /\ Bigger' = "usdt"
    BY <2>3, <2>4 DEF SuggestedSmaller, Bigger
  <2> QED BY <1>0, <1>1, <2>3, <2>4, <2>5, <2>6 DEF RatioInv
<1>3. CASE ~BitcoinSmaller /\ SuggestedSmaller /= Nothing
  <2>1. b = Of("usdt", SuggestedSmaller)
    BY <1>1, <1>3, SuggestedFacts DEF Smaller
  <2>2. SuggestedSmaller = get_balancing_smaller(wallet_usdt, exchange_usdt)
    BY <1>3 DEF SuggestedSmaller
  <2>3. b.amount \in Nat /\ b.asset = "usdt"
        /\ wallet_btc' = wallet_btc /\ exchange_btc' = exchange_btc
        /\ \/ /\ b.amount <= exchange_usdt
              /\ wallet_usdt' = wallet_usdt + b.amount /\ exchange_usdt' = exchange_usdt - b.amount
           \/ /\ b.amount <= wallet_usdt
              /\ wallet_usdt' = wallet_usdt - b.amount /\ exchange_usdt' = exchange_usdt + b.amount
        /\ get_balancing_smaller(wallet_usdt', exchange_usdt') = Nothing
    <3> HIDE DEF b
    <3>1. b.asset = "usdt" /\ b.dir = SuggestedSmaller.dir /\ b.amount = SuggestedSmaller.amount
      BY <2>1, OfFields
    <3> DEFINE c == SuggestedSmaller
    <3>2. get_balancing_smaller(wallet_usdt, exchange_usdt) /= Nothing
      BY <1>3, <2>2
    <3>3. /\ c.amount \in Nat
          /\ \/ c.dir = "Recv" /\ c.amount <= exchange_usdt
                /\ get_balancing_smaller(wallet_usdt + c.amount, exchange_usdt - c.amount) = Nothing
             \/ c.dir = "Send" /\ c.amount <= wallet_usdt
                /\ get_balancing_smaller(wallet_usdt - c.amount, exchange_usdt + c.amount) = Nothing
      BY <1>0, <2>2, <3>2, SmallerFacts
    <3> HIDE DEF c
    <3>4. CASE c.dir = "Recv"
      <4>1. wallet_usdt' = wallet_usdt + c.amount /\ exchange_usdt' = exchange_usdt - c.amount /\ UNCHANGED <<wallet_btc, exchange_btc>>
        BY <1>0, <1>1, <3>1, <3>3, <3>4 DEF c, Transfer
      <4> QED BY <3>1, <3>3, <3>4, <4>1 DEF c
    <3>5. CASE c.dir = "Send"
      <4>1. wallet_usdt' = wallet_usdt - c.amount /\ exchange_usdt' = exchange_usdt + c.amount /\ UNCHANGED <<wallet_btc, exchange_btc>>
        BY <1>0, <1>1, <3>1, <3>3, <3>5 DEF c, Transfer
      <4> QED BY <3>1, <3>3, <3>5, <4>1 DEF c
    <3> QED BY <3>3, <3>4, <3>5
  <2>4. ~BitcoinSmaller' /\ wallet_usdt' \in Nat /\ exchange_usdt' \in Nat
    BY <1>0, <1>3, <2>3 DEF BitcoinSmaller
  <2>5. moved = {}
    BY <1>3 DEF RatioInv
  <2>6. SuggestedSmaller' = Nothing /\ Bigger' = "btc"
    BY <2>3, <2>4 DEF SuggestedSmaller, Bigger
  <2> QED BY <1>0, <1>1, <2>3, <2>4, <2>5, <2>6 DEF RatioInv
<1>4. CASE BitcoinSmaller /\ SuggestedSmaller = Nothing
  <2>1. b = Of("usdt", SuggestedBigger) /\ SuggestedBigger /= Nothing
    BY <1>1, <1>4, SuggestedFacts DEF Bigger
  <2>2. SuggestedBigger = get_balancing_bigger(wallet_usdt, exchange_usdt,
                                               wallet_btc, exchange_btc)
    BY <1>4 DEF SuggestedBigger
  <2>3. b.amount \in Nat /\ b.asset = "usdt"
        /\ wallet_btc' = wallet_btc /\ exchange_btc' = exchange_btc
        /\ \/ /\ b.amount <= exchange_usdt
              /\ wallet_usdt' = wallet_usdt + b.amount /\ exchange_usdt' = exchange_usdt - b.amount
           \/ /\ b.amount <= wallet_usdt
              /\ wallet_usdt' = wallet_usdt - b.amount /\ exchange_usdt' = exchange_usdt + b.amount
        /\ get_balancing_bigger(wallet_usdt', exchange_usdt', wallet_btc, exchange_btc) = Nothing
    <3>1. wallet_btc + exchange_btc <= wallet_usdt + exchange_usdt
      BY <1>0, <1>4 DEF BitcoinSmaller
    <3> HIDE DEF b
    <3>2. b.asset = "usdt" /\ b.dir = SuggestedBigger.dir /\ b.amount = SuggestedBigger.amount
      BY <2>1, OfFields
    <3>0. get_balancing_bigger(wallet_usdt, exchange_usdt, wallet_btc, exchange_btc) /= Nothing
      BY <2>1, <2>2
    <3> DEFINE c == SuggestedBigger
    <3>3. /\ c.amount \in Nat
          /\ \/ c.dir = "Recv" /\ c.amount <= exchange_usdt
                /\ get_balancing_bigger(wallet_usdt + c.amount, exchange_usdt - c.amount, wallet_btc, exchange_btc) = Nothing
             \/ c.dir = "Send" /\ c.amount <= wallet_usdt
                /\ get_balancing_bigger(wallet_usdt - c.amount, exchange_usdt + c.amount, wallet_btc, exchange_btc) = Nothing
      BY <1>0, <2>2, <3>0, <3>1, BiggerFacts, SMTT(30)
    <3> HIDE DEF c
    <3>4. CASE c.dir = "Recv"
      <4>1. wallet_usdt' = wallet_usdt + c.amount /\ exchange_usdt' = exchange_usdt - c.amount /\ UNCHANGED <<wallet_btc, exchange_btc>>
        BY <1>0, <1>1, <3>2, <3>3, <3>4 DEF c, Transfer
      <4> QED BY <3>2, <3>3, <3>4, <4>1 DEF c
    <3>5. CASE c.dir = "Send"
      <4>1. wallet_usdt' = wallet_usdt - c.amount /\ exchange_usdt' = exchange_usdt + c.amount /\ UNCHANGED <<wallet_btc, exchange_btc>>
        BY <1>0, <1>1, <3>2, <3>3, <3>5 DEF c, Transfer
      <4> QED BY <3>2, <3>3, <3>5, <4>1 DEF c
    <3> QED BY <3>3, <3>4, <3>5
  <2>4. BitcoinSmaller' /\ wallet_usdt' \in Nat /\ exchange_usdt' \in Nat
    BY <1>0, <1>4, <2>3 DEF BitcoinSmaller
  <2>5. SuggestedSmaller' = Nothing
    BY <1>4, <2>3, <2>4 DEF SuggestedSmaller
  <2>6. SuggestedBigger' = Nothing
    BY <2>3, <2>4 DEF SuggestedBigger
  <2> QED BY <1>0, <1>1, <2>3, <2>4, <2>5, <2>6 DEF RatioInv
<1>5. CASE ~BitcoinSmaller /\ SuggestedSmaller = Nothing
  <2>1. b = Of("btc", SuggestedBigger) /\ SuggestedBigger /= Nothing
    BY <1>1, <1>5, SuggestedFacts DEF Bigger
  <2>2. SuggestedBigger = get_balancing_bigger(wallet_btc, exchange_btc,
                                               wallet_usdt, exchange_usdt)
    BY <1>5 DEF SuggestedBigger
  <2>3. b.amount \in Nat /\ b.asset = "btc"
        /\ wallet_usdt' = wallet_usdt /\ exchange_usdt' = exchange_usdt
        /\ \/ /\ b.amount <= exchange_btc
              /\ wallet_btc' = wallet_btc + b.amount /\ exchange_btc' = exchange_btc - b.amount
           \/ /\ b.amount <= wallet_btc
              /\ wallet_btc' = wallet_btc - b.amount /\ exchange_btc' = exchange_btc + b.amount
        /\ get_balancing_bigger(wallet_btc', exchange_btc', wallet_usdt, exchange_usdt) = Nothing
    <3>1. wallet_usdt + exchange_usdt <= wallet_btc + exchange_btc
      BY <1>0, <1>5 DEF BitcoinSmaller
    <3> HIDE DEF b
    <3>2. b.asset = "btc" /\ b.dir = SuggestedBigger.dir /\ b.amount = SuggestedBigger.amount
      BY <2>1, OfFields
    <3>0. get_balancing_bigger(wallet_btc, exchange_btc, wallet_usdt, exchange_usdt) /= Nothing
      BY <2>1, <2>2
    <3> DEFINE c == SuggestedBigger
    <3>3. /\ c.amount \in Nat
          /\ \/ c.dir = "Recv" /\ c.amount <= exchange_btc
                /\ get_balancing_bigger(wallet_btc + c.amount, exchange_btc - c.amount, wallet_usdt, exchange_usdt) = Nothing
             \/ c.dir = "Send" /\ c.amount <= wallet_btc
                /\ get_balancing_bigger(wallet_btc - c.amount, exchange_btc + c.amount, wallet_usdt, exchange_usdt) = Nothing
      BY <1>0, <2>2, <3>0, <3>1, BiggerFacts, SMTT(30)
    <3> HIDE DEF c
    <3>4. CASE c.dir = "Recv"
      <4>1. wallet_btc' = wallet_btc + c.amount /\ exchange_btc' = exchange_btc - c.amount /\ UNCHANGED <<wallet_usdt, exchange_usdt>>
        BY <1>0, <1>1, <3>2, <3>3, <3>4 DEF c, Transfer
      <4> QED BY <3>2, <3>3, <3>4, <4>1 DEF c
    <3>5. CASE c.dir = "Send"
      <4>1. wallet_btc' = wallet_btc - c.amount /\ exchange_btc' = exchange_btc + c.amount /\ UNCHANGED <<wallet_usdt, exchange_usdt>>
        BY <1>0, <1>1, <3>2, <3>3, <3>5 DEF c, Transfer
      <4> QED BY <3>2, <3>3, <3>5, <4>1 DEF c
    <3> QED BY <3>3, <3>4, <3>5
  <2>4. ~BitcoinSmaller' /\ wallet_btc' \in Nat /\ exchange_btc' \in Nat
    BY <1>0, <1>5, <2>3 DEF BitcoinSmaller
  <2>5. SuggestedSmaller' = Nothing
    BY <1>5, <2>3, <2>4 DEF SuggestedSmaller
  <2>6. SuggestedBigger' = Nothing
    BY <2>3, <2>4 DEF SuggestedBigger
  <2> QED BY <1>0, <1>1, <2>3, <2>4, <2>5, <2>6 DEF RatioInv
<1> QED BY <1>2, <1>3, <1>4, <1>5

(* The inductive invariant of repeated balancing.                          *)
THEOREM RatioCorrect == Spec => []RatioInv
<1>1. Init => RatioInv
  BY RatioAssumption DEF Init, RatioInv
<1>2. RatioInv /\ [Next]_<<balances, moved>> => RatioInv'
  <2> SUFFICES ASSUME RatioInv, [Next]_<<balances, moved>> PROVE RatioInv'
    OBVIOUS
  <2>1. CASE Rebalance
    BY <2>1, RebalanceKeepsInv
  <2>2. CASE UNCHANGED <<balances, moved>>
    BY <2>2 DEF balances, RatioInv, SuggestedSmaller, SuggestedBigger, Bigger, BitcoinSmaller
  <2> QED BY <2>1, <2>2 DEF Next
<1> QED BY <1>1, <1>2, PTL DEF Spec

(* get_balancing never suggests a transfer the paying side cannot afford,  *)
(* nor one below the smallest amount, whatever the balances and the price. *)
THEOREM AlwaysAffordable == Spec => []Affordable
<1>1. RatioInv => Affordable
  <2> SUFFICES ASSUME RatioInv, Suggested.dir /= "None" PROVE Affordable
    BY Zenon DEF Affordable
  <2>0. /\ wallet_btc \in Nat /\ exchange_btc \in Nat
        /\ wallet_usdt \in Nat /\ exchange_usdt \in Nat
    BY DEF RatioInv
  <2>1. Suggested /= NoBalancing /\ ~(Suggested.amount < MinAmount)
    BY SuggestedFacts DEF NoBalancing, Of, Nothing
  <2>2. CASE SuggestedSmaller /= Nothing
    <3>1. Suggested = Of(Smaller, SuggestedSmaller)
      BY <2>1, <2>2, SuggestedFacts
    <3> QED BY <2>0, <2>1, <2>2, <3>1, SmallerFacts, RatioAssumption
            DEF Affordable, Of, Smaller, SuggestedSmaller
  <2>3. CASE SuggestedSmaller = Nothing
    <3>1. Suggested = Of(Bigger, SuggestedBigger) /\ SuggestedBigger /= Nothing
      BY <2>1, <2>3, SuggestedFacts
    <3> QED BY <2>0, <2>1, <3>1, BiggerFacts, RatioAssumption
            DEF Affordable, Of, Bigger, SuggestedBigger, BitcoinSmaller
  <2> QED BY <2>2, <2>3
<1> QED BY <1>1, RatioCorrect, PTL

(* Balancing comes to rest after at most one transfer of each asset.       *)
THEOREM ComesToRest == Spec => []NoPingPong
<1>1. RatioInv => NoPingPong
  <2> SUFFICES ASSUME RatioInv PROVE Suggested.asset \notin moved
    BY DEF NoPingPong
  <2>1. CASE Suggested = NoBalancing
    BY <2>1 DEF NoBalancing, Of, RatioInv
  <2>2. CASE Suggested /= NoBalancing
    BY <2>2, SuggestedFacts DEF Of, RatioInv, Smaller, Bigger
  <2> QED BY <2>1, <2>2
<1> QED BY <1>1, RatioCorrect, PTL

(* What get_balancing_bigger calls too little to move is a difference      *)
(* below the smallest transfer, on both sides.                             *)
LEMMA BiggerCovers ==
    ASSUME NEW w \in Nat, NEW e \in Nat, NEW W \in Nat, NEW E \in Nat,
           w + e <= W + E,
           get_balancing_bigger(W, E, w, e).amount < MinAmount
    PROVE  e < W + MinAmount /\ w < E + MinAmount
<1>0. MinAmount \in Nat /\ MinAmount > 0
  BY RatioAssumption
<1>1. CASE e - W > 0
  <2>1. get_balancing_bigger(W, E, w, e).amount = e - W
    BY <1>1 DEF get_balancing_bigger, Recv
  <2> QED BY <1>0, <1>1, <2>1
<1>2. CASE ~(e - W > 0) /\ w - E > 0
  <2>1. get_balancing_bigger(W, E, w, e).amount = w - E
    BY <1>2 DEF get_balancing_bigger, SendOut
  <2> QED BY <1>0, <1>2, <2>1
<1>3. CASE ~(e - W > 0) /\ ~(w - E > 0)
  BY <1>0, <1>3
<1> QED BY <1>1, <1>2, <1>3

(* get_balancing suggests nothing: a balance is zero, the smaller asset is *)
(* out of its range, or the bigger one is off by too little.               *)
LEMMA NothingSuggested ==
    ASSUME Suggested = NoBalancing
    PROVE  \/ wallet_btc = 0 \/ exchange_btc = 0 \/ wallet_usdt = 0 \/ exchange_usdt = 0
           \/ SuggestedSmaller /= Nothing
           \/ SuggestedBigger.amount < MinAmount
<1> SUFFICES ASSUME wallet_btc /= 0, exchange_btc /= 0, wallet_usdt /= 0, exchange_usdt /= 0,
                    SuggestedSmaller = Nothing,
                    ~(SuggestedBigger.amount < MinAmount)
             PROVE  FALSE
  OBVIOUS
<1>1. Of(Smaller, SuggestedSmaller).dir = "None"
  BY OfFields DEF Nothing
<1>2. ~(Of(Bigger, SuggestedBigger).amount < MinAmount)
  BY OfFields
<1>3. Suggested = Of(Bigger, SuggestedBigger)
  BY <1>1, <1>2, SuggestedChoice
<1>4. Suggested.asset = Bigger
  BY <1>3, OfFields
<1>5. Suggested.asset = "None"
  BY OfFields DEF NoBalancing
<1> QED BY <1>4, <1>5 DEF Bigger

(* When get_balancing suggests nothing, the wallet of each asset covers    *)
(* what the exchange holds of the other, up to the smallest transfer,      *)
(* unless a balance is zero or the smaller asset is out of its range.      *)
THEOREM RestCovers == Spec => []RestIsBalanced
<1>1. RatioInv => RestIsBalanced
  <2> SUFFICES ASSUME RatioInv, Suggested = NoBalancing PROVE RestIsBalanced
    BY DEF RestIsBalanced
  <2>0. /\ wallet_btc \in Nat /\ exchange_btc \in Nat
        /\ wallet_usdt \in Nat /\ exchange_usdt \in Nat
        /\ MinAmount \in Nat \ {0}
    BY RatioAssumption DEF RatioInv
  <2>1. CASE BitcoinSmaller
    <3>1. CASE SuggestedSmaller /= Nothing
      BY <2>1, <3>1 DEF RestIsBalanced, BitcoinSmaller, SuggestedSmaller
    <3>2. CASE SuggestedBigger.amount < MinAmount
      <4>1. exchange_btc < wallet_usdt + MinAmount /\ wallet_btc < exchange_usdt + MinAmount
        BY <2>0, <2>1, <3>2, BiggerCovers DEF SuggestedBigger, BitcoinSmaller
      <4> QED BY <2>1, <4>1 DEF RestIsBalanced, BitcoinSmaller
    <3>3. CASE \/ wallet_btc = 0 \/ exchange_btc = 0
               \/ wallet_usdt = 0 \/ exchange_usdt = 0
      BY <2>1, <3>3 DEF RestIsBalanced, BitcoinSmaller
    <3> QED BY <3>1, <3>2, <3>3, NothingSuggested
  <2>2. CASE ~BitcoinSmaller
    <3>1. CASE SuggestedSmaller /= Nothing
      BY <2>2, <3>1 DEF RestIsBalanced, BitcoinSmaller, SuggestedSmaller
    <3>2. CASE SuggestedBigger.amount < MinAmount
      <4>1. exchange_usdt < wallet_btc + MinAmount /\ wallet_usdt < exchange_btc + MinAmount
        BY <2>0, <2>2, <3>2, BiggerCovers DEF SuggestedBigger, BitcoinSmaller
      <4> QED BY <2>2, <4>1 DEF RestIsBalanced, BitcoinSmaller
    <3>3. CASE \/ wallet_btc = 0 \/ exchange_btc = 0
               \/ wallet_usdt = 0 \/ exchange_usdt = 0
      BY <2>2, <3>3 DEF RestIsBalanced, BitcoinSmaller
    <3> QED BY <3>1, <3>2, <3>3, NothingSuggested
  <2> QED BY <2>1, <2>2
<1> QED BY <1>1, RatioCorrect, PTL
=============================================================================
